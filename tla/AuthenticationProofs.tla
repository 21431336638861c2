------------------------ MODULE AuthenticationProofs ------------------------
(***************************************************************************)
(* Proofs about Authentication, for any set of requests, credentials and   *)
(* proxies and any size of the caches: requests use the proxy that was set *)
(* last, a sign-in gets a token of its own, and a token that is kept is    *)
(* fresh.                                                                  *)
(***************************************************************************)
EXTENDS Authentication, TLAPS

Stages == {"idle", "check", "lock", "send", "sending", "wait", "return", "out"}
Flights == {"none", "sent", "cancelled", "storing", "answered"}
Statuses == {"none", "ok", "denied", "cancelled", "offline", "unavailable"}

TokenType == [key : Keys, op : Operations, expiry : Int]
ResponseType == [kind : {"error", "result"}, status : Statuses, code : Nat, token : Nat,
                 expiry : Int]
RequestType == [op : Operations \cup {"none"}, key : Keys, minimumValidity : Nat, at : Stages,
                flight : Flights, stored : Nat, asked : Nat, response : ResponseType]

TypeOK ==
    /\ now \in Nat \ {0}
    /\ req \in [Requests -> RequestType]
    /\ tokens \in Seq(TokenType)
    /\ current_token_ \in ResponseType
    /\ token_refresh_time_ \in Int

CacheType(cache) == \A k \in DOMAIN cache.value : cache.value[k] \in ResponseType

Typed == TypeOK /\ CacheType(client_token_cache_) /\ CacheType(user_token_cache_)

-----------------------------------------------------------------------------
(***************************************************************************)
(* The inductive invariant.                                                *)
(***************************************************************************)
\* Which requests can be where.
Staged(r) ==
    /\ At(r, "idle") <=> Is(r, {"none"})
    /\ req[r].at \in {"check", "lock", "return", "wait"} => Is(r, Refreshing)
    /\ At(r, "wait") => Is(r, Blocking)
    /\ req[r].flight = "storing" => Is(r, {"GetTokenAsync"})

\* An AutoRefreshingToken is asked with its own credentials, and keeps no
\* token before it is asked.
OneClient ==
    /\ \A r, s \in Requests : Is(r, Refreshing) /\ Is(s, Refreshing) => req[r].key = req[s].key
    /\ (\A r \in Requests : ~Is(r, Refreshing)) => current_token_.token = 0

\* v has no token, or one of issued that is key's and was got in one of ops.
UserOperations == {"SignInUser"}
ClientOperations == Operations \ UserOperations
OperationsOf(r) == IF Is(r, UserOperations) THEN UserOperations ELSE ClientOperations
Own(issued, v, key, ops) ==
    v.token # 0 => /\ v.token \in 1 .. Len(issued)
                   /\ issued[v.token].key = key
                   /\ issued[v.token].op \in ops
OwnCache(issued, cache, ops) == \A k \in DOMAIN cache.value : Own(issued, cache.value[k], k, ops)
TokensAreOwn ==
    /\ OwnCache(tokens, client_token_cache_, ClientOperations)
    /\ OwnCache(tokens, user_token_cache_, UserOperations)
    /\ \A r \in Requests :
          /\ Own(tokens, req[r].response, req[r].key, OperationsOf(r))
          /\ Is(r, Refreshing) => Own(tokens, current_token_, req[r].key, ClientOperations)

\* v is whole: it has the expiry time of its token, and none without a token.
Whole(issued, v) ==
    IF v.token = 0 THEN v.expiry = 0
                   ELSE /\ IsSuccessful(v) /\ v.token \in 1 .. Len(issued)
                        /\ v.expiry = issued[v.token].expiry
WholeCache(issued, cache) == \A k \in DOMAIN cache.value : Whole(issued, cache.value[k])

\* The request that is about to keep its response has a whole one.
ResponsesAreWhole ==
    /\ WholeCache(tokens, client_token_cache_)
    /\ \A r \in Requests :
          /\ Is(r, Blocking) /\ req[r].flight = "answered" /\ req[r].at \in {"sending", "wait"} =>
                Whole(tokens, req[r].response)

\* When all of them block, it also holds token_mutex_, and what it has stored
\* stays.
Locking == {"send", "sending", "wait"}
MutexIsHeld ==
    OnlyBlocking => \A r \in Requests :
                       /\ token_mutex_ = r <=> req[r].at \in Locking
                       /\ req[r].stored # 0 => At(r, "wait") /\ req[r].flight = "answered"
                       /\ req[r].stored = 2 => current_token_ = req[r].response

\* What is kept, while nobody is replacing it, is fresh.
TokenIsKept ==
    OnlyBlocking /\ (\A r \in Requests : req[r].stored = 0) /\ ~shouldRefreshNow =>
        /\ current_token_.token # 0 /\ Whole(tokens, current_token_)
        /\ token_refresh_time_ <= current_token_.expiry

Inv ==
    /\ Typed /\ ProxyIsUsed /\ OneClient /\ TokensAreOwn
    /\ ResponsesAreWhole /\ MutexIsHeld /\ TokenIsKept
    /\ \A r \in Requests : Staged(r)

-----------------------------------------------------------------------------
\* The responses that are made here, and a request at first.
LEMMA MadeResponses ==
    /\ NoResponse \in ResponseType
    /\ \A status \in Statuses : AuthenticationError(status) \in ResponseType
    /\ \A status \in Statuses, a \in Answers : Result(status, a) \in ResponseType
    /\ Idle \in RequestType
  <1>1. \A a : BaseResultCode(a) \in Nat
    BY DEF BaseResultCode
  <1>2. \A status \in Statuses : AuthenticationError(status) \in ResponseType
    BY DEF AuthenticationError, Response, ResponseType
  <1>3. NoResponse \in ResponseType
    BY <1>2 DEF NoResponse, Statuses
  <1>4. \A status \in Statuses, a \in Answers : Result(status, a) \in ResponseType
    BY <1>1 DEF Result, Response, ResponseType
  <1>5. Idle \in RequestType
    BY <1>3 DEF Idle, RequestType, Keys, Stages, Flights
  <1> QED
    BY <1>2, <1>3, <1>4, <1>5

\* What SignIn returns of a cache of responses is a response, and the cache is
\* one of responses still.
LEMMA SignInType ==
    ASSUME TypeOK, ConstantsAreSound, NEW r \in Requests, NEW a \in Answers, NEW cache,
           CacheType(cache), NEW offline \in ResponseType
    PROVE  /\ SignIn(r, a, cache, offline).response \in ResponseType
           /\ CacheType(SignIn(r, a, cache, offline).cache)
  <1>1. SignInResultImpl(a) \in ResponseType
    <2>1. a.status \in Statuses /\ "unavailable" \in Statuses
      BY DEF Answers, Statuses
    <2>2. Response("result", "ok", 0, Len(tokens) + 1, now + Lifetime) \in ResponseType
      BY DEF TypeOK, ConstantsAreSound, Response, ResponseType, Statuses
    <2> QED
      BY <2>1, <2>2, MadeResponses DEF SignInResultImpl
  <1>2. AuthenticationError("cancelled") \in ResponseType
    BY MadeResponses DEF Statuses
  <1>3. \A k, v : v \in ResponseType => CacheType(InsertOrAssign(cache, k, v))
    BY DEF CacheType, InsertOrAssign
  <1>4. \A k : CacheType(Promoted(cache, k))
    BY DEF CacheType, Promoted
  <1>5. Cached(cache, req[r].key) => cache.value[req[r].key] \in ResponseType
    BY DEF Cached, CacheType
  <1> QED
    BY <1>1, <1>2, <1>3, <1>4, <1>5 DEF SignIn

\* A step of one request leaves the others what they are.
LEMMA BecomeType ==
    ASSUME req \in [Requests -> RequestType], NEW r \in Requests, NEW q \in RequestType, Turns(r, q)
    PROVE  /\ req' \in [Requests -> RequestType]
           /\ req'[r] = q
           /\ \A s \in Requests : s # r => req'[s] = req[s]
  BY DEF Turns

\* A response that is delivered leaves the requests what they are.
LEMMA DeliverType ==
    ASSUME TypeOK, NEW r \in Requests, NEW v \in ResponseType, Deliver(r, v)
    PROVE  req' \in [Requests -> RequestType]
  <1> DEFINE flight == IF Is(r, {"GetTokenAsync"}) THEN "storing" ELSE "answered"
             q == [req[r] EXCEPT !.response = v, !.flight = flight]
  <1>1. req[r] \in RequestType /\ flight \in Flights
    BY DEF TypeOK, Flights
  <1> HIDE DEF flight
  <1>2. q \in RequestType
    BY <1>1, Zenon DEF RequestType
  <1>3. Turns(r, q)
    BY DEF Deliver, flight
  <1> HIDE DEF q
  <1> QED
    BY <1>2, <1>3, BecomeType DEF TypeOK

\* The variables keep their types.
LEMMA TypeNext ==
    ASSUME ConstantsAreSound, Typed, [AuthNext]_authVars
    PROVE  Typed'
  <1> USE DEF Typed, TypeOK
  <1>1. CASE Tick
    BY <1>1 DEF Tick, cacheVars, networkVars, autoVars, CacheType
  <1>2. ASSUME NEW r \in Requests, NEW c \in Calls[r], Call(r, c)
        PROVE  Typed'
    <2>1. c \in CallType
      BY DEF ConstantsAreSound
    <2> QED
      BY <1>2, <2>1, MadeResponses, Zenon DEF Call, Turns, Idle, RequestType, CallType, Stages,
                                       cacheVars, networkVars, autoVars, CacheType
  <1>3. ASSUME NEW r \in Requests, AuthStep(r)
        PROVE  Typed'
    <2> USE DEF cacheVars, networkVars, autoVars, CacheType
    <2>0. req[r] \in RequestType
      OBVIOUS
    <2>1. CASE Send(r)
      <3>1. [req[r] EXCEPT !.at = "sending", !.flight = "sent"] \in RequestType
        BY <2>0, Zenon DEF RequestType, Stages, Flights
      <3> QED
        BY <2>1, <3>1, BecomeType DEF Send
    <2>2. CASE SendReturns(r)
      <3>1. \A at \in Stages : [req[r] EXCEPT !.at = at] \in RequestType
        BY <2>0, Zenon DEF RequestType
      <3>2. (IF Is(r, Blocking) THEN "wait" ELSE "out") \in Stages
        BY DEF Stages
      <3> QED
        BY <2>2, <3>1, <3>2, BecomeType DEF SendReturns
    <2>3. CASE getToken(r)
      <3>1. \A at \in Stages : [req[r] EXCEPT !.at = at] \in RequestType
        BY <2>0, Zenon DEF RequestType
      <3>2. (IF forceRefresh(r) \/ shouldRefreshNow THEN "lock" ELSE "return") \in Stages
        BY DEF Stages
      <3> QED
        BY <2>3, <3>1, <3>2, BecomeType DEF getToken
    <2>4. CASE tryRefreshCurrentToken(r)
      <3>1. /\ GetsCurrent(r) \in RequestType
            /\ [req[r] EXCEPT !.at = "send"] \in RequestType
            /\ [req[r] EXCEPT !.at = "return"] \in RequestType
        BY <2>0, Zenon DEF RequestType, GetsCurrent, Stages, Flights
      <3> QED
        BY <2>4, <3>1, BecomeType DEF tryRefreshCurrentToken
    <2>5. CASE StoreToken(r)
      <3>1. [req[r] EXCEPT !.stored = @ + 1] \in RequestType
        <4>1. req[r].stored + 1 \in Nat
          BY <2>0 DEF RequestType
        <4>2. \A n \in Nat : [req[r] EXCEPT !.stored = n] \in RequestType
          BY <2>0, Zenon DEF RequestType
        <4> QED
          BY <4>1, <4>2
      <3>2. req[r].response \in ResponseType
        BY <2>0 DEF RequestType
      <3>3. [current_token_ EXCEPT !.token = req[r].response.token] \in ResponseType
        BY <3>2, ZenonT(30) DEF ResponseType
      <3> QED
        BY <2>5, <3>1, <3>2, <3>3, BecomeType DEF StoreToken
    <2>6. CASE StoreRefreshTime(r)
      <3>1. /\ [req[r] EXCEPT !.at = "return", !.stored = 0] \in RequestType
            /\ [req[r] EXCEPT !.flight = "answered", !.stored = 0] \in RequestType
        BY <2>0, Zenon DEF RequestType, Stages, Flights
      <3>2. current_token_.expiry \in Int /\ req[r].minimumValidity \in Nat
        BY <2>0 DEF ResponseType, RequestType
      <3>3. computeTokenRefreshTime(current_token_.expiry, req[r].minimumValidity) \in Int
        BY <3>2 DEF computeTokenRefreshTime
      <3> QED
        BY <2>6, <3>1, <3>3, BecomeType DEF StoreRefreshTime
    <2>7. CASE Return(r)
      <3>1. /\ GetsCurrent(r) \in RequestType
            /\ [req[r] EXCEPT !.at = "check", !.asked = 1, !.flight = "none",
                              !.response = current_token_] \in RequestType
        BY <2>0, Zenon DEF RequestType, GetsCurrent, Stages, Flights
      <3> QED
        BY <2>7, <3>1, BecomeType DEF Return
    <2> QED  BY <1>3, <2>1, <2>2, <2>3, <2>4, <2>5, <2>6, <2>7 DEF AuthStep
  <1>4. ASSUME NEW r \in Requests, CancelRequest(r)
        PROVE  Typed'
    BY <1>4, ZenonT(30) DEF CancelRequest, Turns, RequestType, Flights, cacheVars, networkVars,
                            autoVars, CacheType
  <1>5. ASSUME NEW r \in Requests, NEW a \in Answers, ServiceAnswers(r, a)
        PROVE  Typed'
    <2>1. /\ now' = now /\ current_token_' = current_token_
          /\ token_refresh_time_' = token_refresh_time_
      BY <1>5 DEF ServiceAnswers, autoVars
    <2>2. AuthenticationError("offline") \in ResponseType /\ Result("offline", a) \in ResponseType
      BY MadeResponses DEF Statuses
    <2>3. ASSUME Is(r, Operations), Issue(r, a)
          PROVE  tokens' \in Seq(TokenType)
      <3>1. [key |-> req[r].key, op |-> req[r].op, expiry |-> now + Lifetime] \in TokenType
        BY <2>3 DEF TokenType, RequestType, ConstantsAreSound, Is
      <3> QED
        BY <2>3, <3>1 DEF Issue
    <2>4. CASE SignInClient(r, a)
      BY <2>1, <2>2, <2>3, <2>4, SignInType, DeliverType DEF SignInClient, Is, Operations
    <2>5. CASE HandleUserRequest(r, a)
      BY <2>1, <2>2, <2>3, <2>5, SignInType, DeliverType DEF HandleUserRequest, Is, Operations
    <2>6. CASE SignUpOrOut(r, a)
      <3>1. /\ AuthenticationError(a.status) \in ResponseType
            /\ Result(a.status, a) \in ResponseType
        BY MadeResponses DEF Statuses, Answers
      <3> QED
        BY <2>1, <2>6, <3>1, DeliverType DEF SignUpOrOut, cacheVars
    <2> QED  BY <1>5, <2>4, <2>5, <2>6 DEF ServiceAnswers
  <1>6. ASSUME NEW p \in Proxies, SetNetworkProxySettings(p)
        PROVE  Typed'
    BY <1>6 DEF SetNetworkProxySettings, cacheVars, autoVars, CacheType
  <1>7. CASE UNCHANGED authVars
    BY <1>7 DEF authVars, cacheVars, networkVars, autoVars, CacheType
  <1> QED
    BY <1>1, <1>2, <1>3, <1>4, <1>5, <1>6, <1>7 DEF AuthNext

\* The types hold at first.
LEMMA TypeInit ==
    ASSUME AuthInit
    PROVE  Typed
  BY MadeResponses DEF AuthInit, Typed, TypeOK, CacheType, EmptyCache

-----------------------------------------------------------------------------
(***************************************************************************)
(* What the actions do to a request.                                       *)
(***************************************************************************)
\* r moves on, and the others stay where they are.
Moves(r, at, flight, stored, response) ==
    /\ \A s \in Requests \ {r} : req'[s] = req[s]
    /\ req'[r].op = req[r].op /\ req'[r].key = req[r].key
    /\ req'[r].at = at /\ req'[r].flight = flight
    /\ req'[r].stored = stored /\ req'[r].response = response

\* The request that Call makes.
LEMMA CallMoves ==
    ASSUME TypeOK, NEW r \in Requests, NEW c \in Calls[r], Call(r, c)
    PROVE  /\ \A s \in Requests \ {r} : req'[s] = req[s]
           /\ req'[r].op = c.op /\ req'[r].key = c.key
           /\ req'[r].at = IF c.op \in Refreshing THEN "check" ELSE "send"
           /\ req'[r].flight = "none" /\ req'[r].stored = 0 /\ req'[r].response = NoResponse
  <1> DEFINE at == IF c.op \in Refreshing THEN "check" ELSE "send"
             q == [Idle EXCEPT !.op = c.op, !.key = c.key,
                               !.minimumValidity = c.minimumValidity, !.at = at]
  <1>1. /\ q.op = c.op /\ q.key = c.key /\ q.at = at /\ q.flight = "none" /\ q.stored = 0
        /\ q.response = NoResponse
    BY DEF Idle
  <1>2. req' = [req EXCEPT ![r] = q]
    BY DEF Call, Turns
  <1> HIDE DEF q
  <1> QED
    BY <1>1, <1>2 DEF TypeOK

\* The steps of the threads, and the delivery of a response.
LEMMA StepMoves ==
    ASSUME TypeOK, NEW r \in Requests
    PROVE  LET q == req[r] IN
           /\ Send(r) => Moves(r, "sending", "sent", q.stored, q.response)
           /\ SendReturns(r) => Moves(r, IF Is(r, Blocking) THEN "wait" ELSE "out", q.flight,
                                      q.stored, q.response)
           /\ CancelRequest(r) => Moves(r, q.at, "cancelled", q.stored, q.response)
           /\ getToken(r) => \E at \in {"lock", "return"} :
                                 Moves(r, at, q.flight, q.stored, q.response)
           /\ tryRefreshCurrentToken(r) =>
                  \/ token_mutex_' = r /\ Moves(r, "send", q.flight, q.stored, q.response)
                  \/ /\ UNCHANGED token_mutex_
                     /\ ~Is(r, {"GetTokenAsync"})
                     /\ Moves(r, "return", q.flight, q.stored, q.response)
                  \/ /\ UNCHANGED token_mutex_
                     /\ Is(r, {"GetTokenAsync"})
                     /\ Moves(r, "out", "answered", q.stored, current_token_)
           /\ StoreToken(r) => Moves(r, q.at, q.flight, q.stored + 1, q.response)
           /\ StoreRefreshTime(r) =>
                  IF Is(r, Blocking) THEN Moves(r, "return", q.flight, 0, q.response)
                                     ELSE Moves(r, q.at, "answered", 0, q.response)
           /\ Return(r) => \/ Moves(r, "check", "none", q.stored, current_token_)
                           \/ Moves(r, "out", "answered", q.stored, current_token_)
           /\ \A v \in ResponseType :
                  Deliver(r, v) => Moves(r, q.at,
                                         IF Is(r, {"GetTokenAsync"}) THEN "storing" ELSE "answered",
                                         q.stored, v)
  <1> USE DEF TypeOK, Turns, RequestType, Moves
  <1>0. Turns(r, GetsCurrent(r)) => Moves(r, "out", "answered", req[r].stored, current_token_)
    BY DEF GetsCurrent
  <1>r. ASSUME NEW at \in Stages, Turns(r, [req[r] EXCEPT !.at = at])
        PROVE  Moves(r, at, req[r].flight, req[r].stored, req[r].response)
    BY <1>r
  <1>c. Turns(r, [req[r] EXCEPT !.at = "check", !.asked = 1, !.flight = "none",
                                 !.response = current_token_]) =>
            Moves(r, "check", "none", req[r].stored, current_token_)
    OBVIOUS
  <1>1. Send(r) => Moves(r, "sending", "sent", req[r].stored, req[r].response)
    BY DEF Send
  <1>2. SendReturns(r) => Moves(r, IF Is(r, Blocking) THEN "wait" ELSE "out", req[r].flight,
                                req[r].stored, req[r].response)
    BY DEF SendReturns
  <1>3. CancelRequest(r) => Moves(r, req[r].at, "cancelled", req[r].stored, req[r].response)
    BY DEF CancelRequest
  <1>4. getToken(r) => \E at \in {"lock", "return"} :
                           Moves(r, at, req[r].flight, req[r].stored, req[r].response)
    BY DEF getToken
  <1>5. tryRefreshCurrentToken(r) =>
            \/ token_mutex_' = r /\ Moves(r, "send", req[r].flight, req[r].stored, req[r].response)
            \/ /\ UNCHANGED token_mutex_
               /\ ~Is(r, {"GetTokenAsync"})
               /\ Moves(r, "return", req[r].flight, req[r].stored, req[r].response)
            \/ /\ UNCHANGED token_mutex_
               /\ Is(r, {"GetTokenAsync"})
               /\ Moves(r, "out", "answered", req[r].stored, current_token_)
    <2> HIDE DEF TypeOK, Turns, RequestType, Moves
    <2> QED
      BY <1>0, <1>r DEF tryRefreshCurrentToken, Stages
  <1>6. StoreToken(r) => Moves(r, req[r].at, req[r].flight, req[r].stored + 1, req[r].response)
    BY DEF StoreToken
  <1>7. StoreRefreshTime(r) =>
            IF Is(r, Blocking) THEN Moves(r, "return", req[r].flight, 0, req[r].response)
                               ELSE Moves(r, req[r].at, "answered", 0, req[r].response)
    BY ZenonT(30) DEF StoreRefreshTime
  <1>8. Return(r) => \/ Moves(r, "check", "none", req[r].stored, current_token_)
                     \/ Moves(r, "out", "answered", req[r].stored, current_token_)
    <2> HIDE DEF TypeOK, Turns, RequestType, Moves
    <2> QED
      BY <1>0, <1>c DEF Return
  <1>9. \A v \in ResponseType :
            Deliver(r, v) => Moves(r, req[r].at,
                                   IF Is(r, {"GetTokenAsync"}) THEN "storing" ELSE "answered",
                                   req[r].stored, v)
    BY DEF Deliver
  <1> QED
    BY <1>1, <1>2, <1>3, <1>4, <1>5, <1>6, <1>7, <1>8, <1>9, Zenon

\* The response to a request, as its callback makes it of the answer a.
ResponseTo(r, a) ==
    IF Is(r, {"SignUpHereUser", "SignOut"})
    THEN IF a.status \in {"cancelled", "offline"} THEN AuthenticationError(a.status)
                                                  ELSE Result(a.status, a)
    ELSE IF Is(r, UserOperations) THEN SignIn(r, a, user_token_cache_, Result("offline", a)).response
    ELSE SignIn(r, a, client_token_cache_, AuthenticationError("offline")).response

\* The answer of the network delivers the response.
LEMMA AnswerMoves ==
    ASSUME Typed, ConstantsAreSound, NEW r \in Requests, NEW a \in Answers, ServiceAnswers(r, a)
    PROVE  /\ ResponseTo(r, a) \in ResponseType
           /\ Moves(r, req[r].at, IF Is(r, {"GetTokenAsync"}) THEN "storing" ELSE "answered",
                    req[r].stored, ResponseTo(r, a))
  <1>1. AuthenticationError("offline") \in ResponseType /\ Result("offline", a) \in ResponseType
    BY MadeResponses DEF Statuses
  <1>2. AuthenticationError(a.status) \in ResponseType /\ Result(a.status, a) \in ResponseType
    BY MadeResponses DEF Statuses, Answers
  <1>3. ResponseTo(r, a) \in ResponseType
    BY <1>1, <1>2, SignInType DEF ResponseTo, Typed
  <1>4. Deliver(r, ResponseTo(r, a))
    BY DEF ServiceAnswers, SignInClient, HandleUserRequest, SignUpOrOut, ResponseTo, Is,
           UserOperations, Refreshing, Blocking
  <1> QED
    BY <1>3, <1>4, StepMoves, Zenon DEF Typed

-----------------------------------------------------------------------------
(***************************************************************************)
(* A request goes through the proxy that was accepted last.                *)
(***************************************************************************)

\* Only Send makes a network come to life.
LEMMA AliveBefore ==
    ASSUME NEW r \in Requests, NEW at, NEW flight, NEW stored, NEW response,
           Moves(r, at, flight, stored, response), NetworkAlive',
           at = "sending" \/ flight \in {"sent", "cancelled", "storing"} => Holds(r)
    PROVE  NetworkAlive
  BY DEF Moves, NetworkAlive, Holds, At

\* The network that is alive is the one of the proxy accepted last.
LEMMA ProxyNext ==
    ASSUME Typed, ConstantsAreSound, ProxyIsUsed, [AuthNext]_authVars
    PROVE  ProxyIsUsed'
  <1> USE DEF ProxyIsUsed
  <1> SUFFICES ASSUME NetworkAlive'
               PROVE  network' = network_config_'
    OBVIOUS
  <1>1. TypeOK
    BY DEF Typed
  <1>2. ASSUME networkVars' = networkVars, NetworkAlive
        PROVE  network' = network_config_'
    BY <1>2 DEF networkVars
  <1>3. ASSUME req' = req
        PROVE  NetworkAlive
    BY <1>3 DEF NetworkAlive, Holds, At
  <1>4. CASE Tick \/ UNCHANGED authVars
    BY <1>2, <1>3, <1>4 DEF Tick, authVars
  <1>5. ASSUME NEW p \in Proxies, SetNetworkProxySettings(p)
        PROVE  network' = network_config_'
    BY <1>3, <1>5 DEF SetNetworkProxySettings
  <1>6. ASSUME NEW r \in Requests, NEW c \in Calls[r], Call(r, c)
        PROVE  network' = network_config_'
    <2>1. NetworkAlive
      BY <1>1, <1>6, CallMoves DEF NetworkAlive, Holds, At
    <2> QED
      BY <1>2, <1>6, <2>1 DEF Call
  <1>7. ASSUME NEW r \in Requests, AuthStep(r) \/ CancelRequest(r)
        PROVE  network' = network_config_'
    <2> USE <1>1, StepMoves, AliveBefore DEF Holds, At
    <2>1. CASE Send(r)  BY <2>1, Zenon DEF Send
    <2>2. CASE SendReturns(r)  BY <1>2, <2>2 DEF SendReturns
    <2>3. CASE getToken(r)  BY <1>2, <2>3 DEF getToken
    <2>4. CASE tryRefreshCurrentToken(r)  BY <1>2, <2>4 DEF tryRefreshCurrentToken
    <2>5. CASE StoreToken(r)  BY <1>2, <2>5 DEF StoreToken
    <2>6. CASE StoreRefreshTime(r)  BY <1>2, <2>6, Zenon DEF StoreRefreshTime
    <2>7. CASE Return(r)  BY <1>2, <2>7, Zenon DEF Return
    <2>8. CASE CancelRequest(r)  BY <1>2, <2>8 DEF CancelRequest
    <2> QED  BY <1>7, <2>1, <2>2, <2>3, <2>4, <2>5, <2>6, <2>7, <2>8, Zenon DEF AuthStep
  <1>8. ASSUME NEW r \in Requests, NEW a \in Answers, ServiceAnswers(r, a)
        PROVE  network' = network_config_'
    <2>1. NetworkAlive
      BY <1>8 DEF ServiceAnswers, NetworkAlive, Holds
    <2> QED
      BY <1>2, <1>8, <2>1 DEF ServiceAnswers
  <1> QED
    BY <1>4, <1>5, <1>6, <1>7, <1>8 DEF AuthNext

-----------------------------------------------------------------------------
(***************************************************************************)
(* A sign-in gets a token of its own.                                      *)
(***************************************************************************)
\* A request is where its operation allows it to be.
LEMMA StagedNext ==
    ASSUME Typed, ConstantsAreSound, \A r \in Requests : Staged(r), [AuthNext]_authVars
    PROVE  (\A r \in Requests : Staged(r))'
  <1> USE DEF Staged, At, Is
  <1>1. TypeOK
    BY DEF Typed
  <1>2. CASE req' = req
    BY <1>2
  <1>3. ASSUME NEW r \in Requests, NEW c \in Calls[r], Call(r, c)
        PROVE  (\A s \in Requests : Staged(s))'
    <2>1. c.op \in Operations
      BY DEF ConstantsAreSound, CallType
    <2> QED
      BY <1>1, <1>3, <2>1, CallMoves DEF Operations, Refreshing, Blocking
  <1>4. ASSUME NEW r \in Requests, AuthStep(r) \/ CancelRequest(r)
        PROVE  (\A s \in Requests : Staged(s))'
    <2>0. ASSUME NEW at, NEW flight, NEW stored, NEW response,
                 Moves(r, at, flight, stored, response), at # "idle", ~Is(r, {"none"}),
                 at \in {"check", "lock", "return", "wait"} => Is(r, Refreshing),
                 at = "wait" => Is(r, Blocking),
                 flight = "storing" => Is(r, {"GetTokenAsync"})
          PROVE  (\A s \in Requests : Staged(s))'
      BY <2>0 DEF Moves
    <2> USE <1>1, <2>0, StepMoves
    <2>1. CASE Send(r)  BY <2>1, Zenon DEF Send
    <2>2. CASE SendReturns(r)  BY <2>2 DEF SendReturns, Blocking, Refreshing
    <2>3. CASE getToken(r)  BY <2>3 DEF getToken
    <2>4. CASE tryRefreshCurrentToken(r)  BY <2>4 DEF tryRefreshCurrentToken
    <2>5. CASE StoreToken(r)  BY <2>5 DEF StoreToken, Stores
    <2>6. CASE StoreRefreshTime(r)  BY <2>6, ZenonT(30) DEF StoreRefreshTime, Stores, Refreshing
    <2>7. CASE Return(r)  BY <2>7, Zenon DEF Return
    <2>8. CASE CancelRequest(r)  BY <2>8 DEF CancelRequest
    <2> QED  BY <1>4, <2>1, <2>2, <2>3, <2>4, <2>5, <2>6, <2>7, <2>8, Zenon DEF AuthStep
  <1>5. ASSUME NEW r \in Requests, NEW a \in Answers, ServiceAnswers(r, a)
        PROVE  (\A s \in Requests : Staged(s))'
    BY <1>5, AnswerMoves DEF Moves
  <1> QED
    BY <1>2, <1>3, <1>4, <1>5, Zenon DEF AuthNext, Tick, SetNetworkProxySettings, authVars

\* The operation and the credentials of a request that has been made stay.
LEMMA Kept ==
    ASSUME Typed, ConstantsAreSound, \A r \in Requests : Staged(r), [AuthNext]_authVars,
           NEW r \in Requests, ~At(r, "idle")
    PROVE  req'[r].op = req[r].op /\ req'[r].key = req[r].key /\ ~At(r, "idle")'
  <1>1. TypeOK
    BY DEF Typed
  <1>2. req'[r].op = req[r].op /\ req'[r].key = req[r].key
    <2>1. ASSUME NEW s \in Requests, NEW c \in Calls[s], Call(s, c)
          PROVE  req'[r].op = req[r].op /\ req'[r].key = req[r].key
      BY <1>1, <2>1, CallMoves, Zenon DEF Call
    <2>2. ASSUME NEW s \in Requests, AuthStep(s) \/ CancelRequest(s)
          PROVE  req'[r].op = req[r].op /\ req'[r].key = req[r].key
      BY <1>1, <2>2, StepMoves, Zenon DEF AuthStep, Moves
    <2>3. ASSUME NEW s \in Requests, NEW a \in Answers, ServiceAnswers(s, a)
          PROVE  req'[r].op = req[r].op /\ req'[r].key = req[r].key
      BY <2>3, AnswerMoves DEF Moves
    <2> QED
      BY <2>1, <2>2, <2>3 DEF AuthNext, Tick, SetNetworkProxySettings, authVars
  <1>3. ~At(r, "idle")'
    BY <1>2, StagedNext DEF Staged, Is, At
  <1> QED
    BY <1>2, <1>3

\* A token that is issued leaves the others what they are.
LEMMA Issued ==
    ASSUME Typed, ConstantsAreSound, NEW r \in Requests, NEW a \in Answers, Is(r, Operations),
           Issue(r, a)
    PROVE  /\ \A i \in 1 .. Len(tokens) : i \in 1 .. Len(tokens') /\ tokens'[i] = tokens[i]
           /\ Caches(a) => /\ Len(tokens) + 1 \in 1 .. Len(tokens')
                           /\ tokens'[Len(tokens) + 1] =
                                  [key |-> req[r].key, op |-> req[r].op, expiry |-> now + Lifetime]
  <1> DEFINE e == [key |-> req[r].key, op |-> req[r].op, expiry |-> now + Lifetime]
  <1>1. e \in TokenType /\ tokens \in Seq(TokenType)
    BY DEF Typed, TypeOK, TokenType, RequestType, ConstantsAreSound, Is
  <1>2. tokens' = IF Caches(a) THEN Append(tokens, e) ELSE tokens
    BY DEF Issue
  <1> HIDE DEF e
  <1>3. CASE Caches(a)
    <2>1. tokens' = Append(tokens, e)
      BY <1>2, <1>3
    <2>2. Len(tokens') = Len(tokens) + 1 /\ Len(tokens) \in Nat
      BY <1>1, <2>1
    <2>3. \A i \in 1 .. Len(tokens) : tokens'[i] = tokens[i]
      BY <1>1, <2>1
    <2>4. tokens'[Len(tokens) + 1] = e
      BY <1>1, <2>1
    <2> QED
      BY <2>2, <2>3, <2>4 DEF e
  <1>4. CASE ~Caches(a)
    BY <1>2, <1>4
  <1> QED
    BY <1>3, <1>4, Zenon

\* What SignIn returns, and what it leaves in its cache, is the request's own.
LEMMA SignInOwn ==
    ASSUME Typed, ConstantsAreSound, NEW r \in Requests, NEW a \in Answers, NEW cache, NEW ops,
           NEW offline, offline.token = 0, OwnCache(tokens, cache, ops),
           Is(r, ops), Is(r, Operations), Issue(r, a)
    PROVE  /\ Own(tokens', SignIn(r, a, cache, offline).response, req[r].key, ops)
           /\ OwnCache(tokens', SignIn(r, a, cache, offline).cache, ops)
  <1>1. \A v, k : Own(tokens, v, k, ops) => Own(tokens', v, k, ops)
    BY Issued, Zenon DEF Own
  <1>2. OwnCache(tokens', cache, ops)
    BY <1>1 DEF OwnCache
  <1>3. a.status \notin {"cancelled", "offline"} =>
            Own(tokens', SignInResultImpl(a), req[r].key, ops)
    <2>1. CASE Caches(a)
      <3>1. SignInResultImpl(a) = Response("result", "ok", 0, Len(tokens) + 1, now + Lifetime)
        BY <2>1 DEF Caches, SignInResultImpl
      <3>2. SignInResultImpl(a).token = Len(tokens) + 1
        BY <3>1 DEF Response
      <3>3. req[r].op \in ops
        BY DEF Is
      <3> QED
        <4>1. /\ Len(tokens) + 1 \in 1 .. Len(tokens')
              /\ tokens'[Len(tokens) + 1] =
                     [key |-> req[r].key, op |-> req[r].op, expiry |-> now + Lifetime]
          BY <2>1, Issued
        <4>2. /\ tokens'[Len(tokens) + 1].key = req[r].key
              /\ tokens'[Len(tokens) + 1].op = req[r].op
          BY <4>1
        <4> QED
          BY <3>2, <3>3, <4>1, <4>2 DEF Own
    <2>2. CASE ~Caches(a)
      <3>1. SignInResultImpl(a).token = 0
        BY <2>2 DEF Caches, SignInResultImpl, Response, Result
      <3> QED
        BY <3>1 DEF Own
    <2> QED
      BY <2>1, <2>2
  <1>4. AuthenticationError("cancelled").token = 0
    BY DEF AuthenticationError, Response
  <1>5. \A v : Own(tokens', v, req[r].key, ops) =>
                   OwnCache(tokens', InsertOrAssign(cache, req[r].key, v), ops)
    BY <1>2 DEF OwnCache, InsertOrAssign
  <1>6. OwnCache(tokens', Promoted(cache, req[r].key), ops)
    BY <1>2 DEF OwnCache, Promoted
  <1>7. CASE a.status = "cancelled"
    BY <1>2, <1>4, <1>7 DEF SignIn, Own
  <1>8. CASE a.status = "offline" /\ ~Cached(cache, req[r].key)
    BY <1>2, <1>8 DEF SignIn, Own
  <1>9. CASE a.status = "offline" /\ Cached(cache, req[r].key)
    BY <1>2, <1>6, <1>9 DEF SignIn, OwnCache, Cached
  <1>10. CASE a.status \notin {"cancelled", "offline"}
    BY <1>2, <1>3, <1>5, <1>10 DEF SignIn
  <1> QED
    BY <1>7, <1>8, <1>9, <1>10

\* The AutoRefreshingToken is asked with its own credentials.
LEMMA OneClientNext ==
    ASSUME Typed, ConstantsAreSound, OneClient, \A r \in Requests : Staged(r), [AuthNext]_authVars
    PROVE  OneClient'
  <1>1. TypeOK
    BY DEF Typed
  <1>2. ASSUME NEW r \in Requests, NEW c \in Calls[r], Call(r, c)
        PROVE  OneClient'
    <2>1. current_token_' = current_token_
      BY <1>2 DEF Call, autoVars
    <2>2. At(r, "idle") /\ \A s \in Requests : At(s, "idle") \/ SameClient(s, c)
      BY <1>2 DEF Call
    <2>3. \A s \in Requests : Is(s, Refreshing) => ~At(s, "idle")
      BY DEF Staged, Is, Refreshing, Blocking
    <2>4. \A s \in Requests : Is(s, Refreshing)' =>
              IF s = r THEN c.op \in Refreshing ELSE Is(s, Refreshing)
      BY <1>1, <1>2, CallMoves DEF Is
    <2>5. ASSUME NEW s \in Requests, s # r, Is(s, Refreshing), c.op \in Refreshing
          PROVE  req'[s].key = c.key /\ req'[r].key = c.key
      BY <1>1, <1>2, <2>2, <2>3, <2>5, CallMoves DEF SameClient
    <2>6. (\A s \in Requests : ~Is(s, Refreshing)') => \A s \in Requests : ~Is(s, Refreshing)
      BY <1>1, <1>2, <2>2, <2>3, CallMoves DEF Is
    <2>7. \A s \in Requests : s # r => req'[s] = req[s]
      BY <1>1, <1>2, CallMoves
    <2> QED
      BY <2>1, <2>4, <2>5, <2>6, <2>7 DEF OneClient
  <1>3. ASSUME \A r \in Requests : req'[r].op = req[r].op /\ req'[r].key = req[r].key,
               current_token_' = current_token_ \/ \E r \in Requests : Is(r, Refreshing)
        PROVE  OneClient'
    BY <1>3 DEF OneClient, Is
  <1>4. ASSUME NEW r \in Requests, AuthStep(r) \/ CancelRequest(r)
        PROVE  OneClient'
    <2>1. \A s \in Requests : req'[s].op = req[s].op /\ req'[s].key = req[s].key
      BY <1>1, <1>4, StepMoves, Zenon DEF AuthStep, Moves
    <2>2. StoreToken(r) => Is(r, Refreshing)
      BY DEF StoreToken, Stores, Staged, Is, At, Refreshing
    <2>3. ~StoreToken(r) => current_token_' = current_token_
      BY <1>4 DEF AuthStep, Send, SendReturns, getToken, tryRefreshCurrentToken,
                  StoreRefreshTime, Return, CancelRequest, autoVars
    <2> QED
      BY <1>3, <2>1, <2>2, <2>3
  <1>5. ASSUME NEW r \in Requests, NEW a \in Answers, ServiceAnswers(r, a)
        PROVE  OneClient'
    <2>1. \A s \in Requests : req'[s].op = req[s].op /\ req'[s].key = req[s].key
      BY <1>5, AnswerMoves DEF Moves
    <2> QED
      BY <1>3, <1>5, <2>1, Zenon DEF ServiceAnswers, autoVars
  <1> QED
    BY <1>2, <1>3, <1>4, <1>5 DEF AuthNext, Tick, SetNetworkProxySettings, authVars, autoVars

\* Responses, the caches and the token that is kept hold tokens that are own.
LEMMA OwnNext ==
    ASSUME Typed, ConstantsAreSound, OneClient, TokensAreOwn, \A r \in Requests : Staged(r),
           [AuthNext]_authVars
    PROVE  TokensAreOwn'
  <1>1. TypeOK
    BY DEF Typed
  <1>2. CASE UNCHANGED <<req, cacheVars, current_token_>>
    BY <1>2, SMTT(30) DEF TokensAreOwn, cacheVars, OperationsOf, Is
  <1>3. ASSUME NEW r \in Requests, NEW c \in Calls[r], Call(r, c)
        PROVE  TokensAreOwn'
    <2>1. cacheVars' = cacheVars /\ current_token_' = current_token_
      BY <1>3 DEF Call, autoVars
    <2>2. Own(tokens, NoResponse, c.key, ClientOperations)
          /\ Own(tokens, NoResponse, c.key, UserOperations)
      BY Zenon DEF Own, NoResponse, AuthenticationError, Response
    <2>3. c.op \in Refreshing => Own(tokens, current_token_, c.key, ClientOperations)
      <3>1. CASE \A s \in Requests : ~Is(s, Refreshing)
        BY <3>1 DEF OneClient, Own
      <3>2. ASSUME NEW s \in Requests, Is(s, Refreshing), c.op \in Refreshing
            PROVE  Own(tokens, current_token_, c.key, ClientOperations)
        <4>1. ~At(s, "idle")
          BY <3>2 DEF Staged, Is, Refreshing, Blocking
        <4>2. req[s].key = c.key
          BY <1>3, <3>2, <4>1 DEF Call, SameClient
        <4> QED
          BY <3>2, <4>2 DEF TokensAreOwn
      <3> QED
        BY <3>1, <3>2
    <2> QED
      BY <1>1, <1>3, <2>1, <2>2, <2>3, CallMoves, SMTT(30)
      DEF TokensAreOwn, OperationsOf, Is, cacheVars
  <1>4. ASSUME NEW r \in Requests, NEW at, NEW flight, NEW stored, NEW response,
               Moves(r, at, flight, stored, response),
               Own(tokens, response, req[r].key, OperationsOf(r)),
               cacheVars' = cacheVars, current_token_' = current_token_
        PROVE  TokensAreOwn'
    BY <1>4 DEF TokensAreOwn, Moves, OperationsOf, Is, cacheVars
  <1>5. ASSUME NEW r \in Requests, AuthStep(r) \/ CancelRequest(r)
        PROVE  TokensAreOwn'
    <2>1. CASE Send(r) \/ SendReturns(r) \/ getToken(r) \/ StoreRefreshTime(r) \/ CancelRequest(r)
      <3>1. PICK at, flight, stored : Moves(r, at, flight, stored, req[r].response)
        BY <1>1, <2>1, StepMoves, Zenon
      <3>2. cacheVars' = cacheVars /\ current_token_' = current_token_
        BY <2>1 DEF Send, SendReturns, getToken, StoreRefreshTime, CancelRequest, autoVars
      <3>3. Own(tokens, req[r].response, req[r].key, OperationsOf(r))
        BY DEF TokensAreOwn
      <3> QED
        BY <1>4, <3>1, <3>2, <3>3
    <2>2. CASE tryRefreshCurrentToken(r) \/ Return(r)
      <3>1. \E at, flight, stored : \/ Moves(r, at, flight, stored, req[r].response)
                                    \/ Moves(r, at, flight, stored, current_token_)
        BY <1>1, <2>2, StepMoves, Zenon
      <3>2. /\ cacheVars' = cacheVars /\ current_token_' = current_token_
            /\ Is(r, Refreshing)
        BY <2>2 DEF tryRefreshCurrentToken, Return, Staged, At, autoVars
      <3>3. OperationsOf(r) = ClientOperations
        BY <3>2 DEF OperationsOf, Is, Refreshing, Blocking, UserOperations
      <3>4. /\ Own(tokens, req[r].response, req[r].key, OperationsOf(r))
            /\ Own(tokens, current_token_, req[r].key, OperationsOf(r))
        BY <3>2, <3>3 DEF TokensAreOwn
      <3> QED
        BY <1>4, <3>1, <3>2, <3>4
    <2>3. CASE StoreToken(r)
      <3>1. Is(r, Refreshing) /\ Own(tokens, req[r].response, req[r].key, ClientOperations)
        BY <2>3 DEF StoreToken, Stores, Staged, Is, At, Refreshing, Blocking, TokensAreOwn,
                    OperationsOf, UserOperations
      <3>2. current_token_'.token = req[r].response.token
        BY <1>1, <2>3 DEF StoreToken, TypeOK, ResponseType
      <3>3. \A s \in Requests : Is(s, Refreshing) =>
                Own(tokens, current_token_', req[s].key, ClientOperations)
        BY <3>1, <3>2 DEF OneClient, Own
      <3>4. Moves(r, req[r].at, req[r].flight, req[r].stored + 1, req[r].response)
        BY <1>1, <2>3, StepMoves, Zenon
      <3>5. /\ tokens' = tokens /\ client_token_cache_' = client_token_cache_
            /\ user_token_cache_' = user_token_cache_
        BY <2>3 DEF StoreToken, cacheVars
      <3>6. \A s \in Requests : /\ req'[s].response = req[s].response /\ req'[s].key = req[s].key
                                /\ req'[s].op = req[s].op
        BY <3>4 DEF Moves
      <3> QED
        BY <3>3, <3>5, <3>6 DEF TokensAreOwn, OperationsOf, Is
    <2> QED
      BY <1>5, <2>1, <2>2, <2>3 DEF AuthStep
  <1>6. ASSUME NEW r \in Requests, NEW a \in Answers, ServiceAnswers(r, a)
        PROVE  TokensAreOwn'
    <2>1. Moves(r, req[r].at, IF Is(r, {"GetTokenAsync"}) THEN "storing" ELSE "answered",
                req[r].stored, ResponseTo(r, a))
      BY <1>6, AnswerMoves
    <2>2. ASSUME \A v, k, ops : Own(tokens, v, k, ops) => Own(tokens', v, k, ops),
                 OwnCache(tokens', client_token_cache_', ClientOperations),
                 OwnCache(tokens', user_token_cache_', UserOperations),
                 Own(tokens', ResponseTo(r, a), req[r].key, OperationsOf(r))
          PROVE  TokensAreOwn'
      <3>1. current_token_' = current_token_
        BY <1>6 DEF ServiceAnswers, autoVars
      <3>2. \A s \in Requests :
               /\ req'[s].key = req[s].key /\ req'[s].op = req[s].op
               /\ req'[s].response = IF s = r THEN ResponseTo(r, a) ELSE req[s].response
        BY <2>1 DEF Moves
      <3> QED
        BY <2>2, <3>1, <3>2 DEF TokensAreOwn, OperationsOf, Is
    <2>3. ASSUME Is(r, Operations), Issue(r, a)
          PROVE  \A v, k, ops : Own(tokens, v, k, ops) => Own(tokens', v, k, ops)
      BY <2>3, Issued, Zenon DEF Own
    <2>4. AuthenticationError("offline").token = 0 /\ Result("offline", a).token = 0
      BY DEF AuthenticationError, Result, Response
    <2>5. CASE SignInClient(r, a)
      <3>1. /\ Is(r, ClientOperations) /\ Is(r, Operations) /\ Issue(r, a)
            /\ ~Is(r, UserOperations) /\ ~Is(r, {"SignUpHereUser", "SignOut"})
        BY <2>5 DEF SignInClient, Is, ClientOperations, Operations, UserOperations, Refreshing,
                    Blocking
      <3>2. /\ Own(tokens', ResponseTo(r, a), req[r].key, ClientOperations)
            /\ OwnCache(tokens', client_token_cache_', ClientOperations)
        BY <2>4, <2>5, <3>1, SignInOwn, Zenon DEF SignInClient, ResponseTo, TokensAreOwn
      <3>3. OwnCache(tokens', user_token_cache_', UserOperations)
        BY <2>3, <2>5, <3>1, Zenon DEF SignInClient, TokensAreOwn, OwnCache
      <3> QED
        BY <2>2, <2>3, <3>1, <3>2, <3>3 DEF OperationsOf
    <2>6. CASE HandleUserRequest(r, a)
      <3>1. /\ Is(r, UserOperations) /\ Is(r, Operations) /\ Issue(r, a)
            /\ ~Is(r, {"SignUpHereUser", "SignOut"})
        BY <2>6 DEF HandleUserRequest, Is, Operations, UserOperations
      <3>2. /\ Own(tokens', ResponseTo(r, a), req[r].key, UserOperations)
            /\ OwnCache(tokens', user_token_cache_', UserOperations)
        BY <2>4, <2>6, <3>1, SignInOwn, Zenon DEF HandleUserRequest, ResponseTo, TokensAreOwn
      <3>3. OwnCache(tokens', client_token_cache_', ClientOperations)
        BY <2>3, <2>6, <3>1, Zenon DEF HandleUserRequest, TokensAreOwn, OwnCache
      <3> QED
        BY <2>2, <2>3, <3>1, <3>2, <3>3 DEF OperationsOf
    <2>7. CASE SignUpOrOut(r, a)
      <3>1. ResponseTo(r, a).token = 0
        BY <2>7, Zenon DEF SignUpOrOut, ResponseTo, AuthenticationError, Result, Response
      <3> QED
        BY <2>2, <2>7, <3>1, Zenon DEF SignUpOrOut, cacheVars, TokensAreOwn, Own
    <2> QED
      BY <1>6, <2>5, <2>6, <2>7 DEF ServiceAnswers
  <1> QED
    BY <1>2, <1>3, <1>5, <1>6 DEF AuthNext, Tick, SetNetworkProxySettings, authVars, autoVars

-----------------------------------------------------------------------------
(***************************************************************************)
(* A token that is kept is fresh.                                          *)
(***************************************************************************)
\* What SignIn returns, and what it leaves in its cache, is whole.
LEMMA SignInWhole ==
    ASSUME Typed, ConstantsAreSound, NEW r \in Requests, NEW a \in Answers, NEW cache,
           NEW offline, offline.token = 0, offline.expiry = 0, WholeCache(tokens, cache),
           Is(r, Operations), Issue(r, a)
    PROVE  /\ Whole(tokens', SignIn(r, a, cache, offline).response)
           /\ WholeCache(tokens', SignIn(r, a, cache, offline).cache)
  <1>1. \A v : Whole(tokens, v) => Whole(tokens', v)
    BY Issued, Zenon DEF Whole
  <1>2. WholeCache(tokens', cache)
    BY <1>1 DEF WholeCache
  <1>3. a.status \notin {"cancelled", "offline"} => Whole(tokens', SignInResultImpl(a))
    <2>1. CASE Caches(a)
      <3>1. SignInResultImpl(a) = Response("result", "ok", 0, Len(tokens) + 1, now + Lifetime)
        BY <2>1 DEF Caches, SignInResultImpl
      <3>2. /\ SignInResultImpl(a).token = Len(tokens) + 1
            /\ SignInResultImpl(a).expiry = now + Lifetime
            /\ IsSuccessful(SignInResultImpl(a))
        BY <3>1 DEF Response, IsSuccessful
      <3>3. /\ Len(tokens) + 1 \in 1 .. Len(tokens')
            /\ tokens'[Len(tokens) + 1] =
                   [key |-> req[r].key, op |-> req[r].op, expiry |-> now + Lifetime]
        BY <2>1, Issued
      <3>4. tokens'[Len(tokens) + 1].expiry = now + Lifetime
        BY <3>3
      <3> QED
        BY <3>2, <3>3, <3>4 DEF Whole
    <2>2. CASE ~Caches(a)
      <3>1. SignInResultImpl(a).token = 0 /\ SignInResultImpl(a).expiry = 0
        BY <2>2 DEF Caches, SignInResultImpl, Response, Result
      <3> QED
        BY <3>1 DEF Whole
    <2> QED
      BY <2>1, <2>2
  <1>4. AuthenticationError("cancelled").token = 0 /\ AuthenticationError("cancelled").expiry = 0
    BY DEF AuthenticationError, Response
  <1>5. \A k, v : Whole(tokens', v) => WholeCache(tokens', InsertOrAssign(cache, k, v))
    BY <1>2 DEF WholeCache, InsertOrAssign
  <1>6. \A k : WholeCache(tokens', Promoted(cache, k))
    BY <1>2 DEF WholeCache, Promoted
  <1>7. CASE a.status = "cancelled"
    BY <1>2, <1>4, <1>7 DEF SignIn, Whole
  <1>8. CASE a.status = "offline" /\ ~Cached(cache, req[r].key)
    BY <1>2, <1>8 DEF SignIn, Whole
  <1>9. CASE a.status = "offline" /\ Cached(cache, req[r].key)
    BY <1>2, <1>6, <1>9 DEF SignIn, WholeCache, Cached
  <1>10. CASE a.status \notin {"cancelled", "offline"}
    BY <1>2, <1>3, <1>5, <1>10 DEF SignIn
  <1> QED
    BY <1>7, <1>8, <1>9, <1>10

\* The responses that will be kept are whole.
LEMMA WholeNext ==
    ASSUME Typed, ConstantsAreSound, ResponsesAreWhole, \A r \in Requests : Staged(r), [AuthNext]_authVars
    PROVE  ResponsesAreWhole'
  <1> USE DEF ResponsesAreWhole, Is
  <1>1. TypeOK
    BY DEF Typed
  <1>2. CASE UNCHANGED <<req, cacheVars>>
    BY <1>2 DEF cacheVars
  <1>3. ASSUME NEW r \in Requests, NEW c \in Calls[r], Call(r, c)
        PROVE  ResponsesAreWhole'
    BY <1>1, <1>3, CallMoves, Zenon DEF Call, cacheVars
  <1>4. ASSUME NEW r \in Requests, NEW at, NEW flight, NEW stored, NEW response,
               Moves(r, at, flight, stored, response), cacheVars' = cacheVars,
               Is(r, Blocking) /\ flight = "answered" /\ at \in {"sending", "wait"} =>
                  /\ req[r].flight = "answered" /\ req[r].at \in {"sending", "wait"}
                  /\ response = req[r].response
        PROVE  ResponsesAreWhole'
    BY <1>4 DEF Moves, cacheVars
  <1>5. ASSUME NEW r \in Requests, AuthStep(r) \/ CancelRequest(r)
        PROVE  ResponsesAreWhole'
    <2>1. CASE Send(r)
      <3>1. Moves(r, "sending", "sent", req[r].stored, req[r].response)
        BY <1>1, <2>1, StepMoves, Zenon
      <3> QED
        BY <1>4, <2>1, <3>1 DEF Send
    <2>2. CASE SendReturns(r)  BY <1>1, <1>4, <2>2, StepMoves DEF SendReturns, At
    <2>3. CASE getToken(r)  BY <1>1, <1>4, <2>3, StepMoves DEF getToken
    <2>4. CASE tryRefreshCurrentToken(r)
      <3>1. cacheVars' = cacheVars
        BY <2>4 DEF tryRefreshCurrentToken
      <3>2. PICK at \in {"send", "return", "out"} :
                \E flight, response : Moves(r, at, flight, req[r].stored, response)
        BY <1>1, <2>4, StepMoves, Zenon
      <3> QED
        BY <1>4, <3>1, <3>2
    <2>5. CASE StoreToken(r)  BY <1>1, <1>4, <2>5, StepMoves DEF StoreToken
    <2>6. CASE StoreRefreshTime(r)
      <3>1. cacheVars' = cacheVars
        BY <2>6 DEF StoreRefreshTime
      <3>2. CASE Is(r, Blocking)
        <4>1. Moves(r, "return", req[r].flight, 0, req[r].response)
          BY <1>1, <2>6, <3>2, StepMoves, Zenon
        <4> QED
          BY <1>4, <3>1, <4>1
      <3>3. CASE ~Is(r, Blocking)
        <4>1. Moves(r, req[r].at, "answered", 0, req[r].response)
          BY <1>1, <2>6, <3>3, StepMoves, Zenon
        <4> QED
          BY <1>4, <3>1, <3>3, <4>1, Zenon
      <3> QED
        BY <3>2, <3>3
    <2>7. CASE Return(r)
      <3>1. cacheVars' = cacheVars
        BY <2>7 DEF Return
      <3>2. PICK at \in {"check", "out"}, flight \in {"none", "answered"} :
                Moves(r, at, flight, req[r].stored, current_token_)
        BY <1>1, <2>7, StepMoves, Zenon
      <3> QED
        BY <1>4, <3>1, <3>2, Zenon
    <2>8. CASE CancelRequest(r)
      <3>1. Moves(r, req[r].at, "cancelled", req[r].stored, req[r].response)
        BY <1>1, <2>8, StepMoves, Zenon
      <3>2. cacheVars' = cacheVars
        BY <2>8 DEF CancelRequest
      <3> QED
        BY <1>4, <3>1, <3>2
    <2> QED  BY <1>5, <2>1, <2>2, <2>3, <2>4, <2>5, <2>6, <2>7, <2>8, Zenon DEF AuthStep
  <1>6. ASSUME NEW r \in Requests, NEW a \in Answers, ServiceAnswers(r, a)
        PROVE  ResponsesAreWhole'
    <2>1. \A s \in Requests :
             /\ req'[s].op = req[s].op
             /\ s # r => req'[s] = req[s]
             /\ req'[r].response = ResponseTo(r, a)
      BY <1>6, AnswerMoves DEF Moves
    <2>2. ASSUME \A v : Whole(tokens, v) => Whole(tokens', v),
                 WholeCache(tokens', client_token_cache_'),
                 Is(r, Blocking) => Whole(tokens', ResponseTo(r, a))
          PROVE  ResponsesAreWhole'
      BY <2>1, <2>2
    <2>3. ASSUME Is(r, Operations), Issue(r, a)
          PROVE  \A v : Whole(tokens, v) => Whole(tokens', v)
      BY <2>3, Issued, Zenon DEF Whole
    <2>4. CASE SignInClient(r, a)
      <3>1. /\ Is(r, Operations) /\ Issue(r, a)
            /\ ~Is(r, UserOperations) /\ ~Is(r, {"SignUpHereUser", "SignOut"})
        BY <2>4 DEF SignInClient, Operations, UserOperations, Refreshing, Blocking
      <3>2. /\ AuthenticationError("offline").token = 0
            /\ AuthenticationError("offline").expiry = 0
        BY DEF AuthenticationError, Response
      <3>3. /\ Whole(tokens', ResponseTo(r, a))
            /\ WholeCache(tokens', client_token_cache_')
        BY <2>4, <3>1, <3>2, SignInWhole, Zenon DEF SignInClient, ResponseTo
      <3> QED
        BY <2>2, <2>3, <3>1, <3>3
    <2>5. CASE HandleUserRequest(r, a)
      <3>1. Is(r, Operations) /\ Issue(r, a) /\ ~Is(r, Blocking)
        BY <2>5, Zenon DEF HandleUserRequest, Operations, Blocking
      <3>2. WholeCache(tokens', client_token_cache_')
        BY <2>3, <2>5, <3>1, Zenon DEF HandleUserRequest, WholeCache
      <3> QED
        BY <2>2, <2>3, <3>1, <3>2, Zenon
    <2>6. CASE SignUpOrOut(r, a)
      <3>1. ~Is(r, Blocking)
        BY <2>6 DEF SignUpOrOut, Blocking
      <3> QED
        BY <2>2, <2>6, <3>1, ZenonT(30) DEF SignUpOrOut, cacheVars
    <2> QED
      BY <1>6, <2>4, <2>5, <2>6, ZenonT(30) DEF ServiceAnswers
  <1> QED
    BY <1>2, <1>3, <1>5, <1>6, Zenon DEF AuthNext, Tick, SetNetworkProxySettings, authVars

\* Who blocks now has blocked before.
LEMMA BlockingBefore ==
    ASSUME Typed, ConstantsAreSound, \A r \in Requests : Staged(r), [AuthNext]_authVars, OnlyBlocking'
    PROVE  OnlyBlocking
  BY Kept DEF OnlyBlocking, Is

\* A blocking request holds the mutex from the time it sends until it has kept
\* its response.
LEMMA MutexNext ==
    ASSUME Typed, ConstantsAreSound, MutexIsHeld, \A r \in Requests : Staged(r), [AuthNext]_authVars
    PROVE  MutexIsHeld'
  <1> SUFFICES ASSUME OnlyBlocking'
               PROVE  MutexIsHeld'
    BY DEF MutexIsHeld
  <1> USE DEF At
  <1>1. TypeOK
    BY DEF Typed
  <1>2. OnlyBlocking
    BY BlockingBefore
  <1>3. \A r \in Requests :
           /\ token_mutex_ = r <=> req[r].at \in Locking
           /\ req[r].stored # 0 => req[r].at = "wait" /\ req[r].flight = "answered"
           /\ req[r].stored = 2 => current_token_ = req[r].response
    BY <1>2 DEF MutexIsHeld
  <1>4. \A r \in Requests : /\ req[r].at = "idle" \/ Is(r, Blocking)
                            /\ req[r].flight # "storing"
    BY <1>2 DEF OnlyBlocking, Staged, Is, Blocking
  <1>5. CASE UNCHANGED <<req, current_token_, token_mutex_>>
    BY <1>3, <1>5 DEF MutexIsHeld
  <1>6. ASSUME NEW r \in Requests, NEW c \in Calls[r], Call(r, c)
        PROVE  MutexIsHeld'
    <2>1. /\ req[r].at = "idle" /\ token_mutex_' = token_mutex_
          /\ current_token_' = current_token_
      BY <1>6 DEF Call, autoVars
    <2>2. /\ \A s \in Requests \ {r} : req'[s] = req[s]
          /\ req'[r].at \in {"check", "send"} /\ req'[r].stored = 0
          /\ req'[r].at = "send" => req'[r].op \notin Refreshing
      BY <1>1, <1>6, CallMoves
    <2>3. req'[r].at = "check"
      <3>1. req'[r].at # "idle"
        BY <2>2
      <3>2. req'[r].op \in Blocking
        BY <3>1 DEF OnlyBlocking, Is
      <3> QED
        BY <2>2, <3>2 DEF Refreshing
    <2> QED
      BY <1>3, <2>1, <2>2, <2>3 DEF MutexIsHeld, Locking
  <1>7. ASSUME NEW r \in Requests, NEW at, NEW flight, NEW stored, NEW response,
               Moves(r, at, flight, stored, response),
               token_mutex_' = token_mutex_, current_token_' = current_token_,
               at \in Locking <=> req[r].at \in Locking,
               stored = 0 \/ stored = req[r].stored,
               stored # 0 => /\ at = "wait" /\ flight = "answered"
                             /\ response = req[r].response
        PROVE  MutexIsHeld'
    BY <1>3, <1>7 DEF MutexIsHeld, Moves
  <1>8. ASSUME NEW r \in Requests, AuthStep(r) \/ CancelRequest(r)
        PROVE  MutexIsHeld'
    <2>1. CASE Send(r)
      <3>1. Moves(r, "sending", "sent", req[r].stored, req[r].response)
        BY <1>1, <2>1, StepMoves, Zenon
      <3>2. /\ req[r].at = "send" /\ token_mutex_' = token_mutex_
            /\ current_token_' = current_token_
        BY <2>1 DEF Send, autoVars
      <3> QED
        BY <1>3, <1>7, <3>1, <3>2 DEF Locking
    <2>2. CASE SendReturns(r)
      <3>1. /\ req[r].at = "sending" /\ current_token_' = current_token_
            /\ token_mutex_' = token_mutex_ /\ Is(r, Blocking)
        BY <1>4, <2>2 DEF SendReturns, Is, Blocking
      <3>2. Moves(r, "wait", req[r].flight, req[r].stored, req[r].response)
        BY <1>1, <2>2, <3>1, StepMoves, Zenon
      <3> QED
        BY <1>3, <1>7, <3>1, <3>2, Zenon DEF Locking
    <2>3. CASE getToken(r)
      <3>1. PICK at \in {"lock", "return"} :
                Moves(r, at, req[r].flight, req[r].stored, req[r].response)
        BY <1>1, <2>3, StepMoves, Zenon
      <3>2. /\ req[r].at = "check" /\ token_mutex_' = token_mutex_
            /\ current_token_' = current_token_
        BY <2>3 DEF getToken, autoVars
      <3> QED
        BY <1>3, <1>7, <3>1, <3>2 DEF Locking
    <2>4. CASE tryRefreshCurrentToken(r)
      <3>1. /\ req[r].at = "lock" /\ token_mutex_ = NoRequest
            /\ current_token_' = current_token_ /\ req[r].stored = 0
        BY <1>3, <2>4 DEF tryRefreshCurrentToken
      <3>2. CASE token_mutex_' = token_mutex_
        <4>1. PICK at \in {"return", "out"} :
                  \E flight, response : Moves(r, at, flight, req[r].stored, response)
          <5>1. token_mutex_' # r
            BY <3>1, <3>2 DEF ConstantsAreSound
          <5> QED
            BY <1>1, <2>4, <5>1, StepMoves, Zenon
        <4> QED
          BY <1>7, <3>1, <3>2, <4>1, Zenon DEF Locking
      <3>3. CASE token_mutex_' = r /\ token_mutex_' # token_mutex_
        <4>1. Moves(r, "send", req[r].flight, req[r].stored, req[r].response)
          BY <1>1, <2>4, <3>3, StepMoves, Zenon
        <4>2. \A s \in Requests : req[s].at \notin Locking /\ req[s].stored = 0
          BY <1>3, <3>1 DEF ConstantsAreSound, Locking
        <4>3. \A s \in Requests : req'[s].stored = 0
          BY <4>1, <4>2 DEF Moves
        <4>4. \A s \in Requests : token_mutex_' = s <=> req'[s].at \in Locking
          BY <3>3, <4>1, <4>2 DEF Moves, Locking
        <4> QED
          BY <4>3, <4>4 DEF MutexIsHeld
      <3> QED
        BY <2>4, <3>2, <3>3 DEF tryRefreshCurrentToken
    <2>5. CASE StoreToken(r)
      <3>1. /\ req[r].at = "wait" /\ req[r].flight = "answered" /\ req[r].stored \in {0, 1}
            /\ req[r].stored = 1 => current_token_' = req[r].response
            /\ token_mutex_' = token_mutex_
        BY <1>4, <2>5 DEF StoreToken, Stores
      <3>2. Moves(r, "wait", "answered", req[r].stored + 1, req[r].response)
        BY <1>1, <2>5, <3>1, StepMoves, Zenon
      <3>3. \A s \in Requests : s # r => req[s].at \notin Locking /\ req[s].stored = 0
        BY <1>3, <3>1 DEF Locking
      <3> QED
        BY <1>3, <3>1, <3>2, <3>3 DEF MutexIsHeld, Moves, Locking
    <2>6. CASE StoreRefreshTime(r)
      <3>1. /\ req[r].at = "wait" /\ Is(r, Blocking)
            /\ token_mutex_' = NoRequest /\ current_token_' = current_token_
        BY <1>4, <2>6 DEF StoreRefreshTime, Stores
      <3>2. Moves(r, "return", req[r].flight, 0, req[r].response)
        BY <1>1, <2>6, <3>1, StepMoves, Zenon
      <3>3. \A s \in Requests : s # r => req[s].at \notin Locking
        BY <1>3, <3>1 DEF Locking
      <3>4. NoRequest \notin Requests
        BY DEF ConstantsAreSound
      <3> QED
        BY <1>3, <3>1, <3>2, <3>3, <3>4 DEF MutexIsHeld, Moves, Locking
    <2>7. CASE Return(r)
      <3>1. /\ req[r].at = "return" /\ token_mutex_' = token_mutex_
            /\ current_token_' = current_token_
        BY <2>7 DEF Return, autoVars
      <3>2. PICK at \in {"check", "out"}, flight \in {"none", "answered"} :
                Moves(r, at, flight, req[r].stored, current_token_)
        BY <1>1, <2>7, StepMoves, Zenon
      <3> QED
        BY <1>3, <1>7, <3>1, <3>2 DEF Locking
    <2>8. CASE CancelRequest(r)
      <3>1. /\ req[r].flight = "sent" /\ token_mutex_' = token_mutex_
            /\ current_token_' = current_token_
        BY <2>8 DEF CancelRequest, autoVars
      <3>2. Moves(r, req[r].at, "cancelled", req[r].stored, req[r].response)
        BY <1>1, <2>8, StepMoves, Zenon
      <3> QED
        BY <1>3, <1>7, <3>1, <3>2
    <2> QED  BY <1>8, <2>1, <2>2, <2>3, <2>4, <2>5, <2>6, <2>7, <2>8 DEF AuthStep
  <1>9. ASSUME NEW r \in Requests, NEW a \in Answers, ServiceAnswers(r, a)
        PROVE  MutexIsHeld'
    <2>1. /\ req[r].flight \in {"sent", "cancelled"} /\ token_mutex_' = token_mutex_
          /\ current_token_' = current_token_
      BY <1>9, Zenon DEF ServiceAnswers, autoVars
    <2>2. PICK flight : Moves(r, req[r].at, flight, req[r].stored, ResponseTo(r, a))
      BY <1>9, AnswerMoves
    <2> QED
      BY <1>3, <1>7, <2>1, <2>2
  <1> QED
    BY <1>5, <1>6, <1>8, <1>9 DEF AuthNext, Tick, SetNetworkProxySettings, authVars, autoVars

\* The token that is kept, once it is stored, is fresh until its refresh time.
LEMMA TokenNext ==
    ASSUME Typed, ConstantsAreSound, ResponsesAreWhole, MutexIsHeld, TokenIsKept,
           \A r \in Requests : Staged(r), [AuthNext]_authVars
    PROVE  TokenIsKept'
  <1> SUFFICES ASSUME OnlyBlocking', (\A r \in Requests : req[r].stored = 0)',
                      ~shouldRefreshNow'
               PROVE  TokenIsKept'
    BY DEF TokenIsKept
  <1> USE DEF At
  <1>1. TypeOK
    BY DEF Typed
  <1>2. OnlyBlocking
    BY BlockingBefore
  <1>3. \A r \in Requests :
           /\ req[r].stored # 0 => req[r].at = "wait" /\ req[r].flight = "answered"
           /\ req[r].stored = 2 => current_token_ = req[r].response
    BY <1>2 DEF MutexIsHeld
  <1>4. \A r \in Requests : /\ req[r].at = "idle" \/ Is(r, Blocking)
                            /\ req[r].flight # "storing"
    BY <1>2 DEF OnlyBlocking, Staged, Is, Blocking
  <1>5. ASSUME \A r \in Requests : req[r].stored = 0, ~shouldRefreshNow,
               current_token_' = current_token_, token_refresh_time_' = token_refresh_time_,
               \A v : Whole(tokens, v) => Whole(tokens', v)
        PROVE  TokenIsKept'
    BY <1>2, <1>5 DEF TokenIsKept
  <1>6. ASSUME now' = now, token_refresh_time_' = token_refresh_time_
        PROVE  ~shouldRefreshNow
    BY <1>6 DEF shouldRefreshNow
  <1>7. CASE Tick
    <2>1. ~shouldRefreshNow
      BY <1>1, <1>7 DEF Tick, shouldRefreshNow, autoVars, TypeOK
    <2> QED
      BY <1>5, <1>7, <2>1, Zenon DEF Tick, autoVars, cacheVars
  <1>8. CASE UNCHANGED <<now, req, cacheVars, autoVars>>
    BY <1>5, <1>6, <1>8 DEF autoVars, cacheVars
  <1>9. ASSUME NEW r \in Requests, NEW c \in Calls[r], Call(r, c)
        PROVE  TokenIsKept'
    <2>1. \A s \in Requests : req[s].stored = 0
      <3>1. req[r].at = "idle"
        BY <1>9 DEF Call
      <3>2. req[r].stored = 0
        BY <1>3, <3>1
      <3>3. \A s \in Requests \ {r} : req'[s] = req[s]
        BY <1>1, <1>9, CallMoves, Zenon
      <3> QED
        BY <3>2, <3>3
    <2> QED
      BY <1>5, <1>6, <1>9, <2>1 DEF Call, autoVars, cacheVars
  <1>10. ASSUME NEW r \in Requests, AuthStep(r) \/ CancelRequest(r)
         PROVE  TokenIsKept'
    <2>1. CASE StoreToken(r)
      <3>1. req'[r].stored = req[r].stored + 1 /\ req[r].stored \in Nat
        BY <1>1, <2>1, StepMoves, Zenon DEF Moves, TypeOK, RequestType
      <3> QED
        BY <3>1
    <2>2. CASE StoreRefreshTime(r)
      <3>1. /\ req[r].at = "wait" /\ req[r].flight = "answered" /\ Is(r, Blocking)
            /\ current_token_ = req[r].response
        BY <1>3, <1>4, <2>2 DEF StoreRefreshTime, Stores
      <3>2. Whole(tokens, current_token_)
        BY <3>1, Zenon DEF ResponsesAreWhole
      <3>3. /\ current_token_' = current_token_ /\ now' = now /\ tokens' = tokens
            /\ token_refresh_time_' =
                   computeTokenRefreshTime(current_token_.expiry, req[r].minimumValidity)
        BY <2>2 DEF StoreRefreshTime, cacheVars
      <3>4. /\ current_token_.expiry \in Int /\ now \in Nat \ {0}
            /\ req[r].minimumValidity \in Nat
        BY <1>1, Zenon DEF TypeOK, ResponseType, RequestType
      <3>5. current_token_.expiry > now
        BY <3>3, <3>4 DEF computeTokenRefreshTime, shouldRefreshNow
      <3>6. token_refresh_time_' <= current_token_.expiry
        <4>1. token_refresh_time_' = current_token_.expiry - req[r].minimumValidity
          BY <3>3, <3>4, <3>5 DEF computeTokenRefreshTime
        <4> QED
          BY <3>4, <4>1
      <3>7. current_token_.token # 0
        BY <3>2, <3>4, <3>5 DEF Whole
      <3> QED
        BY <3>2, <3>3, <3>6, <3>7 DEF TokenIsKept
    <2>3. CASE ~StoreToken(r) /\ ~StoreRefreshTime(r)
      <3>1. /\ now' = now /\ current_token_' = current_token_ /\ tokens' = tokens
            /\ token_refresh_time_' = token_refresh_time_
        BY <1>10, <2>3 DEF AuthStep, Send, SendReturns, getToken, tryRefreshCurrentToken,
                           Return, CancelRequest, autoVars, cacheVars
      <3>2. \A s \in Requests : req'[s].stored = req[s].stored
        BY <1>1, <1>10, <2>3, StepMoves, ZenonT(30) DEF AuthStep, Moves
      <3> QED
        BY <1>5, <1>6, <3>1, <3>2
    <2> QED
      BY <2>1, <2>2, <2>3
  <1>11. ASSUME NEW r \in Requests, NEW a \in Answers, ServiceAnswers(r, a)
         PROVE  TokenIsKept'
    <2>1. /\ now' = now /\ current_token_' = current_token_
          /\ token_refresh_time_' = token_refresh_time_
      BY <1>11, Zenon DEF ServiceAnswers, autoVars
    <2>2. \A s \in Requests : req'[s].stored = req[s].stored
      BY <1>11, AnswerMoves, Zenon DEF Moves
    <2>3. ASSUME Is(r, Operations), Issue(r, a)
          PROVE  \A v : Whole(tokens, v) => Whole(tokens', v)
      BY <2>3, Issued, Zenon DEF Whole
    <2>4. \A v : Whole(tokens, v) => Whole(tokens', v)
      <3>1. CASE SignInClient(r, a)
        BY <2>3, <3>1, Zenon DEF SignInClient, Is, Operations
      <3>2. CASE HandleUserRequest(r, a)
        BY <2>3, <3>2 DEF HandleUserRequest, Is, Operations
      <3>3. CASE SignUpOrOut(r, a)
        BY <3>3 DEF SignUpOrOut, cacheVars
      <3> QED
        BY <1>11, <3>1, <3>2, <3>3 DEF ServiceAnswers
    <2> QED
      BY <1>5, <1>6, <2>1, <2>2, <2>4, Zenon
  <1> QED
    BY <1>7, <1>8, <1>9, <1>10, <1>11, Zenon DEF AuthNext, SetNetworkProxySettings, authVars

-----------------------------------------------------------------------------
(***************************************************************************)
(* The theorems.                                                           *)
(***************************************************************************)
\* Nobody has asked for anything at first.
LEMMA InvInit ==
    ASSUME AuthInit, ConstantsAreSound
    PROVE  Inv
  <1>1. Typed
    BY TypeInit
  <1>2. /\ \A r \in Requests : req[r] = Idle
        /\ tokens = <<>> /\ current_token_ = NoResponse /\ token_mutex_ = NoRequest
        /\ client_token_cache_ = EmptyCache /\ user_token_cache_ = EmptyCache
        /\ now = 1 /\ token_refresh_time_ = 0 /\ network = NoProxy /\ network_config_ = NoProxy
    BY DEF AuthInit
  <1>3. /\ Idle.op = "none" /\ Idle.at = "idle" /\ Idle.flight = "none" /\ Idle.stored = 0
        /\ Idle.response = NoResponse /\ NoResponse.token = 0
        /\ DOMAIN EmptyCache.value = {}
    BY DEF Idle, NoResponse, AuthenticationError, Response, EmptyCache
  <1>4. ProxyIsUsed
    BY <1>2 DEF ProxyIsUsed
  <1>5. OneClient
    BY <1>2, <1>3, ZenonT(30) DEF OneClient, Is, Refreshing, Blocking
  <1>6. TokensAreOwn
    BY <1>2, <1>3 DEF TokensAreOwn, OwnCache, Own, Is, Refreshing, Blocking
  <1>7. ResponsesAreWhole
    BY <1>2, <1>3 DEF ResponsesAreWhole, WholeCache
  <1>8. MutexIsHeld
    BY <1>2, <1>3, Zenon DEF MutexIsHeld, Locking, ConstantsAreSound
  <1>9. TokenIsKept
    BY <1>2 DEF TokenIsKept, shouldRefreshNow
  <1>10. \A r \in Requests : Staged(r)
    BY <1>2, <1>3, Zenon DEF Staged, At, Is
  <1> QED
    BY <1>1, <1>4, <1>5, <1>6, <1>7, <1>8, <1>9, <1>10 DEF Inv

\* Every step of the threads, of the network and of the clock keeps Inv.
LEMMA InvNext ==
    ASSUME Inv, ConstantsAreSound, [AuthNext]_authVars
    PROVE  Inv'
  BY TypeNext, ProxyNext, OneClientNext, OwnNext, WholeNext, MutexNext, TokenNext, StagedNext
     DEF Inv

\* Inv holds in every reachable state.
THEOREM Invariance == AuthSpec => []Inv
  <1>1. AuthInit => Inv
    BY InvInit, AuthenticationConstants
  <1>2. Inv /\ [AuthNext]_authVars => Inv'
    BY InvNext, AuthenticationConstants
  <1> QED
    BY <1>1, <1>2, PTL DEF AuthSpec

(***************************************************************************)
(* A request goes through the proxy that SetNetworkProxySettings accepted  *)
(* last, however many requests share the network and whenever it dies.     *)
(***************************************************************************)
THEOREM RequestsUseTheProxy == AuthSpec => []ProxyIsUsed
  <1>1. Inv => ProxyIsUsed
    BY DEF Inv
  <1> QED
    BY <1>1, Invariance, PTL

(***************************************************************************)
(* A sign-in is answered with a token of its own credentials and kind, for *)
(* every size of the caches and any number of requests in flight.          *)
(***************************************************************************)
THEOREM AnswersAreOwn == AuthSpec => []TokenIsOwn
  <1>1. ASSUME Inv
        PROVE  TokenIsOwn
    <2>1. ASSUME NEW r \in Requests, req[r].response.token # 0
          PROVE  /\ tokens[req[r].response.token].key = req[r].key
                 /\ tokens[req[r].response.token].op = "SignInUser" <=> Is(r, {"SignInUser"})
      BY <1>1, <2>1 DEF Inv, TokensAreOwn, Own, OperationsOf, UserOperations, ClientOperations
    <2> QED
      BY <2>1, ZenonT(30) DEF TokenIsOwn
  <1> QED
    BY <1>1, Invariance, PTL

(***************************************************************************)
(* A token that GetToken returns without a request is fresh, as long as    *)
(* all the calls are synchronous.                                          *)
(***************************************************************************)
THEOREM KeptTokensAreFresh == AuthSpec => []KeptTokenIsFresh
  <1>1. ASSUME Inv
        PROVE  KeptTokenIsFresh
    <2> SUFFICES ASSUME OnlyBlocking, token_mutex_ = NoRequest, ~shouldRefreshNow
                 PROVE  /\ IsSuccessful(current_token_) /\ current_token_.token # 0
                        /\ current_token_.expiry = tokens[current_token_.token].expiry
                        /\ token_refresh_time_ <= current_token_.expiry
      BY DEF KeptTokenIsFresh
    <2>1. \A r \in Requests : req[r].stored = 0
      BY <1>1, AuthenticationConstants, Zenon
      DEF Inv, MutexIsHeld, ConstantsAreSound, At, Locking
    <2> QED
      BY <1>1, <2>1 DEF Inv, TokenIsKept, Whole
  <1> QED
    BY <1>1, Invariance, PTL

=============================================================================
