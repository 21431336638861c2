--------------------------- MODULE Authentication ---------------------------
(***************************************************************************)
(* authentication::AuthenticationClient, and the AutoRefreshingToken and   *)
(* TokenProvider that a TokenEndpoint makes of it.                         *)
(*                                                                         *)
(* The requests of a client share one Network, which lives as long as one  *)
(* of them is being sent or has not been answered: the client itself only  *)
(* has a weak pointer to it.  A sign-in that the network cannot carry is   *)
(* answered from a cache of tokens.  An AutoRefreshingToken keeps one      *)
(* token, reads it without a lock, and replaces it under token_mutex_ when *)
(* GetToken is synchronous, and on the thread of the network without a     *)
(* lock when it is not.                                                    *)
(*                                                                         *)
(* A client is used either by the application or by a TokenEndpoint, so a  *)
(* behaviour has requests of one kind only.  Network and the service are   *)
(* external.  The application's callbacks return, and a CancellationToken  *)
(* is not used after its request has been answered.                        *)
(***************************************************************************)
EXTENDS Integers, Sequences

CONSTANTS
    Requests,
    Calls,      \* the calls each may be: records with op, key, minimumValidity
    Proxies,    \* the valid ones that SetNetworkProxySettings may be given
    NoProxy,    \* the proxy of a client that was given none
    NoRequest,  \* nobody holds token_mutex_
    token_cache_limit,
    Lifetime,   \* expires_in, in the answers of the service
    MaxTime     \* bounds the clock

VARIABLES
    now,
    req,                  \* each request, and the thread that makes it
    network_config_,      \* the proxy that the next Network will have
    network,              \* the proxy of the Network that was made last
    client_token_cache_,  \* its keys, the one used last first, and their results
    user_token_cache_,
    current_token_,
    token_refresh_time_,
    token_mutex_,
    tokens                \* the tokens issued by the service

autoVars == <<current_token_, token_refresh_time_, token_mutex_>>
cacheVars == <<client_token_cache_, user_token_cache_, tokens>>
networkVars == <<network_config_, network>>
authVars == <<now, req, networkVars, cacheVars, autoVars>>

\* The calls that an AutoRefreshingToken serves, and those of the client.
Blocking == {"GetToken", "TokenProvider"}
Refreshing == Blocking \cup {"GetTokenAsync"}

Operations == Refreshing \cup {"SignInClient", "SignInUser", "SignUpHereUser", "SignOut"}

\* What the constants are: a call is one of these operations, and asks for a
\* validity that is not negative.
Keys == {"none"} \cup UNION {{c.key : c \in Calls[r]} : r \in Requests}
CallType == [op : Operations, key : Keys, minimumValidity : Nat]
ConstantsAreSound ==
    /\ \A r \in Requests : Calls[r] \subseteq CallType
    /\ NoRequest \notin Requests
    /\ Lifetime \in Nat

ASSUME AuthenticationConstants == ConstantsAreSound

\* A response is an error or a result, with the fields that the results have
\* in common.  The token is a position in tokens, 0 for the empty string.
Response(kind, status, code, token, expiry) ==
    [kind |-> kind, status |-> status, code |-> code, token |-> token, expiry |-> expiry]
IsSuccessful(response) == response.kind = "result"
AuthenticationError(status) == Response("error", status, 0, 0, 0)
NoResponse == AuthenticationError("none")

Idle == [op |-> "none", key |-> "none", minimumValidity |-> 0, at |-> "idle",
         flight |-> "none", stored |-> 0, asked |-> 0, response |-> NoResponse]

EmptyCache == [order |-> <<>>, value |-> <<>>]

AuthInit ==
    /\ now = 1
    /\ req = [r \in Requests |-> Idle]
    /\ network_config_ = NoProxy /\ network = NoProxy
    /\ client_token_cache_ = EmptyCache /\ user_token_cache_ = EmptyCache
    /\ tokens = <<>>
    /\ current_token_ = NoResponse
    /\ token_refresh_time_ = 0
    /\ token_mutex_ = NoRequest

Turns(r, q) == req' = [req EXCEPT ![r] = q]
At(r, stage) == req[r].at = stage
Is(r, ops) == req[r].op \in ops

\* Time matters only to an AutoRefreshingToken.
Tick ==
    /\ now < MaxTime
    /\ \E r \in Requests : Is(r, Refreshing)
    /\ now' = now + 1
    /\ UNCHANGED <<req, networkVars, cacheVars, autoVars>>

\* The application uses the client, or a TokenEndpoint with its credentials.
SameClient(s, c) ==
    /\ Is(s, Refreshing) <=> c.op \in Refreshing
    /\ c.op \in Refreshing => req[s].key = c.key

\* A request is made.  Those of an AutoRefreshingToken look at it first.
Call(r, c) ==
    /\ At(r, "idle")
    /\ \A s \in Requests : At(s, "idle") \/ SameClient(s, c)
    /\ Turns(r, [Idle EXCEPT !.op = c.op, !.key = c.key,
                              !.minimumValidity = c.minimumValidity,
                              !.at = IF c.op \in Refreshing THEN "check" ELSE "send"])
    /\ UNCHANGED <<now, networkVars, cacheVars, autoVars>>

-----------------------------------------------------------------------------
(***************************************************************************)
(* GetScopedNetwork and Send, in all the requests of the client.           *)
(***************************************************************************)
\* network_ptr_.lock(): the network is held on the stack of a call that
\* sends, and by the callback of every request.
Holds(r) == At(r, "sending") \/ req[r].flight \in {"sent", "cancelled", "storing"}
NetworkAlive == \E r \in Requests : Holds(r)

Send(r) ==
    /\ At(r, "send")
    /\ network' = IF NetworkAlive THEN network ELSE network_config_
    /\ Turns(r, [req[r] EXCEPT !.at = "sending", !.flight = "sent"])
    /\ UNCHANGED <<now, network_config_, cacheVars, autoVars>>

\* Send has returned: the caller has its CancellationToken, or it waits for
\* the future.
SendReturns(r) ==
    /\ At(r, "sending")
    /\ Turns(r, [req[r] EXCEPT !.at = IF Is(r, Blocking) THEN "wait" ELSE "out"])
    /\ token_mutex_' = IF Is(r, {"GetTokenAsync"}) THEN NoRequest ELSE token_mutex_
    /\ UNCHANGED <<now, networkVars, cacheVars, current_token_, token_refresh_time_>>

\* The token of CancellationToken cancels the request in the network.  A
\* TokenProvider gives its token to nobody.
CancelRequest(r) ==
    /\ ~Is(r, {"TokenProvider"})
    /\ req[r].at \in {"wait", "out"}
    /\ req[r].flight = "sent"
    /\ Turns(r, [req[r] EXCEPT !.flight = "cancelled"])
    /\ UNCHANGED <<now, networkVars, cacheVars, autoVars>>

\* Mutant of SetNetworkProxySettings: a network in use is not looked for.
SetNetworkProxySettingsAnyTime(p) ==
    /\ \A r \in Requests : ~Is(r, Refreshing)
    /\ network_config_' = p
    /\ UNCHANGED <<now, req, network, cacheVars, autoVars>>

\* A TokenEndpoint sets its proxy before it is used.  The call returns false
\* and does nothing while a network is alive.
SetNetworkProxySettings(p) ==
    /\ \A r \in Requests : ~Is(r, Refreshing)
    /\ ~NetworkAlive
    /\ network_config_' = p
    /\ UNCHANGED <<now, req, network, cacheVars, autoVars>>

-----------------------------------------------------------------------------
(***************************************************************************)
(* The callbacks of the requests.  The service answers with a status and a *)
(* document: one with a token, one with an errorCode, or one that has      *)
(* neither or cannot be parsed.  The network answers by itself with        *)
(* "cancelled", or with "offline" for all its other errors.                *)
(***************************************************************************)
Answers == [status : {"cancelled", "offline"}, document : {"garbage"}]
               \cup [status : {"ok", "denied"}, document : {"token", "errorCode", "garbage"}]

BaseResultCode(a) == IF a.status # "ok" /\ a.document = "errorCode" THEN 1 ELSE 0

\* A response without a token that is successful all the same: it has been
\* made of a result.
Result(status, a) == Response("result", status, BaseResultCode(a), 0, 0)

SignInResultImpl(a) ==
    IF a.status # "ok" THEN Result(a.status, a)
    ELSE IF a.document # "token" THEN Result("unavailable", a)
    ELSE Response("result", "ok", 0, Len(tokens) + 1, now + Lifetime)

Caches(a) == a.status = "ok" /\ a.document = "token"

\* LruCache::InsertOrAssign and Find: entries of cost 1.
UsedLast(cache, key) == <<key>> \o SelectSeq(cache.order, LAMBDA k : k # key)
InsertOrAssign(cache, key, response) ==
    LET all == UsedLast(cache, key)
        kept == {i \in DOMAIN all : i <= token_cache_limit}
    IN  [order |-> [i \in kept |-> all[i]],
         value |-> [k \in ({key} \cup DOMAIN cache.value) \cap {all[i] : i \in kept} |->
                       IF k = key THEN response ELSE cache.value[k]]]
Cached(cache, key) == key \in DOMAIN cache.value
Promoted(cache, key) == [order |-> UsedLast(cache, key), value |-> cache.value]

\* The response of r arrives: a waiting call has its future set,
\* an AutoRefreshingToken stores it, the application's callback is called.
Deliver(r, response) ==
    Turns(r, [req[r] EXCEPT
                  !.response = response,
                  !.flight = IF Is(r, {"GetTokenAsync"}) THEN "storing" ELSE "answered"])

\* What SignInClient and HandleUserRequest do alike, with their own cache.
\* offline is the answer when the cache has none.
SignIn(r, a, cache, offline) ==
    CASE a.status = "cancelled" -> [cache |-> cache, response |-> AuthenticationError("cancelled")]
      [] a.status = "offline" /\ ~Cached(cache, req[r].key) ->
             [cache |-> cache, response |-> offline]
      [] a.status = "offline" /\ Cached(cache, req[r].key) ->
             [cache |-> Promoted(cache, req[r].key), response |-> cache.value[req[r].key]]
      [] OTHER ->
             [cache |-> IF Caches(a) THEN InsertOrAssign(cache, req[r].key, SignInResultImpl(a))
                                     ELSE cache,
              response |-> SignInResultImpl(a)]

Issue(r, a) ==
    tokens' = IF Caches(a) THEN Append(tokens, [key |-> req[r].key, op |-> req[r].op,
                                                expiry |-> now + Lifetime])
                           ELSE tokens

\* Mutant of SignInClient: a cancelled request is forgotten.
SignInClientForgets(r, a) ==
    LET s == SignIn(r, a, client_token_cache_, AuthenticationError("offline")) IN
    /\ Is(r, Refreshing \cup {"SignInClient"})
    /\ IF a.status = "cancelled" THEN Turns(r, [req[r] EXCEPT !.flight = "dropped"])
                                 ELSE Deliver(r, s.response)
    /\ client_token_cache_' = s.cache
    /\ Issue(r, a)
    /\ UNCHANGED user_token_cache_

SignInClient(r, a) ==
    LET s == SignIn(r, a, client_token_cache_, AuthenticationError("offline")) IN
    /\ Is(r, Refreshing \cup {"SignInClient"})
    /\ Deliver(r, s.response)
    /\ client_token_cache_' = s.cache
    /\ Issue(r, a)
    /\ UNCHANGED user_token_cache_

\* Mutant of HandleUserRequest: the cache of SignInClient is used.
HandleUserRequestSharesCache(r, a) ==
    LET s == SignIn(r, a, client_token_cache_, Result("offline", a)) IN
    /\ Is(r, {"SignInUser"})
    /\ Deliver(r, s.response)
    /\ client_token_cache_' = s.cache
    /\ Issue(r, a)
    /\ UNCHANGED user_token_cache_

\* SignInHereUser, SignInRefresh, SignInFederated and AcceptTerms, which only
\* differ in what they send.
HandleUserRequest(r, a) ==
    LET s == SignIn(r, a, user_token_cache_, Result("offline", a)) IN
    /\ Is(r, {"SignInUser"})
    /\ Deliver(r, s.response)
    /\ user_token_cache_' = s.cache
    /\ Issue(r, a)
    /\ UNCHANGED client_token_cache_

\* SignUpHereUser and SignOut.
SignUpOrOut(r, a) ==
    /\ Is(r, {"SignUpHereUser", "SignOut"})
    /\ Deliver(r, IF a.status \in {"cancelled", "offline"} THEN AuthenticationError(a.status)
                                                           ELSE Result(a.status, a))
    /\ UNCHANGED cacheVars

\* The network answers, with "cancelled" only when it was asked to.  It may
\* do so inside Send.
ServiceAnswers(r, a) ==
    /\ req[r].flight \in (IF a.status = "cancelled" THEN {"cancelled"} ELSE {"sent", "cancelled"})
    /\ SignInClient(r, a) \/ HandleUserRequest(r, a) \/ SignUpOrOut(r, a)
    /\ UNCHANGED <<now, networkVars, autoVars>>

-----------------------------------------------------------------------------
(***************************************************************************)
(* AutoRefreshingToken.                                                    *)
(***************************************************************************)
forceRefresh(r) == req[r].minimumValidity <= 0
shouldRefreshNow == now >= token_refresh_time_

\* getToken looks at token_refresh_time_ without the lock.
getToken(r) ==
    /\ At(r, "check")
    /\ Turns(r, [req[r] EXCEPT !.at = IF forceRefresh(r) \/ shouldRefreshNow
                                       THEN "lock" ELSE "return"])
    /\ UNCHANGED <<now, networkVars, cacheVars, autoVars>>

\* The caller gets current_token_ as it is now.
GetsCurrent(r) ==
    [req[r] EXCEPT !.at = "out", !.flight = "answered", !.response = current_token_]

\* tryRefreshCurrentToken looks again under the lock, and holds it until the
\* answer has come, or, in the asynchronous one, until the request is sent or
\* the callback has been given current_token_.
tryRefreshCurrentToken(r) ==
    /\ At(r, "lock")
    /\ token_mutex_ = NoRequest
    /\ IF forceRefresh(r) \/ shouldRefreshNow
       THEN /\ token_mutex_' = r
            /\ Turns(r, [req[r] EXCEPT !.at = "send"])
       ELSE /\ UNCHANGED token_mutex_
            /\ Turns(r, IF Is(r, {"GetTokenAsync"}) THEN GetsCurrent(r)
                                                    ELSE [req[r] EXCEPT !.at = "return"])
    /\ UNCHANGED <<now, networkVars, cacheVars, current_token_, token_refresh_time_>>

\* Mutant of computeTokenRefreshTime: the validity is added.
computeTokenRefreshTimeLate(expiryTime, minimumValidity) ==
    IF expiryTime <= now THEN now ELSE expiryTime + minimumValidity

computeTokenRefreshTime(expiryTime, minimumValidity) ==
    IF expiryTime <= now THEN now ELSE expiryTime - minimumValidity

\* Whose turn it is to store its response: the waiting thread, or the thread
\* of the network.
Stores(r, n) ==
    /\ \/ At(r, "wait") /\ req[r].flight = "answered"
       \/ req[r].flight = "storing"
    /\ req[r].stored = n

\* current_token_ is assigned member by member.
StoreToken(r) ==
    /\ \/ Stores(r, 0) /\ current_token_' = [current_token_ EXCEPT !.token = req[r].response.token]
       \/ Stores(r, 1) /\ current_token_' = req[r].response
    /\ Turns(r, [req[r] EXCEPT !.stored = @ + 1])
    /\ UNCHANGED <<now, networkVars, cacheVars, token_refresh_time_, token_mutex_>>

\* The refresh time is computed from current_token_ as it is now.  Then the
\* lock is released, or the callback called.
StoreRefreshTime(r) ==
    /\ Stores(r, 2)
    /\ token_refresh_time_' =
           computeTokenRefreshTime(current_token_.expiry, req[r].minimumValidity)
    /\ IF Is(r, Blocking)
       THEN /\ token_mutex_' = NoRequest
            /\ Turns(r, [req[r] EXCEPT !.at = "return", !.stored = 0])
       ELSE /\ UNCHANGED token_mutex_
            /\ Turns(r, [req[r] EXCEPT !.flight = "answered", !.stored = 0])
    /\ UNCHANGED <<now, networkVars, cacheVars, current_token_>>

\* current_token_ is copied without the lock.  TokenProvider asks once more
\* when it was told of a success, and takes the token of the second answer.
Return(r) ==
    /\ At(r, "return")
    /\ IF Is(r, {"TokenProvider"}) /\ req[r].asked = 0 /\ IsSuccessful(current_token_)
       THEN Turns(r, [req[r] EXCEPT !.at = "check", !.asked = 1, !.flight = "none",
                                     !.response = current_token_])
       ELSE Turns(r, GetsCurrent(r))
    /\ UNCHANGED <<now, networkVars, cacheVars, autoVars>>

\* TokenProvider::operator bool
IsTokenResponseOK(response) == IsSuccessful(response) /\ response.code = 0

-----------------------------------------------------------------------------
Answered(r) == At(r, "out") /\ req[r].flight = "answered"

AuthStep(r) ==
    \/ Send(r) \/ SendReturns(r) \/ getToken(r) \/ tryRefreshCurrentToken(r)
    \/ StoreToken(r) \/ StoreRefreshTime(r) \/ Return(r)

AuthNext ==
    \/ Tick
    \/ \E r \in Requests :
          \/ \E c \in Calls[r] : Call(r, c)
          \/ AuthStep(r)
          \/ CancelRequest(r)
          \/ \E a \in Answers : ServiceAnswers(r, a)
    \/ \E p \in Proxies : SetNetworkProxySettings(p)

\* Every thread runs on, and the network answers every request.
AuthFairness ==
    \A r \in Requests :
       /\ WF_authVars(AuthStep(r))
       /\ WF_authVars(\E a \in Answers : ServiceAnswers(r, a))

AuthSpec == AuthInit /\ [][AuthNext]_authVars /\ AuthFairness

-----------------------------------------------------------------------------
(***************************************************************************)
(* A sign-in gets a token that the service issued to its own credentials   *)
(* and for its own kind of sign-in, also when it comes from a cache that   *)
(* other sign-ins have filled while the network was away.                  *)
(***************************************************************************)
TokenIsOwn ==
    \A r \in Requests :
       Answered(r) /\ req[r].response.token # 0 =>
           LET t == tokens[req[r].response.token] IN
           t.key = req[r].key /\ (t.op = "SignInUser" <=> Is(r, {"SignInUser"}))

(***************************************************************************)
(* A request goes through the proxy that SetNetworkProxySettings accepted  *)
(* last before it was sent: it refuses to change it while the network that *)
(* later requests will share is alive.                                     *)
(***************************************************************************)
ProxyIsUsed == NetworkAlive => network = network_config_

(***************************************************************************)
(* When GetToken is only called synchronously, the token that it returns   *)
(* without a request is one the service issued and that is valid until     *)
(* token_refresh_time_, while nobody replaces it.                          *)
(***************************************************************************)
OnlyBlocking == \A r \in Requests : At(r, "idle") \/ Is(r, Blocking)

KeptTokenIsFresh ==
    OnlyBlocking /\ token_mutex_ = NoRequest /\ ~shouldRefreshNow =>
        /\ IsSuccessful(current_token_) /\ current_token_.token # 0
        /\ current_token_.expiry = tokens[current_token_.token].expiry
        /\ token_refresh_time_ <= current_token_.expiry

(***************************************************************************)
(* Every request is answered: a synchronous GetToken that holds            *)
(* token_mutex_ while it waits is released by the answer, and so are all   *)
(* those that wait for the mutex.                                          *)
(***************************************************************************)
RequestIsAnswered == \A r \in Requests : ~At(r, "idle") ~> Answered(r)

(***************************************************************************)
(* AutoRefreshingToken.h: "This method is thread safe."  The response that *)
(* GetToken returns has the expiry time of its token.                      *)
(***************************************************************************)
TokenIsWhole ==
    \A r \in Requests :
       Answered(r) =>
           req[r].response.expiry = (IF req[r].response.token = 0 THEN 0
                                     ELSE tokens[req[r].response.token].expiry)

(***************************************************************************)
(* TokenProvider.h: operator bool "returns true if previous token request  *)
(* was successful": there is a token then.                                 *)
(***************************************************************************)
ProviderHasToken ==
    \A r \in Requests :
       Answered(r) /\ Is(r, {"TokenProvider"}) /\ IsTokenResponseOK(req[r].response) =>
           req[r].response.token # 0
=============================================================================
