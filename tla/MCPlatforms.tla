---------------------------- MODULE MCPlatforms ----------------------------
(***************************************************************************)
(* The back-ends of the network on each platform, in one instance: a       *)
(* behaviour is one of a single platform, that of its first state.  The    *)
(* variables of the other platforms stay as they are.  First come the      *)
(* generation of network::NetworkProtocol, then that of http::Network.     *)
(***************************************************************************)
EXTENDS Naturals, Sequences, FiniteSets, TLC

CONSTANTS Requests, r1, r2, NoRequest

VARIABLES
    platform,
    vm, client, m_started, m_requests, m_cancelledRequests, m_results, looper, task, deinit,
    state_, handles_, events_, curl_, worker, msgs, message, init_mutex_,
    m_session, m_connections, m_request, result, http, thread,
    m_httpClient, tasks, idTaskMap, session, created, mixed,
    sending, asked, answers, terminated

One == (r1 :> 1) @@ (r2 :> 0)
First == {r1}
Second == {r2}

Android == INSTANCE NetworkProtocolAndroid
    WITH Quota <- 1, MaxRetries <- One, Chunks <- One, Cancellable <- First
WinHttp == INSTANCE NetworkProtocolWinHttp WITH Chunks <- One, Cancellable <- First
Ios == INSTANCE NetworkProtocolIos
    WITH MaxRequestCount <- 2, Proxied <- Second, Cancellable <- First
Curl2 == INSTANCE NetworkCurl
    WITH Handles <- 1, MaxRetries <- 1, OptionFails <- Second, Cancels <- 1
Android2 == INSTANCE NetworkAndroid
    WITH Quota <- 1, MaxRetries <- One, Chunks <- One, Cancellable <- First
WinHttp2 == INSTANCE NetworkWinHttp WITH Chunks <- One, Cancellable <- First
Ios2 == INSTANCE OLPNetworkIOS
    WITH MaxRequestCount <- 2, Proxied <- Second, Cancellable <- First

\* The variables of each platform, and those that it has not.
shared == <<sending, asked, answers>>
androidVars == <<vm, client, m_started, m_requests, m_cancelledRequests, m_results, looper, task,
                 deinit, shared>>
curlVars == <<state_, handles_, events_, curl_, worker, msgs, message, init_mutex_, terminated,
              shared>>
winHttpVars == <<m_session, m_connections, m_requests, m_request, m_results, result, http,
                 thread, deinit, terminated, shared>>
iosVars == <<m_httpClient, tasks, task, idTaskMap, session, created, mixed, deinit, terminated,
             shared>>

OnlyCurl == <<state_, handles_, events_, curl_, worker, msgs, message, init_mutex_>>
OnlyWinHttp == <<m_session, m_connections, m_request, result, http, thread>>
OnlyIos == <<m_httpClient, tasks, idTaskMap, session, created, mixed>>
OnlyAndroid == <<vm, m_started, m_cancelledRequests, looper>>

-----------------------------------------------------------------------------
NotAndroid == <<OnlyCurl, OnlyWinHttp, OnlyIos, terminated>>
NotWinHttp == <<OnlyAndroid, OnlyCurl, OnlyIos, task>>
NotIos == <<OnlyAndroid, OnlyCurl, OnlyWinHttp, client, m_requests, m_results>>
NotCurl == <<OnlyAndroid, OnlyWinHttp, OnlyIos, client, m_requests, m_results, task, deinit>>

NoCurl ==
    /\ state_ = 0 /\ handles_ = 0 /\ events_ = 0 /\ curl_ = 0 /\ worker = 0 /\ msgs = 0
    /\ message = 0 /\ init_mutex_ = 0
NoWinHttp ==
    /\ m_session = 0 /\ m_connections = 0 /\ m_request = 0 /\ result = 0 /\ http = 0
    /\ thread = 0
NoIos ==
    /\ m_httpClient = 0 /\ tasks = 0 /\ idTaskMap = 0 /\ session = 0 /\ created = 0
    /\ mixed = 0
NoAndroid == vm = 0 /\ m_started = 0 /\ m_cancelledRequests = 0 /\ looper = 0

Init ==
    \/ /\ platform \in {"Android", "Android2"}
       /\ IF platform = "Android" THEN Android!Init ELSE Android2!Init
       /\ NoCurl /\ NoWinHttp /\ NoIos /\ terminated = FALSE
    \/ /\ platform \in {"WinHttp", "WinHttp2"}
       /\ IF platform = "WinHttp" THEN WinHttp!Init /\ client = 0 ELSE WinHttp2!Init
       /\ NoCurl /\ NoAndroid /\ NoIos /\ task = 0
    \/ /\ platform \in {"Ios", "Ios2"}
       /\ IF platform = "Ios" THEN Ios!Init ELSE Ios2!Init
       /\ NoCurl /\ NoAndroid /\ NoWinHttp /\ client = 0 /\ m_requests = 0 /\ m_results = 0
    \/ /\ platform = "Curl2"
       /\ Curl2!Init
       /\ NoAndroid /\ NoWinHttp /\ NoIos
       /\ client = 0 /\ m_requests = 0 /\ m_results = 0 /\ task = 0 /\ deinit = 0

Next ==
    /\ \/ platform = "Android" /\ Android!Next /\ UNCHANGED NotAndroid
       \/ platform = "Android2" /\ Android2!Next /\ UNCHANGED NotAndroid
       \/ platform = "WinHttp" /\ WinHttp!Next /\ UNCHANGED <<NotWinHttp, client>>
       \/ platform = "WinHttp2" /\ WinHttp2!Next /\ UNCHANGED NotWinHttp
       \/ platform = "Ios" /\ Ios!Next /\ UNCHANGED NotIos
       \/ platform = "Ios2" /\ Ios2!Next /\ UNCHANGED NotIos
       \/ platform = "Curl2" /\ Curl2!Next /\ UNCHANGED NotCurl
    /\ UNCHANGED platform

vars == <<platform, OnlyAndroid, OnlyCurl, OnlyWinHttp, OnlyIos, client, m_requests, m_results,
          task, deinit, sending, asked, answers, terminated>>

(***************************************************************************)
(* A call of Send that has begun, the threads of the back-end, and what    *)
(* the platform's library does go on.  Nobody need cancel or end a         *)
(* network.  A thread that waits for a mutex gets it in the end.           *)
(***************************************************************************)
Live(p) == platform = p /\ ~terminated

Fairness ==
    /\ \A r \in Requests :
          /\ WF_androidVars(Live("Android") /\ Android!SendStep(r))
          /\ WF_androidVars(Live("Android") /\ Android!TaskStep(r))
          /\ WF_androidVars(Live("Android2") /\ Android2!SendStep(r))
          /\ WF_androidVars(Live("Android2") /\ Android2!TaskStep(r))
          /\ WF_winHttpVars(Live("WinHttp") /\ WinHttp!InSend(r) /\ WinHttp!SendStep(r))
          /\ WF_winHttpVars(Live("WinHttp") /\ WinHttp!HttpStep(r))
          /\ WF_winHttpVars(Live("WinHttp2") /\ WinHttp!InSend(r) /\ WinHttp2!SendStep(r))
          /\ WF_winHttpVars(Live("WinHttp2") /\ WinHttp2!HttpStep(r))
          /\ WF_iosVars(Live("Ios") /\ Ios!InSend(r) /\ Ios!SendStep(r))
          /\ WF_iosVars(Live("Ios") /\ Ios!DelegateStep(r))
          /\ WF_iosVars(Live("Ios2") /\ Ios2!InSend(r) /\ Ios2!SendStep(r))
          /\ WF_iosVars(Live("Ios2") /\ Ios2!DelegateStep(r))
          /\ SF_curlVars(Live("Curl2") /\ Curl2!SendStep(r))
    /\ WF_androidVars(Live("Android") /\ Android!LooperStep)
    /\ WF_androidVars(Live("Android") /\ Android!DeinitializeStep)
    /\ WF_androidVars(Live("Android2") /\ Android2!SelfRunStep)
    /\ WF_winHttpVars(Live("WinHttp") /\ WinHttp!ThreadStep)
    /\ WF_winHttpVars(Live("WinHttp") /\ WinHttp!DeinitializeStep)
    /\ WF_winHttpVars(Live("WinHttp2") /\ WinHttp2!CompletionStep)
    /\ WF_iosVars(Live("Ios") /\ Ios!DeinitializeAnswers)
    /\ WF_iosVars(Live("Ios2") /\ Ios2!CleanupAnswers)
    /\ WF_curlVars(Live("Curl2") /\ Curl2!WorkerStep)
    /\ \A h \in 1..1 : SF_curlVars(Live("Curl2") /\ Curl2!Perform(h))

Spec == Init /\ [][Next]_vars /\ Fairness

-----------------------------------------------------------------------------
(***************************************************************************)
(* The promise of http/Network.h and of network/Network.h: the callback is *)
(* called when the request is processed or cancelled, and after that there *)
(* is no callback any more.  Send, the library's thread, the thread that   *)
(* answers, Cancel and the end of the network may meet in any order.       *)
(***************************************************************************)
AtMostOneAnswer == \A r \in Requests : Len(answers[r]) <= 1

Status(r, i) == IF platform = "Curl2" THEN answers[r][i].result ELSE answers[r][i].status

\* Closing a network cancels what WinHTTP works on; NSURLSession cancels for a
\* server that is not trusted, and a request may be taken for another one.
Ended ==
    IF platform = "WinHttp" THEN deinit.pc # "no" ELSE FALSE
LooksCancelled(r) ==
    CASE platform = "Ios" -> Ios!LooksCancelled(r)
      [] platform = "Ios2" -> Ios2!LooksCancelled(r)
      [] OTHER -> FALSE

(***************************************************************************)
(* A request is answered as cancelled only if Cancel was called for that   *)
(* request: a cancellation never reaches another one.                      *)
(***************************************************************************)
CancelledWasAsked ==
    \A r \in Requests : \A i \in DOMAIN answers[r] :
       Status(r, i) = "cancelled" => r \in asked \/ Ended \/ LooksCancelled(r)

(***************************************************************************)
(* Each back-end implements what NetworkProtocol promises: a request is    *)
(* accepted while the network is started, is in flight from then on, even  *)
(* where it changes hands between two threads, and leaves once.            *)
(***************************************************************************)
Started ==
    CASE platform = "Android" -> ~Android!Shutdown
      [] platform \in {"WinHttp", "WinHttp2"} -> m_session
      [] platform \in {"Ios", "Ios2"} -> m_httpClient
      [] OTHER -> TRUE
InFlight ==
    CASE platform = "Android" -> Android!InFlight
      [] platform = "Android2" -> Android2!InFlight
      [] platform = "WinHttp" -> WinHttp!InFlight
      [] platform = "WinHttp2" -> WinHttp2!InFlight
      [] platform = "Ios" -> Ios!InFlight
      [] platform = "Ios2" -> Ios2!InFlight
      [] OTHER -> {handles_[h].id : h \in Curl2!InFlightHandles}
Cancelling ==
    IF platform = "Curl2"
    THEN {handles_[h].id : h \in {g \in Curl2!InFlightHandles : handles_[g].cancelled}}
    ELSE asked \cap InFlight

Abstract == INSTANCE NetworkProtocol
    WITH started <- Started, inFlight <- InFlight, cancelling <- Cancelling,
         Handles <- Cardinality(Requests)
ImplementsProtocol == Abstract!ProtocolSafety

(***************************************************************************)
(* A request that Send has accepted is answered in the end, but for what   *)
(* each module says of its back-end: what is never read after the end of   *)
(* Android's looper, what WinHTTP calls back before Send has stored the    *)
(* handle or between two operations, and what NSURLSession numbers twice.  *)
(***************************************************************************)
Sent(r) == IF platform = "Curl2" THEN sending[r].pc = "sent" ELSE sending[r] = "sent"
Unanswered(r) ==
    CASE platform = "Android" -> Android!Stranded(r)
      [] platform = "WinHttp" -> WinHttp!Unanswered(r)
      [] platform = "WinHttp2" -> WinHttp2!Unanswered(r)
      [] platform = "Ios" -> Ios!Unanswered(r)
      [] platform = "Ios2" -> Ios2!Unanswered(r)
      [] OTHER -> FALSE

SentIsAnswered ==
    \A r \in Requests : Sent(r) ~> (answers[r] # <<>> \/ terminated \/ Unanswered(r))

(***************************************************************************)
(* On Android, the count an answer reports is that of the last attempt,    *)
(* however many the task has made and wherever they broke off.             *)
(***************************************************************************)
CountIsLastAttempt == platform = "Android" => Android!CountIsLastAttempt

(***************************************************************************)
(* The callback of a request reports on that request: it is called once,   *)
(* as cancelled only on demand, and counts the bytes of the last attempt.  *)
(***************************************************************************)
AnswerIsItsOwn == AtMostOneAnswer /\ CancelledWasAsked /\ CountIsLastAttempt

(***************************************************************************)
(* http/Network.h: "Once the request was cancelled the user will receive a *)
(* final Callback with an appropriate NetworkResponse marked as            *)
(* cancelled."  Stated for WinHTTP, where closing the handle cancels.      *)
(***************************************************************************)
CancelIsAnswered ==
    \A r \in Requests : platform = "WinHttp2" /\ r \in asked ~> answers[r] # <<>> \/ terminated
=============================================================================
