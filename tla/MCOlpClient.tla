---------------------------- MODULE MCOlpClient ----------------------------
(***************************************************************************)
(* OlpClient with two cancelling threads and at most three attempts, and   *)
(* the Authentication that gives it its tokens, with three requests.  A    *)
(* behaviour is one of either, that of its first state.                    *)
(***************************************************************************)
EXTENDS OlpClient, Authentication, TLC

CONSTANTS c1, c2, r1, r2, r3

VARIABLE part

MCCancellers == {c1, c2}
MCSettings ==
    [max_attempts : {0, 2, 3},
     retry_condition : {{}, {"error"}, {"error", "cancelled"}},
     synchronous : SUBSET {"Send", "Cancel"}]

\* Two requests race each other; a third one fills the cache of tokens.
MCCall(op, key, validity) == [op |-> op, key |-> key, minimumValidity |-> validity]
MCCalls ==
    (r1 :> {MCCall("TokenProvider", "k1", 1),
            MCCall("SignInClient", "k1", 0), MCCall("SignOut", "k1", 0)})
    @@ (r2 :> {MCCall("GetToken", "k1", 0), MCCall("GetTokenAsync", "k1", 1),
               MCCall("SignInUser", "k1", 0)})
    @@ (r3 :> {MCCall("SignInClient", "k2", 0), MCCall("SignInClient", "k1", 0)})

MCRequests == {r1, r2, r3}
MCProxies == {"proxy"}

Settled == settings = CHOOSE s \in Settings : TRUE

MCInit ==
    /\ part \in {"OlpClient", "Authentication"}
    /\ Init /\ AuthInit
    /\ part = "Authentication" => Settled

MCNext ==
    /\ UNCHANGED part
    /\ \/ part = "OlpClient" /\ Next /\ UNCHANGED authVars
       \/ part = "Authentication" /\ AuthNext /\ UNCHANGED vars

\* The fairness of either part.
MCFairness ==
    /\ \A t \in Threads : WF_vars(part = "OlpClient" /\ ThreadStep(t))
    /\ \A i \in AttemptIds :
           WF_vars(part = "OlpClient" /\ \E r \in Responses : NetworkAnswers(i, r))
    /\ \A r \in Requests :
           /\ WF_authVars(part = "Authentication" /\ AuthStep(r))
           /\ WF_authVars(part = "Authentication"
                           /\ \E a \in Answers : ServiceAnswers(r, a))

MCSpec == MCInit /\ [][MCNext]_<<part, vars, authVars>> /\ MCFairness
=============================================================================
