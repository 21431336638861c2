-------------------------- MODULE NetworkProtocol --------------------------
(***************************************************************************)
(* What network::NetworkProtocol promises to its user: a request it has    *)
(* accepted is answered exactly once, with "cancelled" only if that was    *)
(* asked for, and Deinitialize answers those that are left.                *)
(***************************************************************************)
EXTENDS Naturals, FiniteSets

CONSTANTS
    Requests,
    Handles    \* how many requests it works on at a time

VARIABLES
    started,    \* between Initialize and Deinitialize
    inFlight,   \* the requests accepted and not answered
    cancelling  \* those of them that are to be cancelled

protocolVars == <<started, inFlight, cancelling>>

Statuses == {"ok", "error", "cancelled"}

ProtocolInit ==
    /\ started = TRUE
    /\ inFlight = {}
    /\ cancelling = {}

Ready == started /\ Cardinality(inFlight) < Handles

Accept(r) ==
    /\ Ready
    /\ r \notin inFlight
    /\ inFlight' = inFlight \cup {r}
    /\ UNCHANGED <<started, cancelling>>

\* Cancel returns true for a request it works on and false for any other.
CancelRequest(r) ==
    /\ cancelling' = cancelling \cup ({r} \cap inFlight)
    /\ UNCHANGED <<started, inFlight>>

AnswerRequest(r, status) ==
    /\ r \in inFlight
    /\ status = "cancelled" => r \in cancelling
    /\ inFlight' = inFlight \ {r}
    /\ cancelling' = cancelling \ {r}
    /\ UNCHANGED started

Deinitialize ==
    /\ started
    /\ started' = FALSE
    /\ UNCHANGED <<inFlight, cancelling>>

ProtocolNext ==
    \/ \E r \in Requests : Accept(r) \/ CancelRequest(r)
    \/ \E r \in Requests, status \in Statuses : AnswerRequest(r, status)
    \/ Deinitialize

Answers(r) == \E status \in Statuses : AnswerRequest(r, status)

ProtocolSafety == ProtocolInit /\ [][ProtocolNext]_protocolVars

ProtocolSpec ==
    /\ ProtocolSafety
    /\ \A r \in Requests : WF_protocolVars(Answers(r))
=============================================================================
