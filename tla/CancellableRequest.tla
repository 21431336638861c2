------------------------ MODULE CancellableRequest ------------------------
(***************************************************************************)
(* What an asynchronous call with a callback and a CancellationToken       *)
(* promises: once issued it is answered exactly once, and its answer is    *)
(* "cancelled" only if its token was used.                                 *)
(***************************************************************************)
EXTENDS Sequences

CONSTANT Responses

VARIABLES
    issued,            \* whether the call has been made
    cancel_requested,  \* whether its token has been used
    answers            \* what the callback has been given

requestVars == <<issued, cancel_requested, answers>>

RequestInit ==
    /\ issued = FALSE
    /\ cancel_requested = FALSE
    /\ answers = <<>>

Issue ==
    /\ ~issued
    /\ issued' = TRUE
    /\ UNCHANGED <<cancel_requested, answers>>

RequestCancel ==
    /\ cancel_requested' = TRUE
    /\ UNCHANGED <<issued, answers>>

Answer(r) ==
    /\ issued
    /\ answers = <<>>
    /\ r = "cancelled" => cancel_requested
    /\ answers' = <<r>>
    /\ UNCHANGED <<issued, cancel_requested>>

RequestNext == Issue \/ RequestCancel \/ (\E r \in Responses : Answer(r))

RequestSafety == RequestInit /\ [][RequestNext]_requestVars

RequestSpec ==
    RequestSafety /\ WF_requestVars(\E r \in Responses : Answer(r))
=============================================================================
