----------------------- MODULE MCMultiRequestContext -----------------------
(* MultiRequestContext with three requests of one key.                     *)
EXTENDS MultiRequestContext

CONSTANTS r1, r2, r3

MCRequests == {r1, r2, r3}
MCKeys == {1}
MCKeyOf == [r \in MCRequests |-> 1]
=============================================================================
