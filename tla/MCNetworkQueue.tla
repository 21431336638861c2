--------------------------- MODULE MCNetworkQueue ---------------------------
(* Two requests, of any of two groups with a quota of one request each. *)
EXTENDS NetworkQueue, TLC

CONSTANTS r1, r2

MCRequests == {r1, r2}
MCQuota == <<1, 1>>
MCFilters == [MCRequests -> 1 .. 2]
MCPriorityOf == r1 :> 1 @@ r2 :> 2
=============================================================================
