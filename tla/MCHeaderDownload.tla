-------------------------- MODULE MCHeaderDownload ---------------------------
(***************************************************************************)
(* An instance of HeaderDownload for TLC: a chain g -- a1 and a branch     *)
(* g -- b1 -- b2 -- b3 that outweighs it from b2 on.                       *)
(***************************************************************************)
EXTENDS HeaderDownload, TLC

CONSTANTS g, a1, b1, b2, b3, x

MCPrev == g :> Null @@ a1 :> g @@ b1 :> g @@ b2 :> b1 @@ b3 :> b2
MCWork == g :> 0 @@ a1 :> 1 @@ b1 :> 1 @@ b2 :> 2 @@ b3 :> 3

MCChain[b \in Blocks] ==
    IF MCPrev[b] = Null THEN <<b>> ELSE Append(MCChain[MCPrev[b]], b)
==============================================================================
