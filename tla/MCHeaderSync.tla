---------------------------- MODULE MCHeaderSync -----------------------------
(***************************************************************************)
(* Instances of HeaderSync for TLC: a chain a1 .. a4, a fork b2, b3 off a1 *)
(* that is heaviest for a while, and a block c1 that outweighs a3 and b3   *)
(* with fewer blocks.                                                      *)
(*                                                                         *)
(*                g -- a1 -- a2 -- a3 -- a4                                *)
(*                |     \___ b2 -- b3                                      *)
(*                 \___ c1                                                 *)
(***************************************************************************)
EXTENDS HeaderSync, TLC

CONSTANTS g, a1, a2, a3, a4, b2, b3, c1

Tree   == {g, a1, a2, a3, a4, b2, b3, c1}
Forked == Tree \ {c1}

Parents ==
    g :> Null @@ a1 :> g @@ a2 :> a1 @@ a3 :> a2 @@ a4 :> a3 @@ b2 :> a1 @@ b3 :> b2 @@ c1 :> g

MCPrev == [b \in Blocks |-> Parents[b]]

MCChain[b \in Blocks] ==
    IF MCPrev[b] = Null THEN <<b>> ELSE Append(MCChain[MCPrev[b]], b)

Weights ==
    g :> 0 @@ a1 :> 1 @@ a2 :> 2 @@ b2 :> 2 @@ a3 :> 3 @@ b3 :> 4 @@ a4 :> 6 @@ c1 :> 5

MCWork == [b \in Blocks |-> Weights[b]]
==============================================================================
