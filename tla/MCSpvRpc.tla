------------------------------ MODULE MCSpvRpc -------------------------------
(***************************************************************************)
(* Instances of SpvRpc for TLC: a Bitcoin chain that reorganises from a1   *)
(* to b2 and, in some instances, a Dogecoin chain.                         *)
(***************************************************************************)
EXTENDS SpvRpc, TLC

CONSTANTS g, a1, b1, b2,        \* Bitcoin:  g -- a1,  g -- b1 -- b2
          d0, d1,               \* Dogecoin: d0 -- d1
          x,                    \* a hash that is no block's
          rootA, rootB

BtcOnly  == {g, a1, b1, b2}
BtcShort == {g, a1}
BtcDoge  == {g, a1, d0, d1}

Parents == g :> Null @@ a1 :> g @@ b1 :> g @@ b2 :> b1 @@ d0 :> Null @@ d1 :> d0
MCPrev  == [b \in Blocks |-> Parents[b]]
MCChain[b \in Blocks] ==
    IF MCPrev[b] = Null THEN <<b>> ELSE Append(MCChain[MCPrev[b]], b)

Weights == g :> 0 @@ a1 :> 1 @@ b1 :> 1 @@ b2 :> 2 @@ d0 :> 0 @@ d1 :> 1
MCWork  == [b \in Blocks |-> Weights[b]]

MCNetOf == [b \in Blocks |-> IF b \in {d0, d1} THEN "doge" ELSE "btc"]
MCRoot  == [b \in Blocks |-> IF b \in {g, b1, d0} THEN rootA ELSE rootB]

(* Heights, eight bytes that begin with zeros, come before all hashes.     *)
Places == g :> 4 @@ b2 :> 5 @@ a1 :> 6 @@ b1 :> 7 @@ d1 :> 8 @@ d0 :> 9 @@ x :> 10
MCKeys == Heights \cup Blocks \cup OtherHashes
MCRank == [k \in Keys |-> IF k \in Heights THEN k ELSE Places[k]]

RequestSymmetry == Permutations(Requests)
==============================================================================
