---------------------------- MODULE MCEndpoints ------------------------------
(***************************************************************************)
(* An instance of Endpoints for TLC: a Bitcoin chain of two blocks and one *)
(* Dogecoin block, one Ethereum transaction and two Solana transactions,   *)
(* the first of which may come in a form that does not decode again.       *)
(***************************************************************************)
EXTENDS Endpoints, TLC

CONSTANTS g, a1, d0, root, t1, s1, s2

MCPrev  == g :> Null @@ a1 :> g @@ d0 :> Null
MCChain == g :> <<g>> @@ a1 :> <<g, a1>> @@ d0 :> <<d0>>
MCWork  == g :> 0 @@ a1 :> 1 @@ d0 :> 0
MCNetOf == g :> "btc" @@ a1 :> "btc" @@ d0 :> "doge"
MCRoot  == [b \in Blocks |-> root]

(* Receipts are asked for by the hash of a transaction and of a block, and *)
(* headers, too (OtherHashes).                                             *)
MCHome == t1 :> "eth" @@ a1 :> NoChain

MCKeys == Heights \cup Blocks \cup Hashes \cup Signatures
MCRank == 0 :> 0 @@ 1 :> 1 @@ g :> 2 @@ s1 :> 3 @@ a1 :> 4 @@ t1 :> 5 @@ d0 :> 6 @@ s2 :> 7

Single(c) == [batch |-> FALSE, calls |-> <<c>>]
Batch(cs) == [batch |-> TRUE, calls |-> cs]

(* Calls, as in ChainRpc.                                                  *)
Receipt(h)        == [method |-> "receipt", key |-> h]
Transaction(s, c) == [method |-> "transaction", key |-> s, config |-> c]
Other             == [method |-> "other"]

(* /eth2 rejects the batch.                                                *)
MCPayloads ==
    "/eth" :> {Batch(<<Receipt(a1), Receipt(t1)>>)}
        @@ "/eth2" :> {Batch(<<Receipt(t1)>>)}
        @@ "/optimism" :> {Single(Receipt(t1)), Single(Other)}
        @@ "/sol" :> {Single(Transaction(s1, TRUE)), Single(Other)}
            \cup {Single(Transaction(s2, c)) : c \in BOOLEAN}

HandlerSymmetry == Permutations(Handlers)
==============================================================================
