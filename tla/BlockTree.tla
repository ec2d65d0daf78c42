------------------------------ MODULE BlockTree ------------------------------
(***************************************************************************)
(* The blocks a bitcoind or dogecoind may ever report, as the code that    *)
(* asks for their headers sees them: every block names its predecessor,    *)
(* the first block names the all-zero hash, and the node follows the chain *)
(* with the most work.  A block stands for its hash and for its header.    *)
(***************************************************************************)
EXTENDS Integers, Sequences

CONSTANTS
    Blocks,
    Null,       \* the all-zero hash
    Prev,       \* Prev[b]: the predecessor a header names
    Chain,      \* Chain[b]: the blocks from the first one to b
    Work        \* Work[b]: the total work of Chain[b]

ASSUME TreeAssumption ==
    /\ Null \notin Blocks
    /\ Prev \in [Blocks -> Blocks \cup {Null}]
    /\ Work \in [Blocks -> Nat]

(* Chain[b] is the path Prev spells out.                                   *)
ASSUME ChainAssumption ==
    /\ Chain \in [Blocks -> Seq(Blocks)]
    /\ \A b \in Blocks :
          Chain[b] = IF Prev[b] = Null THEN <<b>> ELSE Append(Chain[Prev[b]], b)
    /\ \A b \in Blocks : \A i \in 1 .. Len(Chain[b]) :
          Prev[Chain[b][i]] = IF i = 1 THEN Null ELSE Chain[b][i - 1]

On(b) == {Chain[b][i] : i \in 1 .. Len(Chain[b])}
==============================================================================
