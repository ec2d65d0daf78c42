---------------------------- MODULE MCSolDispatch ----------------------------
(***************************************************************************)
(* Instances of SolDispatch for TLC.                                       *)
(***************************************************************************)
EXTENDS SolDispatch, TLC

CONSTANTS t1, t2,               \* tasks
          a, b                  \* entries of lists

Pair == {t1, t2}

ValueMethods   == t1 :> "slot" @@ t2 :> "transaction"
ListMethods    == t1 :> "signatures" @@ t2 :> "programs"
AccountMethods == t1 :> "account" @@ t2 :> "slot"

(* Two values suffice for a tie of two RPCs and for a majority of three.   *)
(* Of two lists one has an entry once and one has another entry twice, in  *)
(* the same list or in the other one: a repeat at one RPC can stand in for *)
(* the entry the other one lacks.                                          *)
Lists(m) == IF m = "signatures" THEN {<<>>, <<a, b, a>>} ELSE {<<a>>, <<b, b>>}

MCAnswers == [m \in Methods |-> IF m \in Listing THEN Lists(m) ELSE {1, 2}]

RpcSymmetry == Permutations(Rpcs)
==============================================================================
