------------------------------- MODULE SolVote -------------------------------
(***************************************************************************)
(* The decision functions of the Solana client (chains/sol.rs): how the    *)
(* answers of the extra RPCs are reduced to one decision, and how the      *)
(* caller compares that decision with what its judge RPC said first.       *)
(*                                                                         *)
(* A ballot is a function from the RPCs that answered to their answers:    *)
(* the URLs of the extra RPCs are distinct, so the set of (answer, url)    *)
(* pairs the dispatcher collects is one.  An answer is a value for         *)
(* getTransaction, getSlot and getAccountInfo and a sequence of entries    *)
(* for the two listing methods.  Two answers are equal exactly when their  *)
(* serialisations, which are what the code counts, are.                    *)
(***************************************************************************)
EXTENDS Integers, FiniteSets, Sequences

CONSTANT NoValue        \* the value of a failed outcome

Matching == {"transaction", "account"}      \* decided value must equal the judge's
Listing  == {"signatures", "programs"}      \* answers are lists of entries
Methods  == Matching \cup Listing \cup {"slot"}

Ok(v) == [ok |-> TRUE,  val |-> v]
Err   == [ok |-> FALSE, val |-> NoValue]

------------------------------------------------------------------------------
(* One value out of many: the counts of a hash map, its maximum, and the   *)
(* refusal when more than one value reaches the maximum.                   *)

Voters(b, v) == {r \in DOMAIN b : b[r] = v}

Votes(b, v) == Cardinality(Voters(b, v))

Candidates(b) == {b[r] : r \in DOMAIN b}

Leaders(b) == {v \in Candidates(b) : \A w \in Candidates(b) : Votes(b, w) <= Votes(b, v)}

Plurality(b) ==
    IF \E v \in Candidates(b) : Leaders(b) = {v}
    THEN Ok(CHOOSE v \in Candidates(b) : Leaders(b) = {v})
    ELSE Err

------------------------------------------------------------------------------
(* Lists: an entry is kept when it was counted exactly as often as there   *)
(* are answering RPCs.  What is counted are mentions, a mention being one  *)
(* place of one list: a list that has an entry twice counts for two.       *)

Places(s, x) == {i \in DOMAIN s : s[i] = x}

Mentions(b, x) == UNION {{r} \X Places(b[r], x) : r \in DOMAIN b}

Entries(s) == {s[i] : i \in DOMAIN s}

(* Neither list s nor a list of ballot b has x in two places: for such an  *)
(* entry counting mentions is counting RPCs.                               *)
Once(s, x) == \A i, k \in Places(s, x) : i = k

Unrepeated(b, s, x) == Once(s, x) /\ \A r \in DOMAIN b : Once(b[r], x)

(* Mutant of Common: one RPC may miss an entry.                            *)
CommonButOne(b) == {x \in UNION {Entries(b[r]) : r \in DOMAIN b} :
                       Cardinality(Mentions(b, x)) + 1 >= Cardinality(DOMAIN b)}

(* Mutant of Common: the judge is counted among the RPCs.                  *)
CommonWithJudge(b) == {x \in UNION {Entries(b[r]) : r \in DOMAIN b} :
                          Cardinality(Mentions(b, x)) = Cardinality(DOMAIN b) + 1}

Common(b) == {x \in UNION {Entries(b[r]) : r \in DOMAIN b} :
                 Cardinality(Mentions(b, x)) = Cardinality(DOMAIN b)}

(* What the dispatcher answers once every extra RPC has reported.          *)
Decide(m, b) == IF m \in Listing THEN Ok(Common(b)) ELSE Plurality(b)

------------------------------------------------------------------------------
(* The caller's side: the judge's answer j against the decided d.          *)

(* How often the caller counts an entry in its own list, where it may be   *)
(* in several places, and in the decided one, whose entries were the keys  *)
(* of a map.                                                               *)
Tally(j, d, x) == Cardinality(Places(j, x)) + (IF x \in d THEN 1 ELSE 0)

(* The entries of list j that are in X, each where j first has it: the     *)
(* order of the keys of an index map.                                      *)
InOrder(j, X) ==
    LET met[i \in 0 .. Len(j)] ==
            IF i = 0 THEN <<>>
            ELSE IF j[i] \in X /\ \A k \in 1 .. i - 1 : j[k] # j[i]
                 THEN Append(met[i - 1], j[i])
                 ELSE met[i - 1]
    IN  met[Len(j)]

(* The doubly counted entries in the order the index map met them.         *)
Confirmed(j, d) == InOrder(j, {x \in Entries(j) : Tally(j, d, x) = 2})

(* Mutant of Conclude: the newer of the two slots is returned.             *)
ConcludeNewest(m, j, d) ==
    CASE m \in Matching    -> IF d = j THEN Ok(d) ELSE Err
      [] m = "slot"        -> IF j <= d THEN Ok(d) ELSE Err
      [] m = "signatures"  -> Ok(<<Head(j)>> \o Confirmed(Tail(j), d))
      [] m = "programs"    -> Ok({x \in Entries(j) \cup d : Tally(j, d, x) = 2})

(* The first signature of the judge is the "before" of the query the extra *)
(* RPCs get: it heads the result without having been compared.             *)
Conclude(m, j, d) ==
    CASE m \in Matching    -> IF d = j THEN Ok(d) ELSE Err
      [] m = "slot"        -> IF j <= d THEN Ok(j) ELSE Err
      [] m = "signatures"  -> Ok(<<Head(j)>> \o Confirmed(Tail(j), d))
      [] m = "programs"    -> Ok({x \in Entries(j) \cup d : Tally(j, d, x) = 2})
==============================================================================
