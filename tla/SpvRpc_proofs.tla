---------------------------- MODULE SpvRpc_proofs -----------------------------
(***************************************************************************)
(* What the handlers of the Bitcoin and Dogecoin endpoints guarantee,      *)
(* whatever the trees of blocks, the number of requests and the size of    *)
(* the response cache.  The inductive invariant has one part for the P2P   *)
(* clients, one for the size of the cache, one for the entries under block *)
(* hashes and heights and one for where each handler stands; none of them  *)
(* says that the cache has no other entries, so the parts also serve the   *)
(* endpoints that share it (Endpoints_proofs).                             *)
(***************************************************************************)
EXTENDS SpvRpc, HeaderList_proofs

------------------------------------------------------------------------------
(* The response cache.                                                     *)

Bounded(c) == /\ IsFiniteSet(DOMAIN c) /\ DOMAIN c \subseteq Keys
              /\ Cardinality(DOMAIN c) <= CacheSize

(* A cache that is not empty has exactly one first key.                    *)
LEMMA FirstKey ==
  ASSUME NEW c, DOMAIN c \subseteq Keys, DOMAIN c # {}
  PROVE  \E k \in DOMAIN c : {j \in DOMAIN c : IsFirst(c, j)} = {k}
<1> DEFINE T == {Rank[j] : j \in DOMAIN c}
<1>1. T \in SUBSET Nat /\ T # {}
  BY CacheAssumption
<1>2. PICK x \in T : \A y \in T : x <= y
  <2> HIDE DEF T
  <2> QED BY <1>1, Least
<1>3. PICK k \in DOMAIN c : x = Rank[k]
  BY <1>2
<1>4. \A j \in DOMAIN c : Rank[k] <= Rank[j] /\ Rank[j] \in Nat
  BY <1>2, <1>3, CacheAssumption
<1>5. \A j \in DOMAIN c : IsFirst(c, j) => Rank[j] = Rank[k]
  BY <1>4 DEF IsFirst
<1>6. \A j \in DOMAIN c : IsFirst(c, j) => j = k
  BY <1>5, CacheAssumption
<1>7. IsFirst(c, k)
  BY <1>4 DEF IsFirst
<1> QED BY <1>6, <1>7

(* insert keeps the cache within its size, stores the value, leaves the    *)
(* other values as they were and drops one entry at most, of a full cache. *)
LEMMA InsertFacts ==
  ASSUME NEW c, Bounded(c), NEW k \in Keys, NEW v
  PROVE  /\ Bounded(Insert(c, k, v))
         /\ k \in DOMAIN Insert(c, k, v) /\ Insert(c, k, v)[k] = v
         /\ \A j \in DOMAIN Insert(c, k, v) \ {k} : j \in DOMAIN c /\ Insert(c, k, v)[j] = c[j]
         /\ \A j \in DOMAIN c \ DOMAIN Insert(c, k, v) :
               /\ Cardinality(DOMAIN c) = CacheSize /\ IsFirst(c, j)
               /\ DOMAIN c \ {j} \subseteq DOMAIN Insert(c, k, v)
<1> DEFINE D == DOMAIN c
           E == (D \ Evicted(c)) \cup {k}
<1>1. /\ IsFiniteSet(D) /\ D \subseteq Keys /\ Cardinality(D) \in Nat /\ Cardinality(D) <= CacheSize
      /\ CacheSize \in Nat \ {0}
  BY FS_CardinalityType, CacheAssumption DEF Bounded
<1>2. DOMAIN Insert(c, k, v) = E /\ \A j \in E : Insert(c, k, v)[j] = IF j = k THEN v ELSE c[j]
  BY DEF Insert
<1>3. CASE Cardinality(D) < CacheSize
  <2>1. Evicted(c) = {} /\ E = D \cup {k}
    BY <1>1, <1>3 DEF Evicted
  <2>2. /\ IsFiniteSet(D \cup {k})
        /\ Cardinality(D \cup {k}) = IF k \in D THEN Cardinality(D) ELSE Cardinality(D) + 1
    BY <1>1, FS_AddElement
  <2>3. Cardinality(E) <= CacheSize
    BY <1>1, <1>3, <2>1, <2>2
  <2> QED BY <1>1, <1>2, <2>1, <2>2, <2>3 DEF Bounded
<1>4. CASE Cardinality(D) = CacheSize
  <2>1. D # {}
    BY <1>1, <1>4, FS_EmptySet
  <2>2. PICK f \in D : {j \in D : IsFirst(c, j)} = {f}
    BY <1>1, <2>1, FirstKey
  <2>3. Evicted(c) = {f} /\ E = (D \ {f}) \cup {k}
    BY <1>1, <1>4, <2>2 DEF Evicted
  <2>4. IsFiniteSet(D \ {f}) /\ Cardinality(D \ {f}) = Cardinality(D) - 1
    BY <1>1, <2>2, FS_RemoveElement
  <2>5. /\ IsFiniteSet((D \ {f}) \cup {k})
        /\ Cardinality((D \ {f}) \cup {k}) =
              IF k \in D \ {f} THEN Cardinality(D \ {f}) ELSE Cardinality(D \ {f}) + 1
    BY <2>4, FS_AddElement
  <2>6. Cardinality(E) <= CacheSize
    BY <1>1, <1>4, <2>3, <2>4, <2>5
  <2>7. \A j \in D \ E : j = f /\ IsFirst(c, f)
    BY <2>2, <2>3
  <2> QED BY <1>1, <1>2, <1>4, <2>3, <2>5, <2>6, <2>7 DEF Bounded
<1> QED BY <1>1, <1>3, <1>4

(* remove takes out the key and nothing else.                              *)
LEMMA RemoveFacts ==
  ASSUME NEW c, Bounded(c), NEW k
  PROVE  /\ Bounded(Remove(c, k))
         /\ DOMAIN Remove(c, k) = DOMAIN c \ {k}
         /\ \A j \in DOMAIN Remove(c, k) : Remove(c, k)[j] = c[j]
<1>1. /\ DOMAIN Remove(c, k) = DOMAIN c \ {k}
      /\ \A j \in DOMAIN Remove(c, k) : Remove(c, k)[j] = c[j]
  BY DEF Remove
<1>2. CASE k \in DOMAIN c
  <2>1. IsFiniteSet(DOMAIN c) /\ Cardinality(DOMAIN c) \in Nat /\ CacheSize \in Nat
    BY FS_CardinalityType, CacheAssumption DEF Bounded
  <2>2. IsFiniteSet(DOMAIN c \ {k}) /\ Cardinality(DOMAIN c \ {k}) = Cardinality(DOMAIN c) - 1
    BY <1>2, <2>1, FS_RemoveElement
  <2> QED BY <1>1, <2>1, <2>2 DEF Bounded
<1>3. CASE k \notin DOMAIN c
  <2>1. DOMAIN c \ {k} = DOMAIN c
    BY <1>3
  <2> QED BY <1>1, <2>1 DEF Bounded
<1> QED BY <1>2, <1>3

------------------------------------------------------------------------------
(* The inductive invariant.                                                *)

Tips ==
    /\ tip \in [Nets -> Blocks]
    /\ seen \in [Nets -> SUBSET Blocks]
    /\ \A n \in Nets : On(tip[n]) \subseteq seen[n]

(* A header of block k, or of some block at height k, that a P2P client    *)
(* once had.                                                               *)
Genuine(k, e) ==
    /\ e \in [form : Forms \ {"hash"}, of : EverSeen]
    /\ k \in Blocks => e.of = k
    /\ k \in Heights => IsHeader(e) /\ HeightOf(e.of) = k

HeadersGenuine == \A k \in DOMAIN cache \cap (Blocks \cup Heights) : Genuine(k, cache[k])

(* What an answer to call c, with proof p where it needed one, may say.  A *)
(* header asked for by a hash that is no block's is left open here, since  *)
(* what the cache may hold under it is not for these handlers to say.      *)
Right(c, p, e) ==
    CASE c.kind = "header" -> c.arg \in Blocks => Genuine(c.arg, e)
      [] c.kind = "hash"   -> e.of \in EverSeen /\ HeightOf(e.of) = c.arg
      [] c.kind = "best"   -> e.of \in seen[c.net]
      [] c.kind = "verify" -> p.root = Root[p.block] /\ p.block \in EverSeen

Handling(r) ==
    /\ pc[r] \in {"idle", "prove", "best", "lookup", "query", "store", "done", "panicked"}
    /\ pc[r] # "idle" => call[r] \in Calls
    /\ pc[r] = "prove" => call[r].kind = "verify"
    /\ pc[r] = "best" => call[r].kind = "best"
    /\ pc[r] \in {"lookup", "query", "store"} =>
          /\ call[r].kind \in {"header", "hash", "verify"}
          /\ call[r].kind = "verify" => proof[r] \in Proofs
    /\ found[r] \in Blocks \cup {NoBlock}
    /\ pc[r] = "store" =>
          /\ found[r] \in seen[call[r].net]
          /\ IF call[r].kind = "hash" THEN HeightOf(found[r]) = call[r].arg ELSE found[r] = KeyOf(r)
    /\ pc[r] = "done" /\ result[r].status = "ok" => Right(call[r], proof[r], result[r].entry)

Handlings ==
    /\ pc = [r \in Requests |-> pc[r]] /\ found = [r \in Requests |-> found[r]]
    /\ DOMAIN call = Requests /\ DOMAIN proof = Requests /\ DOMAIN result = Requests
    /\ \A r \in Requests : Handling(r)

SpvInv == Tips /\ Bounded(cache) /\ HeadersGenuine /\ Handlings

(* Of SpvRpc alone: nothing else is cached, and therefore no header is     *)
(* answered to a hash that is no block's.                                  *)
OwnKeys ==
    /\ DOMAIN cache \subseteq Blocks \cup Heights
    /\ \A r \in Requests : Answered(r, "header") => call[r].arg \in Blocks

USE DEF p2p, vars

(* What a P2P client has had on its chain it has had ever after.           *)
LEMMA SeenGrows ==
  ASSUME NEW n \in Nets, Tips, P2PMoves(n)
  PROVE  /\ Tips'
         /\ \A m \in Nets : seen[m] \subseteq seen'[m]
         /\ EverSeen \subseteq EverSeen'
<1>1. PICK b \in BlocksOf(n) : /\ tip' = [tip EXCEPT ![n] = b]
                               /\ seen' = [seen EXCEPT ![n] = @ \cup On(b)]
  BY DEF P2PMoves
<1>2. b \in Blocks /\ On(b) \subseteq Blocks
  BY OnChain DEF BlocksOf
<1>3. Tips'
  BY <1>1, <1>2 DEF Tips
<1>4. \A m \in Nets : seen[m] \subseteq seen'[m]
  BY <1>1 DEF Tips
<1> QED BY <1>3, <1>4 DEF EverSeen

(* Blocks on the chain of a tip are known to the P2P client, and a header  *)
(* found by height is of that height.                                      *)
LEMMA BlockFound ==
  ASSUME NEW r \in Requests, Tips, Handling(r), pc[r] = "query", Block(r) # NoBlock
  PROVE  /\ Block(r) \in seen[call[r].net]
         /\ Block(r) \in Blocks
         /\ IF call[r].kind = "hash" THEN HeightOf(Block(r)) = call[r].arg ELSE Block(r) = KeyOf(r)
<1> DEFINE t == tip[call[r].net]
<1>1. call[r] \in Calls /\ call[r].kind \in {"header", "hash", "verify"} /\ call[r].net \in Nets
  BY DEF Handling, Calls
<1>2. t \in Blocks /\ On(t) \subseteq seen[call[r].net] /\ On(t) \subseteq Blocks
  BY <1>1, OnChain DEF Tips
<1>3. CASE call[r].kind = "hash"
  <2>1. KeyOf(r) = call[r].arg /\ call[r].arg \in Nat
    BY <1>1, <1>3, NetAssumption DEF KeyOf, Calls
  <2>2. call[r].arg < Len(Chain[t]) /\ Block(r) = Chain[t][call[r].arg + 1]
    BY <1>3, <2>1 DEF Block
  <2>3. Len(Chain[t]) \in Nat
    BY <1>2, ChainEnds
  <2>4. call[r].arg + 1 \in 1 .. Len(Chain[t])
    BY <2>1, <2>2, <2>3
  <2>5. Block(r) \in On(t) /\ Len(Chain[Block(r)]) = call[r].arg + 1
    BY <1>2, <2>2, <2>4, ChainPrefix DEF On
  <2> QED BY <1>2, <1>3, <2>1, <2>5 DEF HeightOf
<1>4. CASE call[r].kind # "hash"
  BY <1>1, <1>2, <1>4 DEF Block
<1> QED BY <1>3, <1>4

(* The key a handler looks up is a height or a hash, and what it has found *)
(* for a hash shows that it is a block's.                                  *)
LEMMA KeyLookedUp ==
  ASSUME NEW r \in Requests, Handling(r), pc[r] \in {"lookup", "query", "store"}
  PROVE  /\ KeyOf(r) \in Keys
         /\ call[r].kind = "hash" => KeyOf(r) \in Heights /\ KeyOf(r) = call[r].arg /\ KeyOf(r) \notin Blocks
         /\ call[r].kind # "hash" => KeyOf(r) \in Blocks \cup OtherHashes /\ KeyOf(r) \notin Heights
         /\ call[r].kind = "header" => KeyOf(r) = call[r].arg
         /\ call[r].kind = "verify" => KeyOf(r) = proof[r].block /\ KeyOf(r) \in Blocks
<1>1. call[r] \in Calls /\ call[r].kind \in {"header", "hash", "verify"}
  BY DEF Handling
<1>2. CASE call[r].kind = "header"
  BY <1>1, <1>2, NetAssumption DEF KeyOf, Calls
<1>3. CASE call[r].kind = "hash"
  BY <1>1, <1>3, NetAssumption DEF KeyOf, Calls
<1>4. CASE call[r].kind = "verify"
  <2>1. proof[r] \in Proofs
    BY <1>4 DEF Handling
  <2>2. proof[r].block \in Blocks
    BY <2>1 DEF Proofs
  <2> QED BY <1>4, <2>2, NetAssumption DEF KeyOf
<1> QED BY <1>1, <1>2, <1>3, <1>4

(* At the start the cache is empty and no request has been made.           *)
LEMMA InitSpv == ASSUME Init PROVE SpvInv /\ OwnKeys
<1>1. tip \in [Nets -> Blocks] /\ seen = [n \in Nets |-> On(tip[n])]
  BY DEF Init
<1>2. \A n \in Nets : On(tip[n]) \subseteq Blocks
  BY <1>1, OnChain
<1>3. Tips
  BY <1>1, <1>2 DEF Tips
<1>4. DOMAIN cache = {}
  BY DEF Init, EmptyCache
<1>5. Bounded(cache) /\ HeadersGenuine /\ OwnKeys
  BY <1>4, FS_EmptySet, CacheAssumption DEF Bounded, HeadersGenuine, OwnKeys, Answered, Init
<1>6. Handlings
  BY DEF Init, Handlings, Handling, NoCall, NoProof, NoResult
<1> QED BY <1>3, <1>5, <1>6 DEF SpvInv

(* A handler that does nothing is not affected by what the P2P clients     *)
(* learn.                                                                  *)
LEMMA HandlingKept ==
  ASSUME NEW q \in Requests, Handling(q), \A m \in Nets : seen[m] \subseteq seen'[m],
         EverSeen \subseteq EverSeen',
         pc'[q] = pc[q], call'[q] = call[q], proof'[q] = proof[q], found'[q] = found[q],
         result'[q] = result[q]
  PROVE  Handling(q)'
<1>1. pc[q] # "idle" => call[q] \in Calls /\ call[q].net \in Nets
  BY DEF Handling, Calls
<1>3. KeyOf(q)' = KeyOf(q)
  BY DEF KeyOf
<1>4. ASSUME pc[q] = "done", result[q].status = "ok"
      PROVE  Right(call[q], proof[q], result[q].entry)'
  <2>1. Right(call[q], proof[q], result[q].entry) /\ call[q] \in Calls /\ call[q].net \in Nets
    BY <1>1, <1>4 DEF Handling
  <2>2. call[q].kind \in {"header", "hash", "best", "verify"}
    BY <2>1 DEF Calls
  <2> QED BY <2>1, <2>2 DEF Right, Genuine, HeightOf, IsHeader
<1>5. pc[q] = "store" =>
          /\ found[q] \in seen'[call[q].net]
          /\ IF call[q].kind = "hash" THEN HeightOf(found[q]) = call[q].arg ELSE found[q] = KeyOf(q)
  BY <1>1 DEF Handling
<1>6. pc'[q] = "done" /\ result'[q].status = "ok" => Right(call[q], proof[q], result[q].entry)'
  BY <1>4
<1> QED BY <1>3, <1>5, <1>6 DEF Handling

(* A P2P client that moves changes nothing a handler has relied on.        *)
LEMMA MovesSpv ==
  ASSUME SpvInv, NEW n \in Nets, P2PMoves(n)
  PROVE  SpvInv' /\ cache' = cache
<1>1. /\ Tips' /\ \A m \in Nets : seen[m] \subseteq seen'[m]
      /\ EverSeen \subseteq EverSeen'
  BY SeenGrows DEF SpvInv
<1>2. UNCHANGED <<cache, pc, call, proof, found, result>>
  BY DEF P2PMoves
<1>3. \A q \in Requests : Handling(q)'
  BY <1>1, <1>2, HandlingKept DEF SpvInv, Handlings
<1>4. HeadersGenuine'
  BY <1>1, <1>2 DEF SpvInv, HeadersGenuine, Genuine, HeightOf, IsHeader
<1> QED BY <1>1, <1>2, <1>3, <1>4 DEF SpvInv, Handlings, Bounded

(* A step of one handler that leaves its own part and the cache in order   *)
(* leaves everything in order.                                             *)
LEMMA OneHandler ==
  ASSUME SpvInv, NEW r \in Requests, UNCHANGED p2p,
         pc' = [q \in Requests |-> pc'[q]], found' = [q \in Requests |-> found'[q]],
         DOMAIN call' = Requests, DOMAIN proof' = Requests, DOMAIN result' = Requests,
         \A q \in Requests \ {r} : /\ pc'[q] = pc[q] /\ call'[q] = call[q] /\ proof'[q] = proof[q]
                                   /\ found'[q] = found[q] /\ result'[q] = result[q],
         Handling(r)', Bounded(cache'), HeadersGenuine'
  PROVE  SpvInv'
<1>1. Tips' /\ EverSeen' = EverSeen /\ seen' = seen
  BY DEF SpvInv, Tips, EverSeen
<1>2. \A q \in Requests \ {r} : Handling(q)'
  BY <1>1, HandlingKept DEF SpvInv, Handlings
<1> QED BY <1>1, <1>2 DEF SpvInv, Handlings

(* Taking a request and asking the full node for a proof.                  *)
LEMMA FirstSteps ==
  ASSUME SpvInv, NEW r \in Requests,
         \/ \E c \in Calls : Ask(r, c)
         \/ \E p \in Proofs : Prove(r, p)
         \/ ProveFails(r) \/ ProvePanics(r) \/ Best(r) \/ BestFails(r)
  PROVE  SpvInv' /\ cache' = cache
<1>1. Handling(r) /\ Handlings /\ Tips
  BY DEF SpvInv, Handlings
<1>2. \A c \in Calls : c.kind \in {"header", "hash", "best", "verify"} /\ c.net \in Nets
  BY DEF Calls
<1>3. UNCHANGED <<p2p, cache>>
  BY DEF Ask, Prove, ProveFails, ProvePanics, Best, BestFails
<1>4. EverSeen' = EverSeen /\ seen' = seen /\ Bounded(cache') /\ HeadersGenuine'
  BY <1>3 DEF EverSeen, SpvInv, HeadersGenuine, Genuine, Bounded, HeightOf, IsHeader
<1>5. CASE ProvePanics(r)
  <2>1. Handling(r)'
    BY <1>1, <1>5 DEF ProvePanics, Goto, Handling, Handlings
  <2> QED BY <1>1, <1>3, <1>4, <1>5, <2>1, OneHandler DEF ProvePanics, Goto, Handlings
<1>6. CASE \E c \in Calls : Ask(r, c)
  <2>1. PICK c \in Calls : Ask(r, c)
    BY <1>6
  <2>2. Handling(r)'
    BY <1>1, <1>2, <2>1 DEF Ask, Goto, Handling, Handlings
  <2> QED BY <1>1, <1>3, <1>4, <2>1, <2>2, OneHandler DEF Ask, Goto, Handlings
<1>7. CASE \E p \in Proofs : Prove(r, p)
  <2>1. PICK p \in Proofs : Prove(r, p)
    BY <1>7
  <2>2. Handling(r)'
    BY <1>1, <1>7, <2>1 DEF Prove, Goto, Handling, Handlings
  <2> QED BY <1>1, <1>3, <1>4, <2>1, <2>2, OneHandler DEF Prove, Goto, Handlings
<1>8. CASE ProveFails(r) \/ BestFails(r)
  <2>1. Handling(r)'
    BY <1>1, <1>8 DEF ProveFails, BestFails, Respond, Fail, Handling, Handlings
  <2> QED BY <1>1, <1>3, <1>4, <1>8, <2>1, OneHandler DEF ProveFails, BestFails, Respond, Handlings
<1>9. CASE Best(r)
  <2>1. call[r] \in Calls /\ call[r].kind = "best" /\ call[r].net \in Nets /\ pc[r] = "best"
    BY <1>1, <1>2, <1>9 DEF Best, Handling
  <2> DEFINE t == tip[call[r].net]
  <2>2. t \in seen[call[r].net] /\ t \in EverSeen
    BY <1>1, <2>1, OnChain DEF Tips, EverSeen
  <2>3. result'[r] = [status |-> "ok", entry |-> [form |-> "hash", of |-> t]] /\ pc'[r] = "done"
    BY <1>1, <1>9 DEF Best, Respond, Answer, Entry, Handlings
  <2>5. Right(call[r], proof[r], result[r].entry)'
    BY <1>4, <1>9, <2>1, <2>2, <2>3 DEF Right, Best
  <2>6. Handling(r)'
    BY <1>1, <1>9, <2>1, <2>3, <2>5 DEF Best, Handling, Handlings
  <2> QED BY <1>1, <1>3, <1>4, <1>9, <2>6, OneHandler DEF Best, Respond, Handlings
<1> QED BY <1>3, <1>5, <1>6, <1>7, <1>8, <1>9

(* The answer to a proof is a confirmation or a refusal, and a             *)
(* confirmation only when the roots agree.                                 *)
LEMMA VerdictRight ==
  ASSUME NEW r \in Requests, Handling(r), pc[r] \in {"lookup", "store"}, call[r].kind = "verify",
         KeyOf(r) \in EverSeen
  PROVE  Verdict(r, KeyOf(r)).status = "ok" => Right(call[r], proof[r], Verdict(r, KeyOf(r)).entry)
<1>1. KeyOf(r) = proof[r].block
  BY KeyLookedUp
<1>2. CASE proof[r].root = Root[KeyOf(r)]
  BY <1>1, <1>2 DEF Right
<1>3. CASE proof[r].root # Root[KeyOf(r)]
  BY <1>3 DEF Verdict, Fail
<1> QED BY <1>2, <1>3

(* A lookup answers with what the cache genuinely holds.                   *)
LEMMA HitSpv ==
  ASSUME SpvInv, NEW r \in Requests, Hit(r)
  PROVE  SpvInv' /\ cache' = cache
<1>1. Handling(r) /\ Handlings /\ Tips /\ pc[r] = "lookup"
  BY DEF SpvInv, Handlings, Hit
<1>2. call[r] \in Calls /\ call[r].kind \in {"header", "hash", "verify"}
  BY <1>1 DEF Handling
<1>3. UNCHANGED <<p2p, cache, call, proof, found>> /\ Holds(cache, KeyOf(r))
  BY DEF Hit
<1>4. EverSeen' = EverSeen /\ seen' = seen /\ Bounded(cache') /\ HeadersGenuine'
  BY <1>3 DEF EverSeen, SpvInv, HeadersGenuine, Genuine, Bounded, HeightOf, IsHeader
<1> DEFINE e == cache[KeyOf(r)]
<1>6. KeyOf(r) \in Blocks \cup Heights => Genuine(KeyOf(r), e)
  BY <1>3 DEF SpvInv, HeadersGenuine, Holds
<1>8. pc'[r] = "done" /\ result'[r] = IF call[r].kind # "verify" THEN Answer(e)
                                     ELSE IF IsHeader(e) THEN Verdict(r, e.of) ELSE Fail("undecodable")
  BY <1>1 DEF Hit, Respond, Handlings
<1>9. result'[r].status = "ok" => Right(call[r], proof[r], result'[r].entry)
  <2>1. CASE call[r].kind # "verify"
    <3>1. result'[r] = [status |-> "ok", entry |-> e]
      BY <1>8, <2>1 DEF Answer
    <3>2. Right(call[r], proof[r], e)
      BY <1>1, <1>2, <1>6, <2>1, KeyLookedUp DEF Right, Genuine
    <3> QED BY <3>1, <3>2
  <2>2. CASE call[r].kind = "verify" /\ IsHeader(e)
    <3>1. e.of = KeyOf(r) /\ e.of \in EverSeen
      BY <1>1, <1>6, <2>2, KeyLookedUp DEF Genuine
    <3>2. KeyOf(r) \in EverSeen /\ result'[r] = Verdict(r, KeyOf(r))
      BY <1>8, <2>2, <3>1
    <3> QED BY <1>1, <2>2, <3>2, VerdictRight
  <2>3. CASE call[r].kind = "verify" /\ ~IsHeader(e)
    BY <1>8, <2>3 DEF Fail
  <2> QED BY <2>1, <2>2, <2>3
<1>10. result'[r].status = "ok" => Right(call[r], proof[r], result[r].entry)'
  BY <1>3, <1>4, <1>9 DEF Right, Genuine, HeightOf, IsHeader
<1>11. Handling(r)'
  BY <1>1, <1>3, <1>8, <1>10 DEF Handling
<1> QED BY <1>1, <1>3, <1>4, <1>11, OneHandler DEF Hit, Respond, Handlings

(* A miss leads to a query, and a query to an error or to a header that is *)
(* the one asked for.                                                      *)
LEMMA QuerySpv ==
  ASSUME SpvInv, NEW r \in Requests, Miss(r) \/ Query(r) \/ QueryFails(r)
  PROVE  SpvInv' /\ cache' = cache
<1>1. Handling(r) /\ Handlings /\ Tips
  BY DEF SpvInv, Handlings
<1>2. UNCHANGED <<p2p, cache, call, proof>>
  BY DEF Miss, Query, QueryFails
<1>3. EverSeen' = EverSeen /\ seen' = seen /\ Bounded(cache') /\ HeadersGenuine'
  BY <1>2 DEF EverSeen, SpvInv, HeadersGenuine, Genuine, Bounded, HeightOf, IsHeader
<1>4. KeyOf(r)' = KeyOf(r)
  BY <1>2, <1>3 DEF KeyOf
<1>5. CASE Miss(r)
  <2>1. Handling(r)'
    BY <1>1, <1>2, <1>4, <1>5 DEF Miss, Goto, Handling, Handlings
  <2> QED BY <1>1, <1>2, <1>3, <1>5, <2>1, OneHandler DEF Miss, Goto, Handlings
<1>6. CASE Query(r) /\ Block(r) # NoBlock
  <2>1. /\ Block(r) \in seen[call[r].net]
        /\ Block(r) \in Blocks
        /\ IF call[r].kind = "hash" THEN HeightOf(Block(r)) = call[r].arg ELSE Block(r) = KeyOf(r)
    BY <1>1, <1>6, BlockFound DEF Query
  <2>2. found' = [found EXCEPT ![r] = Block(r)] /\ Goto(r, "store") /\ UNCHANGED result /\ pc[r] = "query"
    BY <1>6 DEF Query
  <2>3. Handling(r)'
    BY <1>1, <1>2, <1>3, <1>4, <2>1, <2>2 DEF Goto, Handling, Handlings, HeightOf
  <2> QED BY <1>1, <1>2, <1>3, <2>2, <2>3, OneHandler DEF Goto, Handlings
<1>7. CASE QueryFails(r) \/ (Query(r) /\ Block(r) = NoBlock)
  <2>1. /\ pc[r] = "query" /\ UNCHANGED found
        /\ \E why \in {"p2p", "unknown"} : Respond(r, Fail(why))
    BY <1>7 DEF QueryFails, Query
  <2>2. pc'[r] = "done" /\ result'[r].status = "error"
    BY <1>1, <2>1 DEF Respond, Fail, Handlings
  <2>3. Handling(r)'
    BY <1>1, <1>2, <1>4, <2>1, <2>2 DEF Handling, Handlings
  <2> QED BY <1>1, <1>2, <1>3, <2>1, <2>3, OneHandler DEF Respond, Handlings
<1> QED BY <1>2, <1>5, <1>6, <1>7

(* What is inserted under the key is a header that belongs there.          *)
LEMMA StoreSpv ==
  ASSUME SpvInv, NEW r \in Requests, Store(r)
  PROVE  SpvInv' /\ cache' = Insert(cache, KeyOf(r), Entry(StoredForm(r), found[r]))
<1> DEFINE k == KeyOf(r)
           e == Entry(StoredForm(r), found[r])
<1>1. Handling(r) /\ Handlings /\ Tips /\ pc[r] = "store" /\ Bounded(cache)
  BY DEF SpvInv, Handlings, Store
<1>2. /\ call[r] \in Calls /\ call[r].kind \in {"header", "hash", "verify"} /\ call[r].net \in Nets
      /\ found[r] \in seen[call[r].net] /\ found[r] \in EverSeen
  BY <1>1 DEF Handling, Calls, EverSeen
<1>3. UNCHANGED <<p2p, call, proof, found>> /\ cache' = Insert(cache, k, e)
  BY DEF Store
<1>4. EverSeen' = EverSeen /\ seen' = seen
  BY <1>3 DEF EverSeen
<1>6. Genuine(k, e)
  BY <1>1, <1>2, KeyLookedUp, NetAssumption DEF Genuine, Handling, Entry, StoredForm, Forms, IsHeader
<1>7. /\ k \in Keys /\ Bounded(cache') /\ cache'[k] = e
      /\ \A j \in DOMAIN cache' \ {k} : j \in DOMAIN cache /\ cache'[j] = cache[j]
  BY <1>1, <1>3, KeyLookedUp, InsertFacts
<1>8. \A j \in DOMAIN cache' \cap (Blocks \cup Heights) : Genuine(j, cache'[j])
  BY <1>6, <1>7 DEF SpvInv, HeadersGenuine
<1>9. HeadersGenuine'
  BY <1>4, <1>8 DEF HeadersGenuine, Genuine, HeightOf, IsHeader
<1>10. pc'[r] = "done" /\ result'[r] = CASE call[r].kind = "header" -> Answer(e)
                                         [] call[r].kind = "hash"   -> Answer(Entry("hash", found[r]))
                                         [] call[r].kind = "verify" -> Verdict(r, found[r])
  BY <1>1 DEF Store, Respond, Handlings
<1>11. result'[r].status = "ok" => Right(call[r], proof[r], result'[r].entry)
  <2>1. CASE call[r].kind = "header"
    <3>1. result'[r] = [status |-> "ok", entry |-> e]
      BY <1>10, <2>1 DEF Answer
    <3>2. k = call[r].arg
      BY <1>1, <2>1, KeyLookedUp
    <3> QED BY <1>6, <2>1, <3>1, <3>2 DEF Right
  <2>2. CASE call[r].kind = "hash"
    <3>1. result'[r] = [status |-> "ok", entry |-> [form |-> "hash", of |-> found[r]]]
      BY <1>10, <2>2 DEF Answer, Entry
    <3>2. HeightOf(found[r]) = call[r].arg
      BY <1>1, <2>2 DEF Handling
    <3> QED BY <1>2, <2>2, <3>1, <3>2 DEF Right
  <2>3. CASE call[r].kind = "verify"
    <3>1. result'[r] = Verdict(r, k) /\ k \in EverSeen
      BY <1>1, <1>2, <1>10, <2>3 DEF Handling
    <3> QED BY <1>1, <2>3, <3>1, VerdictRight
  <2> QED BY <1>2, <2>1, <2>2, <2>3
<1>12. result'[r].status = "ok" => Right(call[r], proof[r], result[r].entry)'
  BY <1>3, <1>4, <1>11 DEF Right, Genuine, HeightOf, IsHeader
<1>13. Handling(r)'
  BY <1>1, <1>3, <1>10, <1>12 DEF Handling
<1>14. pc' = [q \in Requests |-> pc'[q]] /\ DOMAIN result' = Requests
       /\ \A q \in Requests \ {r} : pc'[q] = pc[q] /\ result'[q] = result[q]
  BY <1>1 DEF Store, Respond, Handlings
<1> QED BY <1>1, <1>3, <1>7, <1>9, <1>13, <1>14, OneHandler DEF Handlings

(* Every step keeps the invariant, and changes the cache only by inserting *)
(* a header under the key of a handler.                                    *)
LEMMA StepSpv ==
  ASSUME SpvInv, Step
  PROVE  /\ SpvInv'
         /\ \/ cache' = cache
            \/ \E k \in Blocks \cup Heights : \E e : cache' = Insert(cache, k, e)
<1>1. ASSUME NEW n \in Nets, P2PMoves(n) PROVE SpvInv' /\ cache' = cache
  BY <1>1, MovesSpv
<1>2. ASSUME NEW r \in Requests, Handler(r)
      PROVE  /\ SpvInv'
             /\ \/ cache' = cache
                \/ \E k \in Blocks \cup Heights : \E e : cache' = Insert(cache, k, e)
  <2>1. CASE Store(r)
    <3>1. SpvInv' /\ cache' = Insert(cache, KeyOf(r), Entry(StoredForm(r), found[r]))
      BY <2>1, StoreSpv
    <3>2. Handling(r) /\ pc[r] = "store" /\ Tips
      BY <2>1 DEF SpvInv, Handlings, Store
    <3>3. KeyOf(r) \in Blocks \cup Heights
      BY <3>2, KeyLookedUp DEF Handling, Calls, Tips
    <3> QED BY <3>1, <3>3
  <2>2. CASE Hit(r)
    BY <2>2, HitSpv
  <2>3. CASE Miss(r) \/ Query(r) \/ QueryFails(r)
    BY <2>3, QuerySpv
  <2>4. CASE \/ \E c \in Calls : Ask(r, c)
             \/ \E p \in Proofs : Prove(r, p)
             \/ ProveFails(r) \/ ProvePanics(r) \/ Best(r) \/ BestFails(r)
    BY <2>4, FirstSteps
  <2> QED BY <1>2, <2>1, <2>2, <2>3, <2>4 DEF Handler
<1> QED BY <1>1, <1>2 DEF Step

(* To a hash that is no block's, an answer is what the cache holds under   *)
(* it.                                                                     *)
LEMMA HeaderAnswers ==
  ASSUME SpvInv, Step, NEW r \in Requests, Answered(r, "header")', call'[r].arg \notin Blocks
  PROVE  \/ Answered(r, "header") /\ call'[r] = call[r] /\ result'[r] = result[r]
         \/ /\ call'[r].arg \in DOMAIN cache /\ call'[r].arg \in OtherHashes
            /\ result'[r] = Answer(cache[call'[r].arg]) /\ cache' = cache
<1>1. Handlings /\ Tips /\ Handling(r)
  BY DEF SpvInv, Handlings
<1>2. pc'[r] = "done" /\ call'[r].kind = "header" /\ result'[r].status = "ok"
  BY DEF Answered
<1>3. CASE UNCHANGED <<pc, call, result>>
  BY <1>3 DEF Answered
<1>4. ASSUME NEW q \in Requests \ {r}, Handler(q)
      PROVE  Answered(r, "header") /\ call'[r] = call[r] /\ result'[r] = result[r]
  <2>1. pc'[r] = pc[r] /\ call'[r] = call[r] /\ result'[r] = result[r]
    BY <1>1, <1>4 DEF Handlings, Handler, Ask, Prove, ProveFails, ProvePanics, Best, BestFails, Hit, Miss,
                      Query, QueryFails, Store, Goto, Respond
  <2> QED BY <1>2, <2>1 DEF Answered
<1>5. ASSUME Handler(r)
      PROVE  /\ call'[r].arg \in DOMAIN cache /\ call'[r].arg \in OtherHashes
             /\ result'[r] = Answer(cache[call'[r].arg]) /\ cache' = cache
  <2>1. CASE (\E c \in Calls : Ask(r, c)) \/ (\E p \in Proofs : Prove(r, p)) \/ ProvePanics(r) \/ Miss(r)
    BY <1>1, <1>2, <2>1 DEF Ask, Prove, ProvePanics, Miss, Goto, Handlings
  <2>2. CASE ProveFails(r) \/ BestFails(r) \/ QueryFails(r)
    BY <1>1, <1>2, <2>2 DEF ProveFails, BestFails, QueryFails, Respond, Fail, Handlings
  <2>3. CASE Best(r)
    BY <1>1, <1>2, <2>3 DEF Best, Handling
  <2>4. CASE Query(r)
    BY <1>1, <1>2, <2>4 DEF Query, Goto, Respond, Fail, Handlings
  <2>5. CASE Store(r)
    <3>1. call' = call /\ pc[r] = "store" /\ found[r] \in Blocks
      BY <1>1, <2>5, NetAssumption DEF Store, Handling, Tips, Calls
    <3>2. found[r] = call[r].arg
      BY <1>1, <1>2, <3>1, KeyLookedUp DEF Handling
    <3> QED BY <3>1, <3>2
  <2>6. CASE Hit(r)
    <3>1. call' = call /\ cache' = cache /\ pc[r] = "lookup" /\ Holds(cache, KeyOf(r))
      BY <2>6 DEF Hit
    <3>2. KeyOf(r) = call[r].arg /\ KeyOf(r) \in Blocks \cup OtherHashes
      BY <1>1, <1>2, <3>1, KeyLookedUp
    <3>3. result'[r] = Answer(cache[KeyOf(r)])
      BY <1>1, <1>2, <2>6, <3>1 DEF Hit, Respond, Handlings
    <3> QED BY <3>1, <3>2, <3>3 DEF Holds
  <2> QED BY <1>5, <2>1, <2>2, <2>3, <2>4, <2>5, <2>6 DEF Handler
<1>6. ASSUME NEW n \in Nets, P2PMoves(n) PROVE UNCHANGED <<pc, call, result>>
  BY <1>6 DEF P2PMoves
<1> QED BY <1>3, <1>4, <1>5, <1>6 DEF Step

(* Nothing happens to the invariant while nothing happens.                 *)
LEMMA QuietSpv ==
  ASSUME SpvInv, UNCHANGED vars
  PROVE  SpvInv'
<1>1. EverSeen' = EverSeen /\ Tips' /\ Bounded(cache') /\ HeadersGenuine'
  BY DEF EverSeen, SpvInv, Tips, HeadersGenuine, Genuine, Bounded, HeightOf, IsHeader
<1>2. \A q \in Requests : Handling(q)'
  BY <1>1, HandlingKept DEF SpvInv, Handlings
<1> QED BY <1>1, <1>2 DEF SpvInv, Handlings

(* The steps of the endpoints alone.                                       *)
LEMMA NextSpv ==
  ASSUME SpvInv, OwnKeys, [Next]_vars
  PROVE  SpvInv' /\ OwnKeys'
<1>1. CASE Step
  <2>1. SpvInv' /\ (\/ cache' = cache
                    \/ \E k \in Blocks \cup Heights : \E e : cache' = Insert(cache, k, e))
    BY <1>1, StepSpv
  <2>2. \A k \in Blocks \cup Heights : \A e : DOMAIN Insert(cache, k, e) \subseteq DOMAIN cache \cup {k}
    BY DEF Insert
  <2>3. ASSUME NEW r \in Requests, Answered(r, "header")' PROVE call'[r].arg \in Blocks
    BY <1>1, <2>3, HeaderAnswers, NetAssumption DEF OwnKeys
  <2> QED BY <2>1, <2>2, <2>3 DEF OwnKeys
<1>2. CASE UNCHANGED vars
  BY <1>2, QuietSpv DEF OwnKeys, Answered
<1> QED BY <1>1, <1>2 DEF Next, Quiet

(* The invariant implies each of the properties.                           *)
LEMMA InvImplies ==
  ASSUME SpvInv
  PROVE  /\ CacheBounded /\ ConfirmedByP2P
         /\ OwnKeys => TypeOK /\ CacheCoherent /\ HeaderAsAsked
<1>1. EverSeen \subseteq Blocks
  BY DEF EverSeen, SpvInv, Tips
<1>2. OwnKeys => TypeOK
  <2>1. ASSUME OwnKeys PROVE /\ DOMAIN cache \subseteq Keys
                             /\ \A k \in DOMAIN cache : cache[k] \in EntryType
    BY <1>1, <2>1 DEF SpvInv, Bounded, HeadersGenuine, Genuine, EntryType, OwnKeys
  <2>2. ASSUME NEW r \in Requests
        PROVE  /\ pc[r] \in {"idle", "prove", "best", "lookup", "query", "store", "done", "panicked"}
               /\ found[r] \in Blocks \cup {NoBlock}
               /\ pc[r] # "idle" => call[r] \in Calls
    BY DEF SpvInv, Handlings, Handling
  <2>3. /\ DOMAIN call = Requests /\ DOMAIN proof = Requests /\ DOMAIN result = Requests
        /\ pc = [r \in Requests |-> pc[r]] /\ found = [r \in Requests |-> found[r]]
    BY DEF SpvInv, Handlings
  <2> QED BY <2>1, <2>2, <2>3 DEF TypeOK, SpvInv, Tips
<1>3. OwnKeys => CacheCoherent
  BY NetAssumption DEF SpvInv, HeadersGenuine, Genuine, CacheCoherent, OwnKeys
<1>4. ConfirmedByP2P /\ (OwnKeys => HeaderAsAsked)
  <2>1. ASSUME NEW r \in Requests, NEW kind \in {"header", "verify"}, Answered(r, kind)
        PROVE  Right(call[r], proof[r], result[r].entry) /\ call[r].kind = kind
    BY <2>1 DEF Answered, SpvInv, Handlings, Handling
  <2>2. ConfirmedByP2P
    BY <2>1 DEF ConfirmedByP2P, Right
  <2>3. OwnKeys => HeaderAsAsked
    BY <2>1 DEF HeaderAsAsked, Right, Genuine, OwnKeys
  <2> QED BY <2>2, <2>3
<1> QED BY <1>2, <1>3, <1>4 DEF SpvInv, Bounded, CacheBounded

(* The invariant holds of every behaviour of the endpoints.                *)
THEOREM SpvInvHolds == Spec => [](SpvInv /\ OwnKeys)
<1>1. Init => SpvInv /\ OwnKeys
  BY InitSpv
<1>2. SpvInv /\ OwnKeys /\ [Next]_vars => (SpvInv /\ OwnKeys)'
  BY NextSpv
<1> QED BY <1>1, <1>2, PTL DEF Spec

(* Every variable keeps its type: in particular the P2P clients' tips are  *)
(* blocks and the cache holds known forms of known blocks under its keys.  *)
THEOREM TypeCorrect == Spec => []TypeOK
<1>1. SpvInv /\ OwnKeys => TypeOK
  BY InvImplies
<1> QED BY <1>1, SpvInvHolds, PTL

(* insert (utils.rs) holds the cache to its size, however many handlers    *)
(* and networks insert at once.                                            *)
THEOREM CacheKeepsItsSize == Spec => []CacheBounded
<1>1. SpvInv /\ OwnKeys => CacheBounded
  BY InvImplies
<1> QED BY <1>1, SpvInvHolds, PTL

(* Whatever reorganisations the P2P clients follow between a query and the *)
(* insertion, an entry is about the block or of the height it is under.    *)
THEOREM CacheStaysCoherent == Spec => []CacheCoherent
<1>1. SpvInv /\ OwnKeys => CacheCoherent
  BY InvImplies
<1> QED BY <1>1, SpvInvHolds, PTL

(* verify_tx says yes only on a proof that leads to the Merkle root of a   *)
(* block a P2P client has had on its chain.                                *)
THEOREM ConfirmationsFromP2P == Spec => []ConfirmedByP2P
<1>1. SpvInv /\ OwnKeys => ConfirmedByP2P
  BY InvImplies
<1> QED BY <1>1, SpvInvHolds, PTL

(* While no other endpoint uses the cache, getblockheader answers with the *)
(* header of the hash in the request, from the P2P client or the cache,    *)
(* and answers nothing to a hash that is no block's.                       *)
THEOREM HeadersAsAsked == Spec => []HeaderAsAsked
<1>1. SpvInv /\ OwnKeys => HeaderAsAsked
  BY InvImplies
<1> QED BY <1>1, SpvInvHolds, PTL

(* When one network is served, the block that getblockhash or              *)
(* getbestblockhash names is one that network has had on its chain, of the *)
(* height that was asked for.  With two networks this fails                *)
(* (MCSpvRpcNetwork.cfg).                                                  *)
THEOREM HashesOfTheNetwork ==
  ASSUME NEW n, Nets = {n}
  PROVE  Spec => []HashOfOwnNetwork
<1>1. SpvInv => HashOfOwnNetwork
  <2> SUFFICES ASSUME SpvInv, NEW r \in Requests, Answered(r, "hash") \/ Answered(r, "best")
               PROVE  /\ result[r].entry.of \in seen[call[r].net]
                      /\ call[r].kind = "hash" => HeightOf(result[r].entry.of) = call[r].arg
    BY DEF HashOfOwnNetwork
  <2>1. /\ call[r] \in Calls
        /\ Right(call[r], proof[r], result[r].entry) /\ call[r].kind \in {"hash", "best"}
    BY DEF Answered, SpvInv, Handlings, Handling
  <2>2. call[r].net \in Nets
    BY <2>1 DEF Calls
  <2>3. call[r].net = n /\ EverSeen = seen[n]
    BY <2>2 DEF EverSeen
  <2> QED BY <2>1, <2>3 DEF Right
<1> QED BY <1>1, SpvInvHolds, PTL
===============================================================================
