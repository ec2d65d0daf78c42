------------------------------- MODULE SpvRpc --------------------------------
(***************************************************************************)
(* The Bitcoin and Dogecoin endpoints: getblockheader and getblockhash     *)
(* (btcrpc/mod.rs) and verify_tx (btcrpc/proof.rs, chainstate.rs), run as  *)
(* concurrent handlers over one response cache, the P2P client of each     *)
(* network and the full node that supplies Merkle proofs.                  *)
(*                                                                         *)
(* A handler looks its key up, asks the P2P client on a miss, inserts what *)
(* it got and responds; other handlers run between these steps, and the    *)
(* P2P client may follow a reorganisation.  Header entries are keyed by    *)
(* block hash, getblockhash entries by height; all networks share the keys.*)
(* A header may be asked for by any hash, also one that is no block's.     *)
(***************************************************************************)
EXTENDS BlockTree, SimpleCache

CONSTANTS
    Nets,           \* the networks served, among "btc" and "doge"
    NetOf,          \* NetOf[b]: the network block b belongs to
    Root,           \* Root[b]: the Merkle root in the header of b
    Roots,          \* the roots a proof may lead to
    Heights,        \* the heights that are asked for
    OtherHashes,    \* hashes that are no block's but asked for as if they were
    Txids,
    Requests,       \* requests; each is made once, by a handler of its own
    NoBlock

(* A height is a key of eight bytes, a hash one of thirty-two.             *)
ASSUME NetAssumption ==
    /\ NetOf \in [Blocks -> Nets]
    /\ Root \in [Blocks -> Roots]
    /\ \A b \in Blocks : Prev[b] # Null => NetOf[Prev[b]] = NetOf[b]
    /\ Heights \subseteq Nat /\ Heights \cap Blocks = {}
    /\ OtherHashes \cap (Heights \cup Blocks) = {}
    /\ Heights \cup Blocks \cup OtherHashes \subseteq Keys
    /\ NoBlock \notin Blocks

VARIABLES
    tip,        \* the tip of each P2P client
    seen,       \* history: the blocks that ever were on a P2P client's chain
    cache,      \* ChainsState.response_cache
    pc,         \* where the handler of each request stands
    call,       \* what each request asks for
    proof,      \* the Merkle block the full node supplied
    found,      \* the block whose header the P2P client supplied
    result      \* the response

p2p  == <<tip, seen>>
vars == <<p2p, cache, pc, call, proof, found, result>>

BlocksOf(n) == {b \in Blocks : NetOf[b] = n}

(* A cached or returned value: the block it is about and its form.  The    *)
(* header forms are JSON objects; "verbose" has a height besides, "hex" is *)
(* the serialised header in a string, "hash" the block hash.               *)
Forms == {"verbose", "plain", "hex", "hash"}

(* Only the object forms deserialise to a BlockHeader.                     *)
IsHeader(e) == e.form \in {"verbose", "plain"}

Calls ==
    [kind : {"header"}, net : Nets, arg : Blocks \cup OtherHashes, verbose : BOOLEAN]
        \cup [kind : {"hash"}, net : Nets, arg : Heights, verbose : {FALSE}]
        \cup [kind : {"best"}, net : Nets, arg : {NoBlock}, verbose : {FALSE}]
        \cup [kind : {"verify"}, net : Nets, arg : Txids, verbose : {FALSE}]

(* What extract_matches finds in a Merkle block: the header's hash, the    *)
(* root the partial tree leads to and the transactions it marks.  The full *)
(* node may take a block of another network than the request's.            *)
Proofs == [block : Blocks, root : Roots, txs : SUBSET Txids]

NoCall   == [kind |-> "none"]
NoProof  == [block |-> NoBlock]
NoResult == [status |-> "none"]
Answer(e)  == [status |-> "ok", entry |-> e]
Fail(why)  == [status |-> "error", why |-> why]

Init ==
    /\ tip \in {f \in [Nets -> Blocks] : \A n \in Nets : NetOf[f[n]] = n /\ Prev[f[n]] = Null}
    /\ seen = [n \in Nets |-> On(tip[n])]
    /\ cache = EmptyCache
    /\ pc = [r \in Requests |-> "idle"]
    /\ call = [r \in Requests |-> NoCall]
    /\ proof = [r \in Requests |-> NoProof]
    /\ found = [r \in Requests |-> NoBlock]
    /\ result = [r \in Requests |-> NoResult]

(* The P2P client adopts a chain with more work.                           *)
P2PMoves(n) ==
    /\ \E b \in BlocksOf(n) :
          /\ Work[b] > Work[tip[n]]
          /\ tip' = [tip EXCEPT ![n] = b]
          /\ seen' = [seen EXCEPT ![n] = @ \cup On(b)]
    /\ UNCHANGED <<cache, pc, call, proof, found, result>>

------------------------------------------------------------------------------
Goto(r, l) == pc' = [pc EXCEPT ![r] = l]

Respond(r, res) == /\ pc' = [pc EXCEPT ![r] = "done"]
                   /\ result' = [result EXCEPT ![r] = res]

Ask(r, c) ==
    /\ pc[r] = "idle"
    /\ call' = [call EXCEPT ![r] = c]
    /\ Goto(r, CASE c.kind = "verify" -> "prove"
                  [] c.kind = "best"   -> "best"
                  [] OTHER             -> "lookup")
    /\ UNCHANGED <<p2p, cache, proof, found, result>>

(* getbestblockhash: the tip of the moment, which is never cached.         *)
Best(r) ==
    /\ pc[r] = "best"
    /\ Respond(r, Answer(Entry("hash", tip[call[r].net])))
    /\ UNCHANGED <<p2p, cache, call, proof, found>>

BestFails(r) ==
    /\ pc[r] = "best"
    /\ Respond(r, Fail("p2p"))
    /\ UNCHANGED <<p2p, cache, call, proof, found>>

(* fetch_proof_and_verify: the full node's gettxoutproof.                  *)
Prove(r, p) ==
    /\ pc[r] = "prove"
    /\ proof' = [proof EXCEPT ![r] = p]
    /\ Goto(r, "lookup")
    /\ UNCHANGED <<p2p, cache, call, found, result>>

(* No proof, or one whose partial tree does not lead to any root.          *)
ProveFails(r) ==
    /\ pc[r] = "prove"
    /\ Respond(r, Fail("proof"))
    /\ UNCHANGED <<p2p, cache, call, proof, found>>

(* The full node did not send one reply to the one request: the assertion  *)
(* of request (daemon.rs) ends the handler, and nothing is answered.       *)
ProvePanics(r) ==
    /\ pc[r] = "prove"
    /\ Goto(r, "panicked")
    /\ UNCHANGED <<p2p, cache, call, proof, found, result>>

KeyOf(r) == IF call[r].kind = "verify" THEN proof[r].block ELSE call[r].arg

(* Mutant of Verdict: the roots are not compared.                          *)
VerdictUnchecked(r, b) == Answer(Entry("hash", proof[r].block))

(* The root of the proof against the one in the header of b.               *)
Verdict(r, b) ==
    IF proof[r].root = Root[b] THEN Answer(Entry("hash", proof[r].block)) ELSE Fail("root")

(* response_cache.get: a hit is answered as it was stored, except that     *)
(* verify_tx needs a header to compare with.                               *)
Hit(r) ==
    /\ pc[r] = "lookup"
    /\ Holds(cache, KeyOf(r))
    /\ LET e == cache[KeyOf(r)]
       IN  Respond(r, IF call[r].kind # "verify" THEN Answer(e)
                      ELSE IF IsHeader(e) THEN Verdict(r, e.of)
                      ELSE Fail("undecodable"))
    /\ UNCHANGED <<p2p, cache, call, proof, found>>

Miss(r) ==
    /\ pc[r] = "lookup"
    /\ ~Holds(cache, KeyOf(r))
    /\ Goto(r, "query")
    /\ UNCHANGED <<p2p, cache, call, proof, found, result>>

(* get_block and get_block_by_height of the network's P2P client, which    *)
(* know the blocks of its chain.                                           *)
Block(r) ==
    LET on == Chain[tip[call[r].net]]
    IN  IF call[r].kind = "hash"
        THEN IF KeyOf(r) < Len(on) THEN on[KeyOf(r) + 1] ELSE NoBlock
        ELSE IF KeyOf(r) \in On(tip[call[r].net]) THEN KeyOf(r) ELSE NoBlock

(* Mutants of Query: heights counted from one; the tip in place of a block *)
(* that was not found.                                                     *)
QueryFromOne(r) ==
    /\ pc[r] = "query"
    /\ Block(r) # NoBlock
    /\ found' = [found EXCEPT ![r] =
          IF call[r].kind = "hash" /\ Prev[Block(r)] # Null THEN Prev[Block(r)] ELSE Block(r)]
    /\ Goto(r, "store")
    /\ UNCHANGED <<p2p, cache, call, proof, result>>
QueryOrTip(r) ==
    /\ pc[r] = "query"
    /\ found' = [found EXCEPT ![r] = IF Block(r) = NoBlock THEN tip[call[r].net] ELSE Block(r)]
    /\ Goto(r, "store")
    /\ UNCHANGED <<p2p, cache, call, proof, result>>

(* Mutant of Query: no block found is taken for a block.                   *)
QueryBlindly(r) ==
    /\ pc[r] = "query"
    /\ found' = [found EXCEPT ![r] = Block(r)]
    /\ Goto(r, "store")
    /\ UNCHANGED <<p2p, cache, call, proof, result>>

Query(r) ==
    /\ pc[r] = "query"
    /\ IF Block(r) = NoBlock
       THEN Respond(r, Fail("unknown")) /\ UNCHANGED found
       ELSE /\ found' = [found EXCEPT ![r] = Block(r)]
            /\ Goto(r, "store")
            /\ UNCHANGED result
    /\ UNCHANGED <<p2p, cache, call, proof>>

QueryFails(r) ==
    /\ pc[r] = "query"
    /\ Respond(r, Fail("p2p"))
    /\ UNCHANGED <<p2p, cache, call, proof, found>>

(* What is inserted: a header in the form that was asked for; getblockhash *)
(* inserts the header, not the hash.                                       *)
StoredForm(r) ==
    IF call[r].kind = "header"
    THEN IF call[r].verbose THEN "verbose" ELSE "hex"
    ELSE "plain"

(* response_cache.insert and the response.                                 *)
Store(r) ==
    /\ pc[r] = "store"
    /\ LET e == Entry(StoredForm(r), found[r])
       IN  /\ cache' = Insert(cache, KeyOf(r), e)
           /\ Respond(r, CASE call[r].kind = "header" -> Answer(e)
                           [] call[r].kind = "hash"   -> Answer(Entry("hash", found[r]))
                           [] call[r].kind = "verify" -> Verdict(r, found[r]))
    /\ UNCHANGED <<p2p, call, proof, found>>

Handler(r) ==
    \/ \E c \in Calls : Ask(r, c)
    \/ \E p \in Proofs : Prove(r, p)
    \/ ProveFails(r)
    \/ ProvePanics(r)
    \/ Best(r)
    \/ BestFails(r)
    \/ Hit(r)
    \/ Miss(r)
    \/ Query(r)
    \/ QueryFails(r)
    \/ Store(r)

(* No request is being served.                                             *)
Quiet == (\A r \in Requests : pc[r] \in {"done", "panicked"}) /\ UNCHANGED vars

Step ==
    \/ \E n \in Nets : P2PMoves(n)
    \/ \E r \in Requests : Handler(r)

Next == Step \/ Quiet

Spec == Init /\ [][Next]_vars

------------------------------------------------------------------------------
(* Properties.                                                             *)

EntryType == [form : Forms, of : Blocks]

TypeOK ==
    /\ tip \in [Nets -> Blocks]
    /\ seen \in [Nets -> SUBSET Blocks]
    /\ DOMAIN cache \subseteq Keys
    /\ \A k \in DOMAIN cache : cache[k] \in EntryType
    /\ pc \in [Requests -> {"idle", "prove", "best", "lookup", "query", "store", "done", "panicked"}]
    /\ DOMAIN call = Requests /\ DOMAIN proof = Requests /\ DOMAIN result = Requests
    /\ found \in [Requests -> Blocks \cup {NoBlock}]
    /\ \A r \in Requests : pc[r] # "idle" => call[r] \in Calls

(* However many handlers insert at once, the cache keeps to its size.      *)
CacheBounded == Cardinality(DOMAIN cache) <= CacheSize

EverSeen == UNION {seen[n] : n \in Nets}

HeightOf(b) == Len(Chain[b]) - 1

(* An entry keyed by a hash is about the very block of that hash, one      *)
(* keyed by a height about a block of that height, and each was on the     *)
(* chain of some P2P client when it was asked; the chain may have been     *)
(* given up since, and nothing then takes the entry out.                   *)
CacheCoherent ==
    \A k \in DOMAIN cache :
        /\ cache[k].of \in EverSeen
        /\ k \notin Heights => cache[k].of = k
        /\ k \in Heights => HeightOf(cache[k].of) = k /\ IsHeader(cache[k])

Answered(r, kind) == pc[r] = "done" /\ call[r].kind = kind /\ result[r].status = "ok"

(* Whatever hash it is asked for, getblockheader never answers with        *)
(* anything but the header of that hash, and only with one some P2P client *)
(* has had on its chain.                                                   *)
HeaderAsAsked ==
    \A r \in Requests : Answered(r, "header") =>
        /\ result[r].entry.of = call[r].arg
        /\ call[r].arg \in EverSeen

(* verify_tx confirms a transaction only by a proof that leads to the      *)
(* Merkle root of a block that some P2P client, of any network, has had on *)
(* its chain, whoever put the header into the cache.                       *)
ConfirmedByP2P ==
    \A r \in Requests : Answered(r, "verify") =>
        /\ proof[r].root = Root[proof[r].block]
        /\ proof[r].block \in EverSeen

(* The block that getblockhash and getbestblockhash name, by its hash or,  *)
(* when getblockhash finds it in the cache, by its header, is one that the *)
(* network they are asked of has had on its chain at some time, of the     *)
(* height that was asked for.                                              *)
HashOfOwnNetwork ==
    \A r \in Requests : Answered(r, "hash") \/ Answered(r, "best") =>
        /\ result[r].entry.of \in seen[call[r].net]
        /\ call[r].kind = "hash" => HeightOf(result[r].entry.of) = call[r].arg

(* A correct proof, one that includes the transaction and leads to the     *)
(* root of its block, is not refused because of the form in which another  *)
(* handler left the header in the cache.                                   *)
CorrectProofAccepted ==
    \A r \in Requests :
        /\ pc[r] = "done" /\ call[r].kind = "verify" /\ proof[r] # NoProof
        /\ proof[r].root = Root[proof[r].block] /\ call[r].arg \in proof[r].txs
        => result[r] # Fail("undecodable")

(* A confirmed transaction is one of those the proof includes.             *)
ConfirmedIsIncluded ==
    \A r \in Requests : Answered(r, "verify") => call[r].arg \in proof[r].txs
==============================================================================
