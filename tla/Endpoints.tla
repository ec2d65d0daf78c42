----------------------------- MODULE Endpoints -------------------------------
(***************************************************************************)
(* All endpoints over the one response cache (ChainsState, chainstate.rs): *)
(* the handlers of SpvRpc and those of ChainRpc run concurrently and look  *)
(* up and insert under keys of the same kind, byte strings.  Heights are   *)
(* eight bytes long and Solana signatures sixty-four, but Bitcoin and      *)
(* Dogecoin block hashes and Ethereum and Optimism transaction hashes are  *)
(* all thirty-two: a receipt may be asked for by the hash of a block, and  *)
(* a header by the hash of a transaction.                                  *)
(***************************************************************************)
EXTENDS SpvRpc

CONSTANTS Hashes, Home, NoChain, Signatures, Undecodable, EthBlocks, NotFound,
          Handlers, Payloads

VARIABLES block, vouched, decided, at, post, sofar, held

ClientRpc == INSTANCE ChainRpc

ASSUME ClientAssumption ==
    /\ Home \in [Hashes -> ClientRpc!Chains \cup {NoChain}]
    /\ NoChain \notin ClientRpc!Chains
    /\ Undecodable \subseteq Signatures
    /\ NotFound \notin EthBlocks
    /\ DOMAIN Payloads = ClientRpc!Routes
    /\ \A route \in ClientRpc!Routes : \A body \in Payloads[route] :
          body.batch \in BOOLEAN /\ body.calls \in Seq(ClientRpc!Served(route))

ASSUME KeyAssumption ==
    /\ Hashes \cup Signatures \subseteq Keys
    /\ (Heights \cup Blocks \cup OtherHashes) \cap Signatures = {}
    /\ Heights \cap Hashes = {} /\ Hashes \cap Signatures = {}
    /\ \A h \in Hashes \cap Blocks : Home[h] = NoChain

ownOfSpv    == <<p2p, pc, call, proof, found, result>>
ownOfClient == <<block, vouched, decided, at, post, sofar, held>>

AllInit == Init /\ ClientRpc!Init

SpvStep    == Step /\ UNCHANGED ownOfClient
ClientStep == ClientRpc!Step /\ UNCHANGED ownOfSpv

AllNext ==
    \/ SpvStep
    \/ ClientStep
    \/ Quiet /\ ClientRpc!Quiet

AllSpec == AllInit /\ [][AllNext]_<<vars, ownOfClient>>

------------------------------------------------------------------------------
(* Properties.                                                             *)

ClientTypeOK == ClientRpc!TypeOK

IsHeaderOf(e, b) == e.form \in Forms \ {"hash"} /\ e.of = b

(* Whichever handlers ran, what is cached under a block's hash is a header *)
(* of that block, under a height a header of that height, under any other  *)
(* hash the receipt and under a signature the transaction it belongs to:   *)
(* a receipt asked for by the hash of a block leaves nothing behind.       *)
KeysApart ==
    \A k \in DOMAIN cache :
        LET e == cache[k]
        IN  CASE k \in Blocks     -> IsHeaderOf(e, k)
              [] k \in Heights    -> IsHeader(e) /\ HeightOf(e.of) = k
              [] k \in Signatures -> ClientRpc!Vouched(ClientRpc!Transaction(k, TRUE), e)
              [] OTHER            -> ClientRpc!Vouched(ClientRpc!Receipt(k), e)

(* To the hash of a block, getblockheader answers with the header of that  *)
(* block alone; to any other hash with nothing but a receipt that another  *)
(* endpoint has cached under it and that is the one of that transaction.   *)
HeaderOrReceipt ==
    \A r \in Requests : Answered(r, "header") =>
        LET h == call[r].arg
            e == result[r].entry
        IN  IF h \in Blocks THEN IsHeaderOf(e, h) /\ h \in EverSeen
            ELSE h \in Hashes /\ ClientRpc!Vouched(ClientRpc!Receipt(h), e)

(* Whether it comes from the light client or from what another handler     *)
(* left in the cache, a receipt is the one of the transaction asked for    *)
(* and says what helios once said, and a Solana transaction is one the     *)
(* Solana client decided on; of a batch, each answer is to its own call.   *)
(* Only where the hash asked for is a block's may it be that header.       *)
AnswersGenuine ==
    \A w \in Handlers : \A i \in 1 .. Len(sofar[w]) :
        LET c == post[w].calls[i]
            a == sofar[w][i]
        IN  a.status = "ok" =>
                \/ ClientRpc!Vouched(c, a.entry)
                \/ c.method = "receipt" /\ c.key \in Blocks /\ IsHeaderOf(a.entry, c.key)

(* That a transaction has no receipt is only said while the route's helios *)
(* client includes it in no block: an earlier null is never repeated, and  *)
(* a client that fails has not said so.                                    *)
NullIsCurrent ==
    [][\A w \in Handlers : \A i \in Len(sofar[w]) + 1 .. Len(sofar'[w]) :
          sofar'[w][i] = ClientRpc!Nothing /\ post[w].calls[i].method = "receipt"
              => ~ClientRpc!Included(w)]_<<vars, ownOfClient>>

Dropped(k) == \E w \in Handlers : at[w] = "drop" /\ ClientRpc!CallOf(w).key = k

(* Whatever handlers insert, under a key of their own or one that is in    *)
(* the cache already, an entry leaves alone, and either it was the first   *)
(* one of a full cache or a handler drops it because a Solana transaction  *)
(* it read there did not decode.                                           *)
EvictsWhenFull ==
    [][\A k \in DOMAIN cache \ DOMAIN cache' :
          /\ DOMAIN cache \ {k} \subseteq DOMAIN cache'
          /\ \/ Cardinality(DOMAIN cache) = CacheSize /\ IsFirst(cache, k)
             \/ Dropped(k)]_cache
==============================================================================
