------------------------------ MODULE ChainRpc -------------------------------
(***************************************************************************)
(* The Ethereum, Optimism and Solana endpoints (ethrpc/mod.rs,             *)
(* solrpc/mod.rs) as concurrent handlers over the response cache of        *)
(* utils.rs, the helios light client of each chain and the Solana client.  *)
(*                                                                         *)
(* Two answers are cached: the receipt of a transaction under its hash, of *)
(* either chain, and a Solana transaction under its signature.  All other  *)
(* methods are put through to the light client.  /eth takes a batch and    *)
(* serves it call by call; the other routes take a single call.            *)
(***************************************************************************)
EXTENDS SimpleCache, Sequences

CONSTANTS
    Hashes,         \* the hashes receipts are asked for
    Home,           \* Home[h]: the chain of transaction h, NoChain for any other hash
    NoChain,
    Signatures,     \* of Solana transactions
    Undecodable,    \* those whose transaction may come in a form that, written as JSON,
                    \* does not decode again
    EthBlocks,      \* the Ethereum and Optimism blocks a transaction may be included in
    NotFound,       \* no such block
    Handlers,       \* requests to the server; each is made once, by a handler of its own
    Payloads        \* Payloads[route]: the bodies posted to a route

Chains == {"eth", "op"}
Routes == {"/eth", "/eth2", "/optimism", "/sol"}

VARIABLES
    block,      \* helios: block[h] includes transaction h, or NotFound
    vouched,    \* history: the blocks helios ever gave as including h
    decided,    \* history: the transactions the Solana client answered with
    cache,      \* ChainsState.response_cache
    at,         \* where each handler stands
    post,       \* the route and the calls a handler was sent
    sofar,      \* its answers so far
    held        \* what the client gave for the call in progress

clients == <<block, vouched, decided>>
vars    == <<clients, cache, at, post, sofar, held>>

(* A call: a receipt, a Solana transaction with its second parameter good  *)
(* or not, or any other method.                                            *)
Receipt(h)        == [method |-> "receipt", key |-> h]
Transaction(s, c) == [method |-> "transaction", key |-> s, config |-> c]
Other             == [method |-> "other"]

(* What a route tells apart: any other method is an unknown one to it.     *)
Served(route) ==
    {Other} \cup IF route = "/sol" THEN {Transaction(s, c) : s \in Signatures, c \in BOOLEAN}
                 ELSE {Receipt(h) : h \in Hashes}

(* /eth decodes its body as a list of requests, the others as one request. *)
Fits(route, body) == body.batch = (route = "/eth")

ClientOf(route) == IF route = "/optimism" THEN "op" ELSE "eth"

(* What is stored and answered: what the receipt says, the transaction.    *)
ReceiptIn(h, b)           == Entry("receipt", [tx |-> h, block |-> b])
TransactionOf(s, decodes) == Entry("transaction", [sig |-> s, decodes |-> decodes])

Ok(e)   == [status |-> "ok", entry |-> e]
Nothing == [status |-> "null"]
Fail    == [status |-> "error"]

NoPost == [route |-> "none", calls |-> <<>>]

Init ==
    /\ block \in {f \in [Hashes -> EthBlocks \cup {NotFound}] :
                     \A h \in Hashes : Home[h] = NoChain => f[h] = NotFound}
    /\ vouched = [h \in Hashes |-> {block[h]} \ {NotFound}]
    /\ decided = {}
    /\ cache = EmptyCache
    /\ at = [w \in Handlers |-> "idle"]
    /\ post = [w \in Handlers |-> NoPost]
    /\ sofar = [w \in Handlers |-> <<>>]
    /\ held = [w \in Handlers |-> NotFound]

(* A transaction is included, or a reorganisation moves it or takes it out.*)
HeliosMoves(h, b) ==
    /\ Home[h] # NoChain
    /\ block[h] # b
    /\ block' = [block EXCEPT ![h] = b]
    /\ vouched' = [vouched EXCEPT ![h] = @ \cup ({b} \ {NotFound})]
    /\ UNCHANGED <<decided, cache, at, post, sofar, held>>

------------------------------------------------------------------------------
Goto(w, l) == at' = [at EXCEPT ![w] = l]

(* The call in progress is the first one not yet answered.                 *)
CallOf(w) == post[w].calls[Len(sofar[w]) + 1]

(* Mutant of Reply: a later answer is put before the earlier ones.         *)
ReplyFirst(w, answer) ==
    /\ sofar' = [sofar EXCEPT ![w] = <<answer>> \o @]
    /\ Goto(w, IF Len(sofar'[w]) = Len(post[w].calls) THEN "done" ELSE "serve")

Reply(w, answer) ==
    /\ sofar' = [sofar EXCEPT ![w] = Append(@, answer)]
    /\ Goto(w, IF Len(sofar'[w]) = Len(post[w].calls) THEN "done" ELSE "serve")

Post(w, route, body) ==
    /\ at[w] = "idle"
    /\ post' = [post EXCEPT ![w] = [route |-> route, calls |-> body.calls]]
    /\ Goto(w, IF ~Fits(route, body) THEN "rejected"
               ELSE IF body.calls = <<>> THEN "done" ELSE "serve")
    /\ UNCHANGED <<clients, cache, sofar, held>>

(* Logs and blocks of the route's chain, which may have no such block; an  *)
(* unknown method or wrong parameters are errors, as is a failing client.  *)
PutThrough(w) ==
    /\ at[w] = "serve" /\ post[w].route # "/sol"
    /\ CallOf(w).method = "other"
    /\ \E answer \in {Ok(Entry("other", w)), Nothing, Fail} : Reply(w, answer)
    /\ UNCHANGED <<clients, cache, post, held>>

(* Accounts, slots, signatures: what the Solana client decides.            *)
PutToSolana(w) ==
    /\ at[w] = "serve" /\ post[w].route = "/sol"
    /\ CallOf(w).method = "other"
    /\ \E answer \in {Ok(Entry("other", w)), Fail} : Reply(w, answer)
    /\ UNCHANGED <<clients, cache, post, held>>

Looking(w) == at[w] = "serve" /\ CallOf(w).method # "other"

Decodes(w) == CallOf(w).method = "receipt" \/ cache[CallOf(w).key].of.decodes

(* A cached receipt is answered as it was stored, whoever stored it, and a *)
(* cached transaction if it decodes, whatever the second parameter.        *)
Hit(w) ==
    /\ Looking(w)
    /\ Holds(cache, CallOf(w).key)
    /\ IF Decodes(w)
       THEN Reply(w, Ok(cache[CallOf(w).key]))
       ELSE Goto(w, "drop") /\ UNCHANGED sofar
    /\ UNCHANGED <<clients, cache, post, held>>

(* After a transaction that did not decode the key is removed, whatever    *)
(* another handler may have stored under it since, and asked for again.    *)
Drop(w) ==
    /\ at[w] = "drop"
    /\ cache' = Remove(cache, CallOf(w).key)
    /\ Goto(w, "query")
    /\ UNCHANGED <<clients, post, sofar, held>>

Miss(w) ==
    /\ Looking(w)
    /\ ~Holds(cache, CallOf(w).key)
    /\ Goto(w, "query")
    /\ UNCHANGED <<clients, cache, post, sofar, held>>

(* The receipt, if the chain of the route includes the transaction.        *)
Included(w) == Home[CallOf(w).key] = ClientOf(post[w].route) /\ block[CallOf(w).key] # NotFound

(* Mutant of FetchReceipt: that there is no receipt is stored, too.        *)
FetchReceiptOrNull(w) ==
    /\ at[w] = "query"
    /\ CallOf(w).method = "receipt"
    /\ held' = [held EXCEPT ![w] = IF Included(w) THEN ReceiptIn(CallOf(w).key, block[CallOf(w).key])
                                   ELSE ReceiptIn(CallOf(w).key, NotFound)]
    /\ Goto(w, "store")
    /\ UNCHANGED <<clients, cache, post, sofar>>

(* get_transaction_receipt of the route's helios client: no receipt is     *)
(* answered as null and not stored.                                        *)
FetchReceipt(w) ==
    /\ at[w] = "query"
    /\ CallOf(w).method = "receipt"
    /\ IF Included(w)
       THEN /\ held' = [held EXCEPT ![w] = ReceiptIn(CallOf(w).key, block[CallOf(w).key])]
            /\ Goto(w, "store")
            /\ UNCHANGED sofar
       ELSE Reply(w, Nothing) /\ UNCHANGED held
    /\ UNCHANGED <<clients, cache, post>>

(* get_transaction of the Solana client, the parameter being good; in what *)
(* form the transaction comes is the parameter's choice and the client's.  *)
FetchTransaction(w) ==
    /\ at[w] = "query"
    /\ CallOf(w).method = "transaction"
    /\ CallOf(w).config
    /\ \E decodes \in BOOLEAN :
          /\ decodes \/ CallOf(w).key \in Undecodable
          /\ held' = [held EXCEPT ![w] = TransactionOf(CallOf(w).key, decodes)]
          /\ decided' = decided \cup {TransactionOf(CallOf(w).key, decodes)}
    /\ Goto(w, "store")
    /\ UNCHANGED <<block, vouched, cache, post, sofar>>

(* Mutant of FetchFails: a failure is answered as nothing found.           *)
FetchFailsAsNull(w) ==
    /\ at[w] = "query"
    /\ Reply(w, Nothing)
    /\ UNCHANGED <<clients, cache, post, held>>

(* The client fails, or the parameter was wrong.                           *)
FetchFails(w) ==
    /\ at[w] = "query"
    /\ Reply(w, Fail)
    /\ UNCHANGED <<clients, cache, post, held>>

Store(w) ==
    /\ at[w] = "store"
    /\ cache' = Insert(cache, CallOf(w).key, held[w])
    /\ Reply(w, Ok(held[w]))
    /\ UNCHANGED <<clients, post, held>>

Handler(w) ==
    \/ \E route \in Routes : \E body \in Payloads[route] : Post(w, route, body)
    \/ PutThrough(w)
    \/ PutToSolana(w)
    \/ Hit(w)
    \/ Drop(w)
    \/ Miss(w)
    \/ FetchReceipt(w)
    \/ FetchTransaction(w)
    \/ FetchFails(w)
    \/ Store(w)

Quiet == (\A w \in Handlers : at[w] \in {"done", "rejected"}) /\ UNCHANGED vars

Step ==
    \/ \E h \in Hashes, b \in EthBlocks \cup {NotFound} : HeliosMoves(h, b)
    \/ \E w \in Handlers : Handler(w)

Next == Step \/ Quiet

Spec == Init /\ [][Next]_vars

------------------------------------------------------------------------------
(* Properties.                                                             *)

Receipts     == {ReceiptIn(h, b) : h \in Hashes, b \in EthBlocks}
Transactions == {TransactionOf(s, decodes) : s \in Signatures, decodes \in BOOLEAN}

TypeOK ==
    /\ block \in [Hashes -> EthBlocks \cup {NotFound}]
    /\ vouched \in [Hashes -> SUBSET EthBlocks]
    /\ decided \subseteq Transactions
    /\ at \in [Handlers -> {"idle", "serve", "drop", "query", "store", "done", "rejected"}]
    /\ \A w \in Handlers : Len(sofar[w]) <= Len(post[w].calls)
    /\ \A w \in Handlers : at[w] = "store" => held[w] \in Receipts \cup Transactions

(* Answer e is of the right kind and what the client of a chain once gave. *)
Vouched(c, e) ==
    CASE c.method = "receipt"     -> \E b \in vouched[c.key] : e = ReceiptIn(c.key, b)
      [] c.method = "transaction" -> e \in decided /\ e.of.sig = c.key
      [] OTHER                    -> e.form = "other"
==============================================================================
