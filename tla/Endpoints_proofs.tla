--------------------------- MODULE Endpoints_proofs ---------------------------
(***************************************************************************)
(* What the endpoints guarantee together, over the one response cache,     *)
(* whatever the networks, the requests, the payloads and the size of the   *)
(* cache.  The inductive invariant is that of SpvRpc_proofs, which a step  *)
(* of an Ethereum, Optimism or Solana handler cannot break because it      *)
(* never inserts under a block hash or a height, a part for those          *)
(* handlers, which a step of the other endpoints cannot break either, and  *)
(* one for what getblockheader answers to a hash that is no block's.       *)
(***************************************************************************)
EXTENDS Endpoints, SpvRpc_proofs

USE DEF p2p, vars, ownOfSpv, ownOfClient, ClientRpc!clients, ClientRpc!vars

(* The history agrees with what the clients say now.                       *)
Sources ==
    /\ block \in [Hashes -> EthBlocks \cup {NotFound}]
    /\ vouched \in [Hashes -> SUBSET EthBlocks]
    /\ decided \subseteq ClientRpc!Transactions
    /\ \A h \in Hashes : /\ Home[h] = NoChain => block[h] = NotFound
                         /\ block[h] # NotFound => block[h] \in vouched[h]

(* What may stand in the cache under a key that is no block and no height. *)
Authentic(k, e) ==
    IF k \in Signatures THEN ClientRpc!Vouched(ClientRpc!Transaction(k, TRUE), e)
    ELSE k \in Hashes /\ ClientRpc!Vouched(ClientRpc!Receipt(k), e)

RestAuthentic == \A k \in DOMAIN cache \ (Blocks \cup Heights) : Authentic(k, cache[k])

(* An answer a handler may give to call c.                                 *)
Honest(c, a) ==
    a.status = "ok" =>
        \/ ClientRpc!Vouched(c, a.entry)
        \/ c.method = "receipt" /\ c.key \in Blocks /\ IsHeaderOf(a.entry, c.key)

(* What the client of a chain gave for call c, to be cached.               *)
Given(c, e) ==
    /\ ClientRpc!Vouched(c, e)
    /\ c.method = "receipt" => c.key \notin Blocks

Entries ==
    EntryType \cup ClientRpc!Receipts \cup ClientRpc!Transactions \cup {Entry("other", w) : w \in Handlers}

Replies ==
    [status : {"ok"}, entry : Entries] \cup [status : {"null"}] \cup [status : {"error"}]

InCall == {"serve", "drop", "query", "store"}

Serving(w) ==
    /\ at[w] \in InCall \cup {"idle", "done", "rejected"}
    /\ sofar[w] \in Seq(Replies) /\ post[w].calls \in Seq(UNION {ClientRpc!Served(r) : r \in ClientRpc!Routes})
    /\ at[w] = "idle" => sofar[w] = <<>> 
    /\ at[w] # "idle" => /\ post[w].route \in ClientRpc!Routes
                         /\ post[w].calls \in Seq(ClientRpc!Served(post[w].route))
    /\ Len(sofar[w]) <= Len(post[w].calls)
    /\ at[w] \in InCall => Len(sofar[w]) < Len(post[w].calls)
    /\ at[w] = "drop" => ClientRpc!CallOf(w).method = "transaction"
    /\ at[w] \in {"query", "store"} => ClientRpc!CallOf(w).method # "other"
    /\ at[w] = "store" => Given(ClientRpc!CallOf(w), held[w])
    /\ \A i \in 1 .. Len(sofar[w]) : Honest(post[w].calls[i], sofar[w][i])

Servings ==
    /\ at = [w \in Handlers |-> at[w]] /\ DOMAIN post = Handlers
    /\ DOMAIN sofar = Handlers /\ DOMAIN held = Handlers
    /\ \A w \in Handlers : Serving(w)

ClientInv == Sources /\ RestAuthentic /\ Servings

(* The call in progress is one the route knows, and its key a hash or a    *)
(* signature.                                                              *)
LEMMA CallKnown ==
  ASSUME NEW w \in Handlers, Serving(w), at[w] \in InCall
  PROVE  /\ post[w].route \in ClientRpc!Routes
         /\ ClientRpc!CallOf(w) \in ClientRpc!Served(post[w].route)
         /\ ClientRpc!CallOf(w).method \in {"receipt", "transaction", "other"}
         /\ ClientRpc!CallOf(w).method = "receipt" =>
               /\ ClientRpc!CallOf(w).key \in Hashes /\ ClientRpc!CallOf(w).key \notin Signatures
               /\ ClientRpc!CallOf(w).key \notin Heights /\ ClientRpc!CallOf(w).key \in Keys
               /\ post[w].route # "/sol"
         /\ ClientRpc!CallOf(w).method = "transaction" =>
               /\ ClientRpc!CallOf(w).key \in Signatures /\ ClientRpc!CallOf(w).key \in Keys
               /\ ClientRpc!CallOf(w).key \notin Blocks \cup Heights
<1>1. /\ sofar[w] \in Seq(Replies) /\ Len(sofar[w]) < Len(post[w].calls)
      /\ post[w].calls \in Seq(ClientRpc!Served(post[w].route)) /\ post[w].route \in ClientRpc!Routes
  BY DEF Serving, InCall
<1>2. Len(sofar[w]) + 1 \in 1 .. Len(post[w].calls)
  BY <1>1, LenProperties
<1>3. ClientRpc!CallOf(w) \in ClientRpc!Served(post[w].route)
  BY <1>1, <1>2, ElementOfSeq DEF ClientRpc!CallOf
<1>4. \/ ClientRpc!CallOf(w) = ClientRpc!Other
      \/ post[w].route = "/sol" /\ \E s \in Signatures, c \in BOOLEAN : ClientRpc!CallOf(w) = ClientRpc!Transaction(s, c)
      \/ post[w].route # "/sol" /\ \E h \in Hashes : ClientRpc!CallOf(w) = ClientRpc!Receipt(h)
  BY <1>3 DEF ClientRpc!Served
<1> HIDE DEF ClientRpc!CallOf
<1>5. CASE ClientRpc!CallOf(w) = ClientRpc!Other
  BY <1>1, <1>3, <1>5 DEF ClientRpc!Other
<1>6. CASE post[w].route = "/sol" /\ \E s \in Signatures, c \in BOOLEAN : ClientRpc!CallOf(w) = ClientRpc!Transaction(s, c)
  BY <1>1, <1>3, <1>6, KeyAssumption DEF ClientRpc!Transaction
<1>7. CASE post[w].route # "/sol" /\ \E h \in Hashes : ClientRpc!CallOf(w) = ClientRpc!Receipt(h)
  BY <1>1, <1>3, <1>7, KeyAssumption DEF ClientRpc!Receipt
<1> QED BY <1>4, <1>5, <1>6, <1>7

(* What was vouched for once stays vouched for.                            *)
LEMMA VouchedKept ==
  ASSUME NEW c, NEW e, ClientRpc!Vouched(c, e), vouched' = [h \in Hashes |-> vouched'[h]],
         \A h \in Hashes : vouched[h] \subseteq vouched'[h], decided \subseteq decided',
         c.method = "receipt" => c.key \in Hashes
  PROVE  ClientRpc!Vouched(c, e)'
  BY DEF ClientRpc!Vouched, ClientRpc!ReceiptIn, ClientRpc!Entry

Grown ==
    /\ vouched' \in [Hashes -> SUBSET EthBlocks] /\ decided' \subseteq ClientRpc!Transactions
    /\ \A h \in Hashes : vouched[h] \subseteq vouched'[h]
    /\ decided \subseteq decided'

(* The calls of a handler that was sent some, and what it may answer.      *)
LEMMA CallsKnown ==
  ASSUME NEW w \in Handlers, Serving(w), NEW i \in 1 .. Len(post[w].calls)
  PROVE  /\ post[w].calls[i].method \in {"receipt", "transaction", "other"}
         /\ post[w].calls[i].method = "receipt" => post[w].calls[i].key \in Hashes
<1>1. post[w].calls[i] \in UNION {ClientRpc!Served(r) : r \in ClientRpc!Routes}
  BY ElementOfSeq DEF Serving
<1> QED BY <1>1 DEF ClientRpc!Served, ClientRpc!Receipt, ClientRpc!Transaction, ClientRpc!Other

(* An honest answer stays one, whatever the clients learn and the others   *)
(* cache.                                                                  *)
LEMMA HonestKept ==
  ASSUME Grown, NEW c, NEW a, Honest(c, a), c.method = "receipt" => c.key \in Hashes
  PROVE  Honest(c, a)'
<1>1. vouched' = [h \in Hashes |-> vouched'[h]] /\ decided \subseteq decided'
      /\ \A h \in Hashes : vouched[h] \subseteq vouched'[h]
  BY DEF Grown
<1>2. ASSUME a.status = "ok", ClientRpc!Vouched(c, a.entry) PROVE ClientRpc!Vouched(c, a.entry)'
  BY <1>1, <1>2, VouchedKept
<1> QED BY <1>2 DEF Honest, IsHeaderOf

(* A handler that does nothing is not affected by the others.              *)
LEMMA ServingKept ==
  ASSUME Grown, NEW w \in Handlers, Serving(w),
         at'[w] = at[w], post'[w] = post[w], sofar'[w] = sofar[w], held'[w] = held[w]
  PROVE  Serving(w)'
<1>1. ClientRpc!CallOf(w)' = ClientRpc!CallOf(w)
  BY DEF ClientRpc!CallOf
<1>2. at[w] = "store" => Given(ClientRpc!CallOf(w), held[w])'
  <2> SUFFICES ASSUME at[w] = "store" PROVE Given(ClientRpc!CallOf(w), held[w])'
    OBVIOUS
  <2>1. Given(ClientRpc!CallOf(w), held[w])
        /\ (ClientRpc!CallOf(w).method = "receipt" => ClientRpc!CallOf(w).key \in Hashes)
    BY CallKnown DEF Serving, InCall
  <2>2. /\ vouched' = [h \in Hashes |-> vouched'[h]] /\ decided \subseteq decided'
        /\ \A h \in Hashes : vouched[h] \subseteq vouched'[h]
    BY DEF Grown
  <2> HIDE DEF ClientRpc!CallOf
  <2>3. ClientRpc!Vouched(ClientRpc!CallOf(w), held[w])
    BY <2>1 DEF Given
  <2>4. ClientRpc!Vouched(ClientRpc!CallOf(w), held[w])'
    BY <1>1, <2>1, <2>2, <2>3 DEF ClientRpc!Vouched, ClientRpc!ReceiptIn, ClientRpc!Entry
  <2> QED BY <1>1, <2>1, <2>4 DEF Given
<1>3. \A i \in 1 .. Len(sofar[w]) : Honest(post[w].calls[i], sofar[w][i])'
  <2> SUFFICES ASSUME NEW i \in 1 .. Len(sofar[w]) PROVE Honest(post[w].calls[i], sofar[w][i])'
    OBVIOUS
  <2>1. i \in 1 .. Len(post[w].calls) /\ Honest(post[w].calls[i], sofar[w][i])
    BY LenProperties DEF Serving
  <2>2. post[w].calls[i].method = "receipt" => post[w].calls[i].key \in Hashes
    BY <2>1, CallsKnown
  <2> QED BY <2>1, <2>2, HonestKept
<1>4. Replies' = Replies
  BY DEF Replies, Entries, ClientRpc!Receipts, ClientRpc!Transactions, EntryType, Forms
<1>5. ClientRpc!Routes' = ClientRpc!Routes /\ \A r : ClientRpc!Served(r)' = ClientRpc!Served(r)
  OBVIOUS
<1> QED BY <1>1, <1>2, <1>3, <1>4, <1>5 DEF Serving

(* An honest answer to the call in progress is appended to honest ones.    *)
LEMMA ReplyServing ==
  ASSUME Grown, NEW w \in Handlers, Servings, at[w] \in {"serve", "query", "store"},
         NEW a \in Replies, Honest(ClientRpc!CallOf(w), a), ClientRpc!Reply(w, a), UNCHANGED post
  PROVE  Serving(w)'
<1>1. Serving(w) /\ at[w] \in InCall
  BY DEF Servings, InCall
<1>2. /\ sofar'[w] = Append(sofar[w], a)
      /\ at'[w] = IF Len(sofar'[w]) = Len(post[w].calls) THEN "done" ELSE "serve"
  BY DEF ClientRpc!Reply, ClientRpc!Goto, Servings
<1>3. sofar[w] \in Seq(Replies) /\ Len(sofar[w]) \in Nat /\ Len(sofar[w]) < Len(post[w].calls)
      /\ Len(post[w].calls) \in Nat
  BY <1>1, LenProperties DEF Serving
<1>4. /\ sofar'[w] \in Seq(Replies) /\ Len(sofar'[w]) = Len(sofar[w]) + 1
      /\ sofar'[w][Len(sofar[w]) + 1] = a
      /\ \A i \in 1 .. Len(sofar[w]) : sofar'[w][i] = sofar[w][i]
  BY <1>2, <1>3, AppendProperties
<1>5. Replies' = Replies
  BY DEF Replies, Entries, ClientRpc!Receipts, ClientRpc!Transactions, EntryType, Forms
<1>6. ASSUME NEW i \in 1 .. Len(sofar'[w]) PROVE Honest(post[w].calls[i], sofar[w][i])'
  <2>1. i \in 1 .. Len(post[w].calls) /\ (post[w].calls[i].method = "receipt" => post[w].calls[i].key \in Hashes)
    BY <1>1, <1>3, <1>4, CallsKnown
  <2>2. Honest(post[w].calls[i], sofar'[w][i])
    <3>1. CASE i = Len(sofar[w]) + 1
      BY <1>4, <3>1 DEF ClientRpc!CallOf
    <3>2. CASE i \in 1 .. Len(sofar[w])
      BY <1>1, <1>4, <3>2 DEF Serving
    <3> QED BY <1>3, <1>4, <3>1, <3>2
  <2> DEFINE x == sofar'[w][i]
             c == post[w].calls[i]
  <2>3. /\ vouched' = [h \in Hashes |-> vouched'[h]] /\ decided \subseteq decided'
        /\ \A h \in Hashes : vouched[h] \subseteq vouched'[h]
    BY DEF Grown
  <2>4. ASSUME x.status = "ok", ClientRpc!Vouched(c, x.entry)
        PROVE  ClientRpc!Vouched(post[w].calls[i], sofar[w][i].entry)'
    BY <2>1, <2>3, <2>4 DEF ClientRpc!Vouched, ClientRpc!ReceiptIn, ClientRpc!Entry
  <2> QED BY <2>2, <2>4 DEF Honest, IsHeaderOf
<1>7. Len(sofar'[w]) <= Len(post[w].calls) /\ (at'[w] = "serve" => Len(sofar'[w]) < Len(post[w].calls))
  BY <1>2, <1>3, <1>4
<1>8. at'[w] \in {"serve", "done"}
  BY <1>2
<1> QED BY <1>1, <1>4, <1>5, <1>6, <1>7, <1>8 DEF Serving, InCall

(* A step of one handler that leaves its own part and the cache in order   *)
(* leaves everything in order.                                             *)
LEMMA OneClient ==
  ASSUME ClientInv, NEW w \in Handlers, Grown, Sources', RestAuthentic',
         at' = [v \in Handlers |-> at'[v]], DOMAIN post' = Handlers,
         DOMAIN sofar' = Handlers, DOMAIN held' = Handlers,
         \A v \in Handlers \ {w} : /\ at'[v] = at[v] /\ post'[v] = post[v]
                                   /\ sofar'[v] = sofar[v] /\ held'[v] = held[v],
         Serving(w)'
  PROVE  ClientInv'
<1>1. \A v \in Handlers \ {w} : Serving(v)'
  BY ServingKept DEF ClientInv, Servings
<1> QED BY <1>1 DEF ClientInv, Servings

(* While no client of a chain says anything new, nothing is unlearnt.      *)
LEMMA SourcesKept ==
  ASSUME Sources, UNCHANGED <<block, vouched, decided>>
  PROVE  Grown /\ Sources'
  BY DEF Sources, Grown

(* What is authentic stays so.                                             *)
LEMMA AuthenticKept ==
  ASSUME Grown, NEW k, NEW e, Authentic(k, e)
  PROVE  Authentic(k, e)'
<1>1. /\ vouched' = [h \in Hashes |-> vouched'[h]] /\ decided \subseteq decided'
      /\ \A h \in Hashes : vouched[h] \subseteq vouched'[h]
  BY DEF Grown
<1>2. CASE k \in Signatures
  BY <1>1, <1>2 DEF Authentic, ClientRpc!Vouched, ClientRpc!Transaction
<1>3. CASE k \notin Signatures
  <2>1. k \in Hashes /\ \E b \in vouched[k] : e = ClientRpc!ReceiptIn(k, b)
    BY <1>3 DEF Authentic, ClientRpc!Vouched, ClientRpc!Receipt
  <2> QED BY <1>1, <1>3, <2>1
       DEF Authentic, ClientRpc!Vouched, ClientRpc!Receipt, ClientRpc!ReceiptIn, ClientRpc!Entry
<1> QED BY <1>2, <1>3

(* What is cached stays authentic while no entry changes.                  *)
LEMMA RestKept ==
  ASSUME RestAuthentic, Grown,
         \A k \in DOMAIN cache' \ (Blocks \cup Heights) : k \in DOMAIN cache /\ cache'[k] = cache[k]
  PROVE  RestAuthentic'
<1> SUFFICES ASSUME NEW k \in DOMAIN cache' \ (Blocks \cup Heights) PROVE Authentic(k, cache[k])'
  BY DEF RestAuthentic
<1>1. Authentic(k, cache[k]) /\ cache'[k] = cache[k]
  BY DEF RestAuthentic
<1> QED BY <1>1, AuthenticKept

USE DEF ClientRpc!Holds, ClientRpc!Goto

(* Helios learns that a transaction was included, moved or taken out.      *)
LEMMA HeliosServing ==
  ASSUME ClientInv, NEW h \in Hashes, NEW b \in EthBlocks \cup {NotFound}, ClientRpc!HeliosMoves(h, b)
  PROVE  ClientInv' /\ cache' = cache /\ sofar' = sofar
<1>1. /\ Home[h] # NoChain /\ block' = [block EXCEPT ![h] = b]
      /\ vouched' = [vouched EXCEPT ![h] = @ \cup ({b} \ {NotFound})]
      /\ UNCHANGED <<decided, cache, at, post, sofar, held>>
  BY DEF ClientRpc!HeliosMoves
<1>2. Sources
  BY DEF ClientInv
<1>3. Grown /\ Sources'
  BY <1>1, <1>2, ClientAssumption DEF Sources, Grown
<1>4. RestAuthentic'
  BY <1>1, <1>3, RestKept DEF ClientInv
<1>5. \A w \in Handlers : Serving(w)'
  BY <1>1, <1>3, ServingKept DEF ClientInv, Servings
<1> QED BY <1>1, <1>3, <1>4, <1>5 DEF ClientInv, Servings

(* A handler is sent calls, which it may reject as a whole.                *)
LEMMA PostServing ==
  ASSUME ClientInv, NEW w \in Handlers, NEW route \in ClientRpc!Routes, NEW body \in Payloads[route],
         ClientRpc!Post(w, route, body)
  PROVE  ClientInv' /\ cache' = cache /\ sofar' = sofar
<1>1. Servings /\ Serving(w) /\ at[w] = "idle" /\ sofar[w] = <<>>
  BY DEF ClientInv, Servings, Serving, ClientRpc!Post
<1>2. UNCHANGED <<block, vouched, decided, cache, sofar, held>>
  BY DEF ClientRpc!Post
<1>3. Grown /\ Sources' /\ RestAuthentic'
  BY <1>2, SourcesKept, RestKept DEF ClientInv
<1>4. post'[w] = [route |-> route, calls |-> body.calls] /\ body.calls \in Seq(ClientRpc!Served(route))
  BY <1>1, ClientAssumption DEF ClientRpc!Post, Servings
<1>5. at'[w] \in {"rejected", "done", "serve"} /\ (at'[w] = "serve" => body.calls # <<>>)
  BY <1>1 DEF ClientRpc!Post, Servings
<1>6. Replies' = Replies
  BY DEF Replies, Entries, ClientRpc!Receipts, ClientRpc!Transactions, EntryType, Forms
<1>7. /\ body.calls \in Seq(UNION {ClientRpc!Served(r) : r \in ClientRpc!Routes})
      /\ Len(body.calls) \in Nat /\ (body.calls # <<>> => Len(body.calls) > 0)
  <2>1. ClientRpc!Served(route) \subseteq UNION {ClientRpc!Served(r) : r \in ClientRpc!Routes}
    OBVIOUS
  <2> QED BY <1>4, LenProperties, EmptySeq
<1>8. sofar'[w] = <<>> /\ Len(<<>>) = 0 /\ <<>> \in Seq(Replies)
  BY <1>1, <1>2, EmptySeq
<1>9. Serving(w)'
  BY <1>4, <1>5, <1>6, <1>7, <1>8 DEF Serving, InCall
<1> QED BY <1>1, <1>2, <1>3, <1>9, OneClient DEF ClientRpc!Post, Servings

(* The answers a step adds say null only of transactions that have no      *)
(* receipt at that moment.                                                 *)
NullsCurrent ==
    \A w \in Handlers : \A i \in Len(sofar[w]) + 1 .. Len(sofar'[w]) :
        sofar'[w][i] = ClientRpc!Nothing /\ post[w].calls[i].method = "receipt"
            => ~ClientRpc!Included(w)

(* A step that answers nothing says nothing of receipts.                   *)
LEMMA NoAnswer ==
  ASSUME ClientInv, UNCHANGED sofar
  PROVE  NullsCurrent
<1>1. \A w \in Handlers : Len(sofar[w]) \in Nat
  BY LenProperties DEF ClientInv, Servings, Serving
<1> QED BY <1>1 DEF NullsCurrent

(* A step that gives an honest answer to the call in progress.             *)
LEMMA AnswerServing ==
  ASSUME ClientInv, NEW w \in Handlers, at[w] \in {"serve", "query", "store"}, Grown, Sources', RestAuthentic',
         NEW a \in Replies, Honest(ClientRpc!CallOf(w), a), ClientRpc!Reply(w, a), UNCHANGED <<post, held>>,
         a = ClientRpc!Nothing /\ ClientRpc!CallOf(w).method = "receipt" => ~ClientRpc!Included(w)
  PROVE  ClientInv' /\ NullsCurrent
<1>1. Servings /\ Serving(w)
  BY DEF ClientInv, Servings
<1>2. Serving(w)'
  BY <1>1, ReplyServing
<1>3. /\ at' = [v \in Handlers |-> at'[v]] /\ DOMAIN sofar' = Handlers
      /\ sofar'[w] = Append(sofar[w], a)
      /\ \A v \in Handlers \ {w} : at'[v] = at[v] /\ sofar'[v] = sofar[v]
  BY <1>1 DEF ClientRpc!Reply, Servings
<1>4. ClientInv'
  BY <1>1, <1>2, <1>3, OneClient DEF Servings
<1>5. \A v \in Handlers : sofar[v] \in Seq(Replies) /\ Len(sofar[v]) \in Nat
  BY <1>1, LenProperties DEF Servings, Serving
<1>6. Len(sofar'[w]) = Len(sofar[w]) + 1 /\ sofar'[w][Len(sofar[w]) + 1] = a
  BY <1>3, <1>5, AppendProperties
<1>7. NullsCurrent
  <2> SUFFICES ASSUME NEW v \in Handlers, NEW i \in Len(sofar[v]) + 1 .. Len(sofar'[v]),
                      sofar'[v][i] = ClientRpc!Nothing, post[v].calls[i].method = "receipt"
               PROVE  ~ClientRpc!Included(v)
    BY DEF NullsCurrent
  <2>1. v = w
    BY <1>3, <1>5
  <2>2. i = Len(sofar[w]) + 1
    BY <1>5, <1>6, <2>1
  <2> QED BY <1>6, <2>1, <2>2 DEF ClientRpc!CallOf
<1> QED BY <1>4, <1>7

(* Steps at which a handler only moves on, with its client's answer in     *)
(* hand or without.                                                        *)
LEMMA MovesOn ==
  ASSUME ClientInv, NEW w \in Handlers, at[w] \in InCall, Grown, Sources', RestAuthentic',
         NEW l \in {"drop", "query", "store"}, ClientRpc!Goto(w, l), UNCHANGED <<post, sofar>>,
         DOMAIN held' = Handlers, \A v \in Handlers \ {w} : held'[v] = held[v],
         ClientRpc!CallOf(w).method # "other",
         l = "drop" => ClientRpc!CallOf(w).method = "transaction",
         l = "store" => Given(ClientRpc!CallOf(w), held[w])'
  PROVE  ClientInv' /\ NullsCurrent
<1>1. Servings /\ Serving(w)
  BY DEF ClientInv, Servings
<1>2. /\ at' = [v \in Handlers |-> at'[v]] /\ at'[w] = l
      /\ \A v \in Handlers \ {w} : at'[v] = at[v]
  BY <1>1 DEF Servings
<1>3. Replies' = Replies
  BY DEF Replies, Entries, ClientRpc!Receipts, ClientRpc!Transactions, EntryType, Forms
<1>4. ASSUME NEW i \in 1 .. Len(sofar[w]) PROVE Honest(post[w].calls[i], sofar[w][i])'
  <2>1. Honest(post[w].calls[i], sofar[w][i]) /\ i \in 1 .. Len(post[w].calls)
    BY <1>1, LenProperties DEF Serving
  <2>2. post[w].calls[i].method = "receipt" => post[w].calls[i].key \in Hashes
    BY <1>1, <2>1, CallsKnown
  <2>3. Honest(post[w].calls[i], sofar[w][i])'
    BY <2>1, <2>2, HonestKept
  <2> QED BY <2>3
<1>5. ClientRpc!CallOf(w)' = ClientRpc!CallOf(w)
  BY DEF ClientRpc!CallOf
<1>6. Serving(w)'
  BY <1>1, <1>2, <1>3, <1>4, <1>5 DEF Serving, InCall
<1>7. ClientInv'
  BY <1>1, <1>2, <1>6, OneClient DEF Servings
<1> QED BY <1>7, NoAnswer

(* Methods that are put through, and failures.                             *)
LEMMA ThroughServing ==
  ASSUME ClientInv, NEW w \in Handlers,
         ClientRpc!PutThrough(w) \/ ClientRpc!PutToSolana(w) \/ ClientRpc!FetchFails(w)
  PROVE  ClientInv' /\ NullsCurrent /\ cache' = cache
<1>1. /\ UNCHANGED <<block, vouched, decided, cache, post, held>>
      /\ at[w] \in {"serve", "query", "store"}
  BY DEF ClientRpc!PutThrough, ClientRpc!PutToSolana, ClientRpc!FetchFails
<1>2. Grown /\ Sources' /\ RestAuthentic'
  BY <1>1, SourcesKept, RestKept DEF ClientInv
<1>3. ClientRpc!Fail \in Replies /\ \A c : Honest(c, ClientRpc!Fail)
  BY DEF Honest, ClientRpc!Fail, Replies
<1>4. ClientRpc!Nothing \in Replies /\ \A c : Honest(c, ClientRpc!Nothing)
  BY DEF Honest, ClientRpc!Nothing, Replies
<1>5. /\ ClientRpc!Ok(ClientRpc!Entry("other", w)) \in Replies
      /\ \A c : c.method = "other" => Honest(c, ClientRpc!Ok(ClientRpc!Entry("other", w)))
  BY DEF Honest, ClientRpc!Ok, Replies, Entries, Entry, ClientRpc!Entry, ClientRpc!Vouched
<1>6. ClientRpc!Fail # ClientRpc!Nothing
  BY DEF ClientRpc!Fail, ClientRpc!Nothing
<1>7. CASE ClientRpc!FetchFails(w)
  <2>1. ClientRpc!Reply(w, ClientRpc!Fail)
    BY <1>7 DEF ClientRpc!FetchFails
  <2> QED BY <1>1, <1>2, <1>3, <1>6, <2>1, AnswerServing
<1>8. CASE ClientRpc!PutThrough(w) \/ ClientRpc!PutToSolana(w)
  <2>1. /\ ClientRpc!CallOf(w).method = "other"
        /\ \E a \in {ClientRpc!Ok(ClientRpc!Entry("other", w)), ClientRpc!Nothing, ClientRpc!Fail} :
              ClientRpc!Reply(w, a)
    BY <1>8 DEF ClientRpc!PutThrough, ClientRpc!PutToSolana
  <2>2. PICK a \in {ClientRpc!Ok(ClientRpc!Entry("other", w)), ClientRpc!Nothing, ClientRpc!Fail} :
              ClientRpc!Reply(w, a)
    BY <2>1
  <2>3. a \in Replies /\ Honest(ClientRpc!CallOf(w), a)
    BY <1>3, <1>4, <1>5, <2>1
  <2> QED BY <1>1, <1>2, <2>1, <2>2, <2>3, AnswerServing
<1> QED BY <1>1, <1>7, <1>8

(* A hit is honest because the entry is genuine or authentic.              *)
LEMMA LookupServing ==
  ASSUME ClientInv, SpvInv, NEW w \in Handlers, ClientRpc!Hit(w) \/ ClientRpc!Miss(w)
  PROVE  ClientInv' /\ NullsCurrent /\ cache' = cache
<1> DEFINE c == ClientRpc!CallOf(w)
<1>1. Serving(w) /\ at[w] = "serve" /\ at[w] \in InCall /\ c.method # "other"
  BY DEF ClientInv, Servings, InCall, ClientRpc!Hit, ClientRpc!Miss, ClientRpc!Looking
<1>2. UNCHANGED <<block, vouched, decided, cache, post, held>>
  BY DEF ClientRpc!Hit, ClientRpc!Miss
<1>3. Grown /\ Sources' /\ RestAuthentic'
  BY <1>2, SourcesKept, RestKept DEF ClientInv
<1>4. DOMAIN held' = Handlers
  BY <1>2 DEF ClientInv, Servings
<1>5. CASE ClientRpc!Hit(w) /\ ClientRpc!Decodes(w)
  <2> DEFINE e == cache[c.key]
  <2>1. c.key \in DOMAIN cache /\ ClientRpc!Reply(w, ClientRpc!Ok(e))
    BY <1>5 DEF ClientRpc!Hit
  <2>2. /\ c.method \in {"receipt", "transaction"}
        /\ c.method = "receipt" => c.key \in Hashes /\ c.key \notin Signatures /\ c.key \notin Heights
        /\ c.method = "transaction" => c.key \in Signatures /\ c.key \notin Blocks \cup Heights
    BY <1>1, CallKnown
  <2> HIDE DEF c
  <2>3. /\ e \in Entries
        /\ \/ ClientRpc!Vouched(c, e)
           \/ c.method = "receipt" /\ c.key \in Blocks /\ IsHeaderOf(e, c.key)
    <3>1. CASE c.key \in Blocks
      <4>1. Genuine(c.key, e) /\ EverSeen \subseteq Blocks
        BY <2>1, <3>1 DEF SpvInv, HeadersGenuine, Tips, EverSeen
      <4>2. e \in EntryType /\ IsHeaderOf(e, c.key)
        BY <3>1, <4>1 DEF Genuine, EntryType, IsHeaderOf
      <4> QED BY <2>2, <3>1, <4>2 DEF Entries
    <3>2. CASE c.key \notin Blocks
      <4>1. Authentic(c.key, e)
        BY <2>1, <2>2, <3>2 DEF ClientInv, RestAuthentic
      <4>2. CASE c.method = "receipt"
        <5>1. PICK b \in vouched[c.key] : e = ClientRpc!ReceiptIn(c.key, b)
          BY <2>2, <4>1, <4>2 DEF Authentic, ClientRpc!Vouched, ClientRpc!Receipt
        <5>2. b \in EthBlocks /\ c.key \in Hashes
          BY <2>2, <4>2 DEF ClientInv, Sources
        <5>3. e \in ClientRpc!Receipts
          BY <5>1, <5>2 DEF ClientRpc!Receipts
        <5>4. ClientRpc!Vouched(c, e)
          BY <4>2, <5>1 DEF ClientRpc!Vouched
        <5> QED BY <5>3, <5>4 DEF Entries
      <4>3. CASE c.method = "transaction"
        <5>1. e \in decided /\ e.of.sig = c.key
          BY <2>2, <4>1, <4>3 DEF Authentic, ClientRpc!Vouched, ClientRpc!Transaction
        <5>2. e \in ClientRpc!Transactions
          BY <5>1 DEF ClientInv, Sources
        <5>3. ClientRpc!Vouched(c, e)
          BY <4>3, <5>1 DEF ClientRpc!Vouched
        <5> QED BY <5>2, <5>3 DEF Entries
      <4> QED BY <2>2, <4>2, <4>3
    <3> QED BY <3>1, <3>2
  <2>4. ClientRpc!Ok(e) \in Replies /\ Honest(c, ClientRpc!Ok(e)) /\ ClientRpc!Ok(e) # ClientRpc!Nothing
    BY <2>3 DEF ClientRpc!Ok, ClientRpc!Nothing, Replies, Honest
  <2> QED BY <1>1, <1>2, <1>3, <2>1, <2>4, AnswerServing DEF c
<1>6. CASE ClientRpc!Hit(w) /\ ~ClientRpc!Decodes(w)
  <2>1. ClientRpc!Goto(w, "drop") /\ UNCHANGED sofar
    BY <1>6 DEF ClientRpc!Hit
  <2>2. c.method = "transaction"
    BY <1>1, <1>6, CallKnown DEF ClientRpc!Decodes
  <2> QED BY <1>1, <1>2, <1>3, <1>4, <2>1, <2>2, MovesOn
<1>7. CASE ClientRpc!Miss(w)
  BY <1>1, <1>2, <1>3, <1>4, <1>7, MovesOn DEF ClientRpc!Miss
<1> QED BY <1>2, <1>5, <1>6, <1>7

(* A transaction that does not decode is taken out of the cache.           *)
LEMMA DropServing ==
  ASSUME ClientInv, SpvInv, NEW w \in Handlers, ClientRpc!Drop(w)
  PROVE  /\ ClientInv' /\ NullsCurrent
         /\ at[w] = "drop" /\ ClientRpc!CallOf(w).key \notin Blocks \cup Heights
         /\ cache' = Remove(cache, ClientRpc!CallOf(w).key)
<1> DEFINE c == ClientRpc!CallOf(w)
<1>1. Serving(w) /\ at[w] = "drop" /\ at[w] \in InCall /\ c.method = "transaction"
  BY DEF ClientInv, Servings, Serving, InCall, ClientRpc!Drop
<1>2. /\ UNCHANGED <<block, vouched, decided, post, sofar, held>> /\ ClientRpc!Goto(w, "query")
      /\ cache' = Remove(cache, c.key)
  BY DEF ClientRpc!Drop, ClientRpc!Remove, Remove
<1>3. c.key \notin Blocks \cup Heights
  BY <1>1, CallKnown
<1>4. \A k \in DOMAIN cache' : k \in DOMAIN cache /\ cache'[k] = cache[k]
  BY <1>2 DEF Remove
<1>5. Grown /\ Sources' /\ RestAuthentic'
  BY <1>2, <1>4, SourcesKept, RestKept DEF ClientInv
<1>6. DOMAIN held' = Handlers
  BY <1>2 DEF ClientInv, Servings
<1> QED BY <1>1, <1>2, <1>3, <1>5, <1>6, MovesOn

(* What is fetched is for the call in progress; a receipt is of a          *)
(* transaction that has a home chain and so is not asked for by the hash   *)
(* of a block.                                                             *)
LEMMA FetchServing ==
  ASSUME ClientInv, NEW w \in Handlers, ClientRpc!FetchReceipt(w) \/ ClientRpc!FetchTransaction(w)
  PROVE  ClientInv' /\ NullsCurrent /\ cache' = cache
<1> DEFINE c == ClientRpc!CallOf(w)
<1>1. Serving(w) /\ at[w] = "query" /\ at[w] \in InCall /\ Sources /\ Servings
  BY DEF ClientInv, Servings, InCall, ClientRpc!FetchReceipt, ClientRpc!FetchTransaction
<1>2. UNCHANGED <<block, vouched, cache, post>>
  BY DEF ClientRpc!FetchReceipt, ClientRpc!FetchTransaction
<1>3. /\ c.method = "receipt" => c.key \in Hashes /\ c.key \notin Signatures
      /\ c.method = "transaction" => c.key \in Signatures
      /\ post[w].route \in ClientRpc!Routes
  BY <1>1, CallKnown
<1>5. CASE ClientRpc!FetchReceipt(w) /\ ClientRpc!Included(w)
  <2>1. /\ c.method = "receipt" /\ UNCHANGED <<decided, sofar>> /\ ClientRpc!Goto(w, "store")
        /\ held' = [held EXCEPT ![w] = ClientRpc!ReceiptIn(c.key, block[c.key])]
        /\ block[c.key] # NotFound
        /\ Home[c.key] = ClientRpc!ClientOf(post[w].route)
    BY <1>5 DEF ClientRpc!FetchReceipt, ClientRpc!Included
  <2>2. Home[c.key] \in ClientRpc!Chains
    BY <2>1 DEF ClientRpc!ClientOf, ClientRpc!Chains
  <2>3. c.key \notin Blocks
    BY <1>3, <2>1, <2>2, ClientAssumption, KeyAssumption
  <2>4. block[c.key] \in vouched[c.key] /\ vouched' = vouched
    BY <1>1, <1>2, <1>3, <2>1 DEF Sources
  <2>5. held'[w] = ClientRpc!ReceiptIn(c.key, block[c.key])
        /\ DOMAIN held' = Handlers /\ \A v \in Handlers \ {w} : held'[v] = held[v]
    BY <1>1, <2>1 DEF Servings
  <2>6. sofar' = sofar /\ ClientRpc!CallOf(w)' = c
    BY <1>2, <2>1 DEF ClientRpc!CallOf
  <2>7. Given(ClientRpc!CallOf(w), held[w])'
    <3> HIDE DEF c
    <3>1. ClientRpc!Vouched(c, held'[w])
      BY <2>1, <2>4, <2>5 DEF ClientRpc!Vouched
    <3>2. ClientRpc!Vouched(ClientRpc!CallOf(w), held[w])'
      BY <2>1, <2>4, <2>5, <2>6 DEF ClientRpc!Vouched, ClientRpc!ReceiptIn, ClientRpc!Entry
    <3> QED BY <2>3, <2>6, <3>2 DEF Given
  <2>8. Grown /\ Sources' /\ RestAuthentic'
    BY <1>2, <2>1, SourcesKept, RestKept DEF ClientInv
  <2>9. ClientInv' /\ NullsCurrent
    BY <1>1, <1>2, <2>1, <2>5, <2>7, <2>8, MovesOn
  <2> QED BY <1>2, <2>9
<1>6. CASE ClientRpc!FetchReceipt(w) /\ ~ClientRpc!Included(w)
  <2>1. ClientRpc!Reply(w, ClientRpc!Nothing) /\ UNCHANGED <<held, decided>>
    BY <1>6 DEF ClientRpc!FetchReceipt
  <2>2. ClientRpc!Nothing \in Replies /\ Honest(c, ClientRpc!Nothing)
    BY DEF Honest, ClientRpc!Nothing, Replies
  <2>3. Grown /\ Sources' /\ RestAuthentic'
    BY <1>2, <2>1, SourcesKept, RestKept DEF ClientInv
  <2> QED BY <1>1, <1>2, <1>6, <2>1, <2>2, <2>3, AnswerServing
<1>7. CASE ClientRpc!FetchTransaction(w)
  <2>1. PICK decodes \in BOOLEAN :
           /\ c.method = "transaction" /\ UNCHANGED sofar /\ ClientRpc!Goto(w, "store")
           /\ held' = [held EXCEPT ![w] = ClientRpc!TransactionOf(c.key, decodes)]
           /\ decided' = decided \cup {ClientRpc!TransactionOf(c.key, decodes)}
    BY <1>7 DEF ClientRpc!FetchTransaction
  <2> DEFINE e == ClientRpc!TransactionOf(c.key, decodes)
  <2>2. e \in ClientRpc!Transactions /\ e.of.sig = c.key
    BY <1>3, <2>1 DEF ClientRpc!Transactions, ClientRpc!TransactionOf, ClientRpc!Entry
  <2>3. Grown /\ Sources'
    BY <1>1, <1>2, <2>1, <2>2 DEF Sources, Grown
  <2>4. RestAuthentic'
    BY <1>2, <2>3, RestKept DEF ClientInv
  <2>5. held'[w] = e
        /\ DOMAIN held' = Handlers /\ \A v \in Handlers \ {w} : held'[v] = held[v]
    BY <1>1, <2>1 DEF Servings
  <2>6. sofar' = sofar /\ ClientRpc!CallOf(w)' = c
    BY <1>2, <2>1 DEF ClientRpc!CallOf
  <2>7. Given(ClientRpc!CallOf(w), held[w])'
    <3>1. e \in decided'
      BY <2>1
    <3> HIDE DEF c, e
    <3>2. ClientRpc!Vouched(ClientRpc!CallOf(w), held[w])'
      BY <2>1, <2>5, <2>6, <2>2, <3>1 DEF ClientRpc!Vouched
    <3> QED BY <2>1, <2>6, <3>2 DEF Given
  <2>8. ClientInv' /\ NullsCurrent
    BY <1>1, <1>2, <2>1, <2>3, <2>4, <2>5, <2>7, MovesOn
  <2> QED BY <1>2, <2>8
<1> QED BY <1>5, <1>6, <1>7

(* What is inserted is authentic and under no block hash or height.        *)
LEMMA StoreServing ==
  ASSUME ClientInv, SpvInv, NEW w \in Handlers, ClientRpc!Store(w)
  PROVE  /\ ClientInv' /\ NullsCurrent
         /\ ClientRpc!CallOf(w).key \in Keys \ (Blocks \cup Heights)
         /\ cache' = Insert(cache, ClientRpc!CallOf(w).key, held[w])
<1> DEFINE c == ClientRpc!CallOf(w)
           e == held[w]
<1>1. Serving(w) /\ at[w] = "store" /\ at[w] \in InCall /\ Sources /\ Servings /\ Bounded(cache)
  BY DEF ClientInv, SpvInv, Servings, InCall, ClientRpc!Store
<1>2. Given(c, e) /\ c.method # "other"
  BY <1>1 DEF Serving
<1>3. UNCHANGED <<block, vouched, decided, post, held>> /\ ClientRpc!Reply(w, ClientRpc!Ok(e))
  BY DEF ClientRpc!Store
<1>4. cache' = Insert(cache, c.key, e)
  BY DEF ClientRpc!Store, ClientRpc!Insert, ClientRpc!Evicted, ClientRpc!IsFirst, ClientRpc!Cardinality,
         Insert, Evicted, IsFirst, Cardinality
<1>5. /\ c.method \in {"receipt", "transaction"} /\ c.key \in Keys
      /\ c.method = "receipt" => c.key \in Hashes /\ c.key \notin Signatures /\ c.key \notin Heights
      /\ c.method = "transaction" => c.key \in Signatures /\ c.key \notin Blocks \cup Heights
  BY <1>1, <1>2, CallKnown
<1> HIDE DEF c, e
<1>6. c.key \in Keys \ (Blocks \cup Heights)
  BY <1>2, <1>5 DEF Given
<1>7. /\ c.method = "receipt" => \E b \in vouched[c.key] : e = ClientRpc!ReceiptIn(c.key, b)
      /\ c.method = "transaction" => e \in decided /\ e.of.sig = c.key
  BY <1>2 DEF Given, ClientRpc!Vouched
<1>8. Authentic(c.key, e)
  <2>1. CASE c.method = "receipt"
    BY <1>5, <1>7, <2>1 DEF Authentic, ClientRpc!Vouched, ClientRpc!Receipt
  <2>2. CASE c.method = "transaction"
    BY <1>5, <1>7, <2>2 DEF Authentic, ClientRpc!Vouched, ClientRpc!Transaction
  <2> QED BY <1>5, <2>1, <2>2
<1>9. e \in Entries
  <2>1. CASE c.method = "receipt"
    <3>1. PICK b \in vouched[c.key] : e = ClientRpc!ReceiptIn(c.key, b)
      BY <1>7, <2>1
    <3>2. b \in EthBlocks /\ c.key \in Hashes
      BY <1>1, <1>5, <2>1 DEF Sources
    <3> QED BY <3>1, <3>2 DEF Entries, ClientRpc!Receipts
  <2>2. CASE c.method = "transaction"
    BY <1>1, <1>7, <2>2 DEF Entries, Sources
  <2> QED BY <1>5, <2>1, <2>2
<1>10. Grown /\ Sources'
  BY <1>1, <1>3, SourcesKept
<1>11. RestAuthentic'
  <2>1. \A k \in DOMAIN cache' \ (Blocks \cup Heights) : Authentic(k, cache'[k])
    BY <1>1, <1>4, <1>6, <1>8, InsertFacts DEF ClientInv, RestAuthentic
  <2> SUFFICES ASSUME NEW k \in DOMAIN cache' \ (Blocks \cup Heights) PROVE Authentic(k, cache[k])'
    BY DEF RestAuthentic
  <2>2. Authentic(k, cache'[k])
    BY <2>1
  <2> QED BY <1>10, <2>2, AuthenticKept
<1>12. ClientRpc!Ok(e) \in Replies /\ Honest(c, ClientRpc!Ok(e)) /\ ClientRpc!Ok(e) # ClientRpc!Nothing
  BY <1>2, <1>9 DEF ClientRpc!Ok, ClientRpc!Nothing, Replies, Honest, Given
<1>13. ClientInv' /\ NullsCurrent
  BY <1>1, <1>3, <1>10, <1>11, <1>12, AnswerServing DEF c, e
<1> QED BY <1>4, <1>6, <1>13 DEF c, e

------------------------------------------------------------------------------
(* The two together.                                                       *)

(* What getblockheader has answered to a hash that is no block's: what may *)
(* stand in the cache under it.                                            *)
ForeignAnswers ==
    \A r \in Requests : Answered(r, "header") /\ call[r].arg \notin Blocks
        => Authentic(call[r].arg, result[r].entry)

AllInv == SpvInv /\ ClientInv /\ ForeignAnswers

(* How a step may change the cache.                                        *)
CacheStep ==
    \/ cache' = cache
    \/ \E k \in Keys : \E e : cache' = Insert(cache, k, e)
    \/ \E w \in Handlers : /\ at[w] = "drop"
                           /\ cache' = Remove(cache, ClientRpc!CallOf(w).key)

(* At the start nothing is cached and nothing was asked for.               *)
LEMMA InitAll == ASSUME AllInit PROVE AllInv
<1>1. SpvInv
  BY InitSpv DEF AllInit
<1>2. ClientRpc!Init
  BY DEF AllInit
<1>3. Sources
  BY <1>2 DEF Sources, ClientRpc!Init
<1>4. RestAuthentic
  BY <1>2 DEF RestAuthentic, ClientRpc!Init, ClientRpc!EmptyCache
<1>5. ASSUME NEW w \in Handlers PROVE Serving(w)
  <2>1. at[w] = "idle" /\ sofar[w] = <<>> /\ post[w].calls = <<>>
    BY <1>2 DEF ClientRpc!Init, ClientRpc!NoPost
  <2>2. \A S : <<>> \in Seq(S)
    BY EmptySeq
  <2>3. Len(<<>>) = 0
    BY EmptySeq
  <2> QED BY <2>1, <2>2, <2>3 DEF Serving, InCall
<1>6. Servings
  BY <1>2, <1>5 DEF Servings, ClientRpc!Init
<1>7. ForeignAnswers
  BY DEF ForeignAnswers, Answered, AllInit, Init
<1> QED BY <1>1, <1>3, <1>4, <1>6, <1>7 DEF AllInv, ClientInv

(* No client of a chain unlearns anything.                                 *)
LEMMA ClientGrows ==
  ASSUME ClientInv, ClientInv', ClientRpc!Step
  PROVE  Grown
<1>1. Sources /\ Sources'
  BY DEF ClientInv
<1>2. ASSUME NEW h \in Hashes, NEW b \in EthBlocks \cup {NotFound}, ClientRpc!HeliosMoves(h, b)
      PROVE  Grown
  BY <1>1, <1>2 DEF ClientRpc!HeliosMoves, Sources, Grown
<1>3. ASSUME NEW w \in Handlers, ClientRpc!Handler(w)
      PROVE  vouched' = vouched /\ decided \subseteq decided'
  BY <1>3 DEF ClientRpc!Handler, ClientRpc!Post, ClientRpc!PutThrough, ClientRpc!PutToSolana, ClientRpc!Hit,
              ClientRpc!Drop, ClientRpc!Miss, ClientRpc!FetchReceipt, ClientRpc!FetchTransaction,
              ClientRpc!FetchFails, ClientRpc!Store
<1> QED BY <1>1, <1>2, <1>3 DEF ClientRpc!Step, Sources, Grown

(* What was answered as a header stays authentic while no request of       *)
(* SpvRpc is answered.                                                     *)
LEMMA ForeignKept ==
  ASSUME ForeignAnswers, Grown, UNCHANGED <<pc, call, result>>
  PROVE  ForeignAnswers'
<1> SUFFICES ASSUME NEW r \in Requests, Answered(r, "header"), call[r].arg \notin Blocks
             PROVE  Authentic(call[r].arg, result[r].entry)'
  BY DEF ForeignAnswers, Answered
<1> DEFINE k == call[r].arg
           e == result[r].entry
<1>1. Authentic(k, e) /\ call' = call /\ result' = result
  BY DEF ForeignAnswers
<1> HIDE DEF k, e
<1>2. Authentic(k, e)'
  BY <1>1, AuthenticKept DEF k, e
<1> QED BY <1>2 DEF k, e

(* A step of the Ethereum, Optimism and Solana handlers.                   *)
LEMMA ClientSteps ==
  ASSUME AllInv, ClientStep
  PROVE  AllInv' /\ NullsCurrent /\ CacheStep
<1>1. SpvInv /\ ClientInv /\ UNCHANGED ownOfSpv /\ Bounded(cache)
  BY DEF AllInv, SpvInv, ClientStep
<1>2. /\ ClientInv' /\ NullsCurrent
      /\ \/ cache' = cache
         \/ \E k \in Keys \ (Blocks \cup Heights) : \E e : cache' = Insert(cache, k, e)
         \/ \E w \in Handlers : /\ at[w] = "drop"
                                /\ cache' = Remove(cache, ClientRpc!CallOf(w).key)
  <2>1. ASSUME NEW h \in Hashes, NEW b \in EthBlocks \cup {NotFound}, ClientRpc!HeliosMoves(h, b)
        PROVE  ClientInv' /\ NullsCurrent /\ cache' = cache
    BY <1>1, <2>1, HeliosServing, NoAnswer
  <2>2. ASSUME NEW w \in Handlers, ClientRpc!Handler(w)
        PROVE  /\ ClientInv' /\ NullsCurrent
               /\ \/ cache' = cache
                  \/ \E k \in Keys \ (Blocks \cup Heights) : \E e : cache' = Insert(cache, k, e)
                  \/ at[w] = "drop" /\ cache' = Remove(cache, ClientRpc!CallOf(w).key)
    <3>1. CASE \E route \in ClientRpc!Routes : \E body \in Payloads[route] : ClientRpc!Post(w, route, body)
      BY <1>1, <3>1, PostServing, NoAnswer
    <3>2. CASE ClientRpc!PutThrough(w) \/ ClientRpc!PutToSolana(w) \/ ClientRpc!FetchFails(w)
      BY <1>1, <3>2, ThroughServing
    <3>3. CASE ClientRpc!Hit(w) \/ ClientRpc!Miss(w)
      BY <1>1, <3>3, LookupServing
    <3>4. CASE ClientRpc!Drop(w)
      BY <1>1, <3>4, DropServing
    <3>5. CASE ClientRpc!FetchReceipt(w) \/ ClientRpc!FetchTransaction(w)
      BY <1>1, <3>5, FetchServing
    <3>6. CASE ClientRpc!Store(w)
      BY <1>1, <3>6, StoreServing
    <3> QED BY <2>2, <3>1, <3>2, <3>3, <3>4, <3>5, <3>6 DEF ClientRpc!Handler
  <2> QED BY <2>1, <2>2 DEF ClientStep, ClientRpc!Step
<1>3. Bounded(cache') /\ \A k \in DOMAIN cache' \cap (Blocks \cup Heights) : k \in DOMAIN cache /\ cache'[k] = cache[k]
  <2>1. CASE cache' = cache
    BY <1>1, <2>1
  <2>2. CASE \E k \in Keys \ (Blocks \cup Heights) : \E e : cache' = Insert(cache, k, e)
    BY <1>1, <2>2, InsertFacts
  <2>3. CASE \E k : cache' = Remove(cache, k)
    <3>1. PICK k : cache' = Remove(cache, k)
      BY <2>3
    <3>2. Bounded(cache') /\ DOMAIN cache' = DOMAIN cache \ {k} /\ \A j \in DOMAIN cache' : cache'[j] = cache[j]
      BY <1>1, <3>1, RemoveFacts
    <3> QED BY <3>2
  <2> QED BY <1>2, <2>1, <2>2, <2>3
<1>4. Tips' /\ EverSeen' = EverSeen /\ seen' = seen
  BY <1>1 DEF SpvInv, Tips, EverSeen
<1>5. HeadersGenuine'
  BY <1>1, <1>3, <1>4 DEF SpvInv, HeadersGenuine, Genuine, HeightOf, IsHeader
<1>6. \A r \in Requests : Handling(r)'
  BY <1>1, <1>4, HandlingKept DEF SpvInv, Handlings
<1>7. SpvInv'
  BY <1>1, <1>3, <1>4, <1>5, <1>6 DEF SpvInv, Handlings
<1>8. ForeignAnswers'
  BY <1>1, <1>2, ClientGrows, ForeignKept DEF AllInv, ClientStep
<1> QED BY <1>2, <1>7, <1>8 DEF AllInv, CacheStep

(* A step of the Bitcoin and Dogecoin handlers or P2P clients.             *)
LEMMA SpvSteps ==
  ASSUME AllInv, SpvStep
  PROVE  AllInv' /\ NullsCurrent /\ CacheStep
<1>1. SpvInv /\ ClientInv /\ UNCHANGED ownOfClient /\ Bounded(cache)
  BY DEF AllInv, SpvInv, SpvStep
<1>2. /\ SpvInv'
      /\ \/ cache' = cache
         \/ \E k \in Blocks \cup Heights : \E e : cache' = Insert(cache, k, e)
  BY <1>1, StepSpv DEF SpvStep
<1>3. \A k \in DOMAIN cache' \ (Blocks \cup Heights) : k \in DOMAIN cache /\ cache'[k] = cache[k]
  BY <1>1, <1>2, InsertFacts, NetAssumption
<1>4. Grown /\ Sources' /\ RestAuthentic'
  BY <1>1, <1>3, SourcesKept, RestKept DEF ClientInv
<1>5. \A w \in Handlers : Serving(w)'
  BY <1>1, <1>4, ServingKept DEF ClientInv, Servings
<1>6. ClientInv'
  BY <1>1, <1>4, <1>5 DEF ClientInv, Servings
<1>7. ASSUME NEW r \in Requests, Answered(r, "header")', call'[r].arg \notin Blocks
      PROVE  Authentic(call'[r].arg, result'[r].entry)
  <2>1. CASE Answered(r, "header") /\ call'[r] = call[r] /\ result'[r] = result[r]
    BY <1>7, <2>1 DEF AllInv, ForeignAnswers
  <2>2. CASE /\ call'[r].arg \in DOMAIN cache /\ call'[r].arg \in OtherHashes
             /\ result'[r] = Answer(cache[call'[r].arg])
    BY <1>1, <2>2, NetAssumption DEF ClientInv, RestAuthentic, Answer
  <2> QED BY <1>1, <1>7, <2>1, <2>2, HeaderAnswers DEF SpvStep
<1>8. ForeignAnswers'
  BY <1>1, <1>7 DEF ForeignAnswers, Authentic, ClientRpc!Vouched
<1> QED BY <1>1, <1>2, <1>6, <1>8, NoAnswer, NetAssumption DEF AllInv, CacheStep

(* Every step, and no step.                                                *)
LEMMA NextAll ==
  ASSUME AllInv, [AllNext]_<<vars, ownOfClient>>
  PROVE  AllInv' /\ NullsCurrent /\ CacheStep
<1>1. CASE UNCHANGED <<vars, ownOfClient>>
  <2>1. SpvInv'
    BY <1>1, QuietSpv DEF AllInv
  <2>2. ClientInv'
    <3>1. Grown /\ Sources' /\ RestAuthentic'
      BY <1>1, SourcesKept, RestKept DEF AllInv, ClientInv
    <3>2. \A w \in Handlers : Serving(w)'
      BY <1>1, <3>1, ServingKept DEF AllInv, ClientInv, Servings
    <3> QED BY <1>1, <3>1, <3>2 DEF AllInv, ClientInv, Servings
  <2>3. NullsCurrent
    BY <1>1, NoAnswer DEF AllInv
  <2>4. ForeignAnswers'
    BY <1>1, SourcesKept, ForeignKept DEF AllInv, ClientInv
  <2> QED BY <1>1, <2>1, <2>2, <2>3, <2>4 DEF AllInv, CacheStep
<1> QED BY <1>1, ClientSteps, SpvSteps DEF AllNext, Quiet, ClientRpc!Quiet

(* The invariant implies each of the state properties.                     *)
LEMMA AllImplies ==
  ASSUME AllInv
  PROVE  ClientTypeOK /\ KeysApart /\ HeaderOrReceipt /\ AnswersGenuine
<1>1. SpvInv /\ ClientInv /\ Sources /\ Servings
  BY DEF AllInv, ClientInv
<1>2. HeaderOrReceipt
  <2> SUFFICES ASSUME NEW r \in Requests, Answered(r, "header")
               PROVE  IF call[r].arg \in Blocks
                      THEN IsHeaderOf(result[r].entry, call[r].arg) /\ call[r].arg \in EverSeen
                      ELSE /\ call[r].arg \in Hashes
                           /\ ClientRpc!Vouched(ClientRpc!Receipt(call[r].arg), result[r].entry)
    BY DEF HeaderOrReceipt
  <2>1. /\ call[r] \in Calls /\ call[r].kind = "header"
        /\ Right(call[r], proof[r], result[r].entry)
    BY <1>1 DEF Answered, SpvInv, Handlings, Handling
  <2>2. call[r].arg \in Blocks \cup OtherHashes
    BY <2>1 DEF Calls
  <2>3. CASE call[r].arg \in Blocks
    BY <2>1, <2>3 DEF Right, Genuine, IsHeaderOf
  <2>4. CASE call[r].arg \in OtherHashes /\ call[r].arg \notin Blocks
    BY <2>4, KeyAssumption DEF AllInv, ForeignAnswers, Authentic
  <2> QED BY <2>2, <2>3, <2>4
<1>3. AnswersGenuine
  BY <1>1 DEF AnswersGenuine, Servings, Serving, Honest
<1>4. KeysApart
  <2> SUFFICES ASSUME NEW k \in DOMAIN cache
               PROVE  CASE k \in Blocks     -> IsHeaderOf(cache[k], k)
                        [] k \in Heights    -> IsHeader(cache[k]) /\ HeightOf(cache[k].of) = k
                        [] k \in Signatures -> ClientRpc!Vouched(ClientRpc!Transaction(k, TRUE), cache[k])
                        [] OTHER            -> ClientRpc!Vouched(ClientRpc!Receipt(k), cache[k])
    BY DEF KeysApart
  <2>1. CASE k \in Blocks
    <3>1. IsHeaderOf(cache[k], k)
      BY <1>1, <2>1 DEF SpvInv, HeadersGenuine, Genuine, IsHeaderOf
    <3> QED BY <2>1, <3>1, NetAssumption, KeyAssumption
  <2>2. CASE k \in Heights
    <3>1. IsHeader(cache[k]) /\ HeightOf(cache[k].of) = k
      BY <1>1, <2>2 DEF SpvInv, HeadersGenuine, Genuine
    <3> QED BY <2>2, <3>1, NetAssumption, KeyAssumption
  <2>3. CASE k \notin Blocks \cup Heights
    BY <1>1, <2>3 DEF ClientInv, RestAuthentic, Authentic
  <2> QED BY <2>1, <2>2, <2>3
<1>5. ClientTypeOK
  <2>1. ASSUME NEW w \in Handlers, at[w] = "store"
        PROVE  held[w] \in ClientRpc!Receipts \cup ClientRpc!Transactions
    <3> DEFINE c == ClientRpc!CallOf(w)
    <3>1. Serving(w) /\ at[w] \in InCall
      BY <1>1, <2>1 DEF Servings, InCall
    <3>2. /\ Given(c, held[w]) /\ c.method \in {"receipt", "transaction"}
          /\ c.method = "receipt" => c.key \in Hashes
          /\ c.method = "transaction" => c.key \in Signatures
      BY <2>1, <3>1, CallKnown DEF Serving
    <3> HIDE DEF c
    <3>3. CASE c.method = "receipt"
      <4>1. PICK b \in vouched[c.key] : held[w] = ClientRpc!ReceiptIn(c.key, b)
        BY <3>2, <3>3 DEF Given, ClientRpc!Vouched
      <4>2. b \in EthBlocks /\ c.key \in Hashes
        BY <1>1, <3>2, <3>3 DEF Sources
      <4> QED BY <4>1, <4>2 DEF ClientRpc!Receipts
    <3>4. CASE c.method = "transaction"
      BY <1>1, <3>2, <3>4 DEF Given, ClientRpc!Vouched, Sources
    <3> QED BY <3>2, <3>3, <3>4
  <2>2. at \in [Handlers -> {"idle", "serve", "drop", "query", "store", "done", "rejected"}]
    BY <1>1 DEF Servings, Serving, InCall
  <2>3. \A w \in Handlers : Len(sofar[w]) <= Len(post[w].calls)
    BY <1>1 DEF Servings, Serving
  <2> QED BY <1>1, <2>1, <2>2, <2>3 DEF ClientTypeOK, ClientRpc!TypeOK, Sources
<1> QED BY <1>2, <1>3, <1>4, <1>5

(* What leaves the cache leaves it alone, from a full cache or for not     *)
(* having decoded.                                                         *)
LEMMA LeavesAlone ==
  ASSUME AllInv, CacheStep, NEW k \in DOMAIN cache \ DOMAIN cache'
  PROVE  /\ DOMAIN cache \ {k} \subseteq DOMAIN cache'
         /\ \/ Cardinality(DOMAIN cache) = CacheSize /\ IsFirst(cache, k)
            \/ Dropped(k)
<1>1. Bounded(cache) /\ cache' # cache
  BY DEF AllInv, SpvInv
<1>2. CASE \E j \in Keys : \E e : cache' = Insert(cache, j, e)
  BY <1>1, <1>2, InsertFacts
<1>3. CASE \E w \in Handlers : at[w] = "drop" /\ cache' = Remove(cache, ClientRpc!CallOf(w).key)
  <2>1. PICK w \in Handlers : at[w] = "drop" /\ cache' = Remove(cache, ClientRpc!CallOf(w).key)
    BY <1>3
  <2> DEFINE j == ClientRpc!CallOf(w).key
  <2> HIDE DEF j
  <2>2. DOMAIN cache' = DOMAIN cache \ {j}
    BY <1>1, <2>1, RemoveFacts DEF j
  <2> QED BY <2>1, <2>2 DEF j, Dropped
<1> QED BY <1>1, <1>2, <1>3 DEF CacheStep

(* The invariant holds of every behaviour of all the endpoints.            *)
THEOREM AllInvHolds == AllSpec => []AllInv
<1>1. AllInit => AllInv
  BY InitAll
<1>2. AllInv /\ [AllNext]_<<vars, ownOfClient>> => AllInv'
  BY NextAll
<1> QED BY <1>1, <1>2, PTL DEF AllSpec

(* The variables of the Ethereum, Optimism and Solana handlers keep their  *)
(* types; what is about to be stored is a receipt or a transaction.        *)
THEOREM ClientTypeCorrect == AllSpec => []ClientTypeOK
<1>1. AllInv => ClientTypeOK
  BY AllImplies
<1> QED BY <1>1, AllInvHolds, PTL

(* Under a key stands only what belongs there: a receipt never under the   *)
(* hash of a block, nor a header under the hash of a transaction.          *)
THEOREM KeysStayApart == AllSpec => []KeysApart
<1>1. AllInv => KeysApart
  BY AllImplies
<1> QED BY <1>1, AllInvHolds, PTL

(* getblockheader answers to a block's hash with the header of that block  *)
(* also when the other chains' handlers share the cache, and to any other  *)
(* hash with nothing but the receipt cached under it.                      *)
THEOREM HeadersOrReceipts == AllSpec => []HeaderOrReceipt
<1>1. AllInv => HeaderOrReceipt
  BY AllImplies
<1> QED BY <1>1, AllInvHolds, PTL

(* Whoever put it into the cache, an answer is to its own call and is what *)
(* the client of the chain once gave.                                      *)
THEOREM AnswersStayGenuine == AllSpec => []AnswersGenuine
<1>1. AllInv => AnswersGenuine
  BY AllImplies
<1> QED BY <1>1, AllInvHolds, PTL

(* A null answer to a receipt is never from an earlier moment.             *)
THEOREM NullsStayCurrent == AllSpec => NullIsCurrent
<1>1. AllInv /\ [AllNext]_<<vars, ownOfClient>> => NullsCurrent
  BY NextAll
<1>2. AllInv /\ [AllNext]_<<vars, ownOfClient>> =>
        [\A w \in Handlers : \A i \in Len(sofar[w]) + 1 .. Len(sofar'[w]) :
            sofar'[w][i] = ClientRpc!Nothing /\ post[w].calls[i].method = "receipt"
                => ~ClientRpc!Included(w)]_<<vars, ownOfClient>>
  BY <1>1 DEF NullsCurrent
<1> QED BY <1>2, AllInvHolds, PTL DEF AllSpec, NullIsCurrent

(* An entry leaves the cache only as the first of a full one or when a     *)
(* handler drops a transaction that did not decode, and never together     *)
(* with another.                                                           *)
THEOREM EvictionsWhenFull == AllSpec => EvictsWhenFull
<1>1. AllInv /\ [AllNext]_<<vars, ownOfClient>> =>
        [\A k \in DOMAIN cache \ DOMAIN cache' :
            /\ DOMAIN cache \ {k} \subseteq DOMAIN cache'
            /\ \/ Cardinality(DOMAIN cache) = CacheSize /\ IsFirst(cache, k)
               \/ Dropped(k)]_cache
  BY NextAll, LeavesAlone
<1> QED BY <1>1, AllInvHolds, PTL DEF AllSpec, EvictsWhenFull
===============================================================================
