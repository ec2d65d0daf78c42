--------------------------- MODULE HeaderDownload ----------------------------
(***************************************************************************)
(* The JSON-RPC client of a full node (daemon.rs): calls are cut into HTTP *)
(* exchanges, each of which carries a batch of requests with the id of     *)
(* the call.  The indexer's thread downloads headers, with one call for    *)
(* every step, while handlers of verify_tx fetch proofs through the same   *)
(* client and the same counter of ids.  Between two exchanges the node may *)
(* follow a reorganisation; an exchange may fail, and the replies of a     *)
(* batch may come in another order, incomplete, with errors, or be those   *)
(* of an exchange that is long over.                                       *)
(***************************************************************************)
EXTENDS HeaderList, SequencesExt

CONSTANTS
    BatchSize,      \* requests of one exchange (10000 in the code)
    HeightChunk,    \* headers downloaded by one pair of calls (100000 in the code)
    Txids           \* transactions to prove, each by a handler of its own

ASSUME BatchAssumption == BatchSize \in Nat \ {0} /\ HeightChunk \in Nat \ {0}

(* A handler is not the indexer.                                           *)
ASSUME CallersAssumption == "indexer" \notin Txids

Callers == {"indexer"} \cup Txids

VARIABLES
    dtip,       \* the node's best block
    last,       \* the last id given out (message_id)
    past,       \* batches of replies the node has sent so far
    at,         \* where each caller stands
    id,         \* the id of its call
    ask,        \* the requests of its call that are still to be sent
    got,        \* the results of its call so far
    list,       \* the indexer's header list
    target,     \* the block the indexer wants to reach
    todo,       \* the heights it still has to download
    headers,    \* the headers it has
    proof       \* the transaction each handler's proof is about

call    == <<last, id, ask, got>>
indexer == <<list, target, todo, headers>>
vars == <<dtip, past, call, at, indexer, proof>>

(* JSON values, as far as the parsers of results tell them apart.          *)
Json(type, of) == [type |-> type, of |-> of]
NullResult == Json("null", Null)
Missing    == Json("missing", Null)
Bad        == Json("bad", Null)

Query(method, arg) == [method |-> method, arg |-> arg]

Init ==
    /\ dtip \in {b \in Blocks : Prev[b] = Null}
    /\ last = 0 /\ past = {}
    /\ at  = [c \in Callers |-> "idle"]
    /\ id  = [c \in Callers |-> 0]
    /\ ask = [c \in Callers |-> <<>>]
    /\ got = [c \in Callers |-> <<>>]
    /\ list = Empty /\ target = Null /\ todo = <<>> /\ headers = <<>>
    /\ proof = [x \in Txids |-> Null]

(* The node adopts a chain with more work.                                 *)
NodeMoves ==
    /\ \E b \in Blocks : Work[b] > Work[dtip] /\ dtip' = b
    /\ UNCHANGED <<past, call, at, indexer, proof>>

------------------------------------------------------------------------------
(* The node (external): what it replies to one request at the moment.  It  *)
(* knows the headers of abandoned branches, but heights only on its chain. *)

Reply(i, error, result) == [id |-> i, error |-> error, result |-> result]

Result(q) ==
    CASE q.method = "info"   -> Json("info", Len(Chain[q.arg]) - 1)
      [] q.method = "proof"  -> Json("proof", q.arg)
      [] q.method = "hash"   -> IF q.arg < Len(Chain[dtip])
                                THEN Json("hash", Chain[dtip][q.arg + 1]) ELSE Bad
      [] q.method = "header" -> IF q.arg \in Blocks THEN Json("header", q.arg) ELSE Bad

Replied(q, i) ==
    IF Result(q) = Bad THEN Reply(i, "coded", Missing) ELSE Reply(i, "none", Result(q))

(* Errors: with a code; without one, which the client looks past.          *)
Errors(i) == {Reply(i, "coded", NullResult), Reply(i, "uncoded", NullResult),
              Reply(i, "uncoded", Missing)}

Orders(n) == {p \in [1 .. n -> 1 .. n] : \A j, k \in 1 .. n : p[j] = p[k] => j = k}

(* The batches of replies that may come back for the requests qs.          *)
Correct(qs, i) == [k \in 1 .. Len(qs) |-> Replied(qs[k], i)]
Replies(qs, i) ==
    LET right == Correct(qs, i)
    IN  {[k \in 1 .. Len(qs) |-> right[p[k]]] : p \in Orders(Len(qs))}
        \cup {[right EXCEPT ![k] = e] : k \in 1 .. Len(qs), e \in Errors(i)}
        \cup {SubSeq(right, 1, Len(qs) - 1)}
        \cup past

------------------------------------------------------------------------------
(* handle_request_batch.                                                   *)

Goto(c, s) == at' = [at EXCEPT ![c] = s]

(* Mutant of Call: the counter is read but not advanced.                   *)
CallWithOldId(c, qs) ==
    /\ last' = IF last = 0 THEN 1 ELSE last
    /\ id'  = [id EXCEPT ![c] = last']
    /\ ask' = [ask EXCEPT ![c] = qs]
    /\ got' = [got EXCEPT ![c] = <<>>]

(* A call takes the next id for all its requests.                          *)
Call(c, qs) ==
    /\ last' = last + 1
    /\ id'  = [id EXCEPT ![c] = last + 1]
    /\ ask' = [ask EXCEPT ![c] = qs]
    /\ got' = [got EXCEPT ![c] = <<>>]

(* Mutant of Parsed: a reply without a result passes.                      *)
ParsedMissing(r, i) == IF r.error = "coded" \/ r.id # i THEN Bad ELSE r.result

(* parse_jsonrpc_reply: an error without a code is looked past, a result   *)
(* that is null is a result.                                               *)
Parsed(r, i) ==
    IF r.error = "coded" \/ r.id # i \/ r.result = Missing THEN Bad ELSE r.result

Smaller(m, n) == IF m < n THEN m ELSE n
FirstOf(s, n) == SubSeq(s, 1, Smaller(n, Len(s)))
RestOf(s, n)  == SubSeq(s, Smaller(n, Len(s)) + 1, Len(s))

(* One exchange: the next requests go out, a batch of replies comes back.  *)
(* As the threshold is always zero, one bad reply fails the call; how many *)
(* replies there are is not compared with how many requests there were.    *)
Exchange(c) ==
    /\ ask[c] # <<>>
    /\ at[c] \notin {"failed", "panicked"}
    /\ LET qs == FirstOf(ask[c], BatchSize)
       IN  /\ past' = past \cup {Correct(qs, id[c])}
           /\ \E rs \in Replies(qs, id[c]) :
                 LET results == [k \in 1 .. Len(rs) |-> Parsed(rs[k], id[c])]
                 IN  IF \E k \in 1 .. Len(rs) : results[k] = Bad
                     THEN Goto(c, "failed") /\ UNCHANGED call
                     ELSE /\ got' = [got EXCEPT ![c] = @ \o results]
                          /\ ask' = [ask EXCEPT ![c] = RestOf(@, BatchSize)]
                          /\ UNCHANGED <<at, last, id>>
    /\ UNCHANGED <<dtip, indexer, proof>>

(* No connection, a timeout, or a body that is no array of replies.        *)
ExchangeFails(c) ==
    /\ ask[c] # <<>>
    /\ at[c] \notin {"failed", "panicked"}
    /\ Goto(c, "failed")
    /\ UNCHANGED <<dtip, past, call, indexer, proof>>

(* A call of c made at stage s has all its replies.                        *)
Complete(c, s) == at[c] = s /\ ask[c] = <<>>

AllAre(c, type) == \A k \in 1 .. Len(got[c]) : got[c][k].type = type

(* What request and the parser behind it make of the replies: request      *)
(* asserts that there is exactly one.                                      *)
One(c, type) ==
    CASE Len(got[c]) # 1 -> "panicked"
      [] Len(got[c]) = 1 /\ ~AllAre(c, type) -> "failed"
      [] OTHER -> "fine"

------------------------------------------------------------------------------
(* The indexer's thread: get_new_headers.                                  *)

(* The list may have been through a reorganisation from b to c.            *)
Reorganised(b, c) ==
    LET l   == Loaded(b)
        new == NewHeaders(l, c)
    IN  IF new = <<>> THEN l ELSE Applied(l, Ordered(l, new))

(* The walk back from the target ends at a block the list knows.           *)
Walk(l, b, hs) ==
    IF b = Null \/ Known(l, b)
    THEN Goto("indexer", "done") /\ headers' = Reverse(hs) /\ UNCHANGED call
    ELSE Goto("indexer", "walk") /\ headers' = hs /\ Call("indexer", <<Query("header", b)>>)

Start(l) ==
    /\ at["indexer"] = "idle"
    /\ list' = l /\ target' = dtip
    /\ IF l.headers = <<>>
       THEN Goto("indexer", "height") /\ Call("indexer", <<Query("info", dtip)>>) /\ UNCHANGED headers
       ELSE Walk(l, dtip, <<>>)
    /\ UNCHANGED <<dtip, past, todo, proof>>

(* One header of the walk: it is not compared with the hash asked for.     *)
StepBack ==
    /\ Complete("indexer", "walk")
    /\ LET verdict == One("indexer", "header")
           b == got["indexer"][1].of
       IN  IF verdict = "fine" THEN Walk(list, Prev[b], Append(headers, b))
           ELSE Goto("indexer", verdict) /\ UNCHANGED <<call, headers>>
    /\ UNCHANGED <<dtip, past, list, target, todo, proof>>

(* getblockheaders for the next chunk of heights begins with their hashes. *)
AskHashes(heights) ==
    LET chunk == FirstOf(heights, HeightChunk)
    IN  /\ Goto("indexer", "hashes")
        /\ Call("indexer", [k \in 1 .. Len(chunk) |-> Query("hash", chunk[k])])

(* The height of the target is known: anything else is not expected.       *)
HeightKnown ==
    /\ Complete("indexer", "height")
    /\ IF One("indexer", "info") = "fine"
       THEN LET heights == [k \in 1 .. got["indexer"][1].of + 1 |-> k - 1]
            IN  todo' = heights /\ AskHashes(heights)
       ELSE Goto("indexer", "panicked") /\ UNCHANGED <<call, todo>>
    /\ UNCHANGED <<dtip, past, list, target, headers, proof>>

(* The hashes are handed on as they came.                                  *)
HashesKnown ==
    /\ Complete("indexer", "hashes")
    /\ Goto("indexer", "headers")
    /\ Call("indexer", [k \in 1 .. Len(got["indexer"]) |-> Query("header", got["indexer"][k].of)])
    /\ UNCHANGED <<dtip, past, indexer, proof>>

(* Mutant of IsChainTo: only the linkage is asserted.                      *)
IsChain(hs, b) == \A k \in 1 .. Len(hs) : Prev[hs[k]] = IF k = 1 THEN Null ELSE hs[k - 1]

(* The final assertions of get_all_headers: from the all-zero hash every   *)
(* header names the one before, and the last one is the target.            *)
IsChainTo(hs, b) ==
    /\ \A k \in 1 .. Len(hs) : Prev[hs[k]] = IF k = 1 THEN Null ELSE hs[k - 1]
    /\ hs # <<>> /\ hs[Len(hs)] = b

(* Mutant of Chunk: more headers are waited for when some are missing.     *)
ChunkAwaited ==
    CASE ~AllAre("indexer", "header") -> "failed"
      [] AllAre("indexer", "header") /\ Len(got["indexer"]) # Smaller(HeightChunk, Len(todo)) ->
            "headers"
      [] OTHER -> "fine"

(* The headers of a chunk of heights: all parse, none is missing.          *)
Chunk ==
    CASE ~AllAre("indexer", "header") -> "failed"
      [] AllAre("indexer", "header") /\ Len(got["indexer"]) # Smaller(HeightChunk, Len(todo)) ->
            "panicked"
      [] OTHER -> "fine"

HeadersKnown ==
    /\ Complete("indexer", "headers")
    /\ LET hs == headers \o [k \in 1 .. Len(got["indexer"]) |-> got["indexer"][k].of]
           left == RestOf(todo, HeightChunk)
       IN  IF Chunk # "fine"
           THEN Goto("indexer", Chunk) /\ UNCHANGED <<call, headers, todo>>
           ELSE /\ headers' = hs /\ todo' = left
                /\ IF left # <<>> THEN AskHashes(left)
                   ELSE /\ Goto("indexer", IF IsChainTo(hs, target) THEN "done" ELSE "panicked")
                        /\ UNCHANGED call
    /\ UNCHANGED <<dtip, past, list, target, proof>>

------------------------------------------------------------------------------
(* A handler: gettxoutproof.                                               *)

AskProof(x) ==
    /\ at[x] = "idle"
    /\ Goto(x, "proof")
    /\ Call(x, <<Query("proof", x)>>)
    /\ UNCHANGED <<dtip, past, indexer, proof>>

ProofKnown(x) ==
    /\ Complete(x, "proof")
    /\ IF One(x, "proof") = "fine"
       THEN Goto(x, "done") /\ proof' = [proof EXCEPT ![x] = got[x][1].of]
       ELSE Goto(x, One(x, "proof")) /\ UNCHANGED proof
    /\ UNCHANGED <<dtip, past, call, indexer>>

------------------------------------------------------------------------------
Begin ==
    \/ Start(Empty)
    \/ \E b, c \in Blocks : Start(Reorganised(b, c))
    \/ \E x \in Txids : AskProof(x)

Proceed(c) ==
    \/ Exchange(c)
    \/ ExchangeFails(c)
    \/ c = "indexer" /\ (StepBack \/ HeightKnown \/ HashesKnown \/ HeadersKnown)
    \/ c \in Txids /\ ProofKnown(c)

Ended == {"done", "failed", "panicked"}

(* Every caller is through.                                                *)
Quiet == (\A c \in Callers : at[c] \in Ended) /\ UNCHANGED vars

Next ==
    \/ NodeMoves
    \/ Begin
    \/ \E c \in Callers : Proceed(c)
    \/ Quiet

Spec == Init /\ [][Next]_vars

(* The callers' threads run, and an exchange ends, by the 30 seconds after *)
(* which the HTTP client gives up at the latest.                           *)
FairSpec == Spec /\ \A c \in Callers : WF_vars(Proceed(c))

------------------------------------------------------------------------------
(* Properties.                                                             *)

Stages == {"idle", "height", "hashes", "headers", "walk", "proof"} \cup Ended

TypeOK ==
    /\ dtip \in Blocks /\ target \in Blocks \cup {Null}
    /\ last \in Nat /\ id \in [Callers -> 0 .. last]
    /\ at \in [Callers -> Stages]
    /\ DOMAIN ask = Callers /\ DOMAIN got = Callers
    /\ \A c \in Callers : \A k \in 1 .. Len(got[c]) : got[c][k] \notin {Bad, Missing}
    /\ list \in [headers : Seq(Blocks), heights : [Blocks -> Nat \cup {Absent}]]
    /\ todo \in Seq(Nat) /\ headers \in Seq(Blocks)
    /\ proof \in [Txids -> Txids \cup {Null}]

(* Callers share the client, but no two calls share an id, so none takes a *)
(* reply that was meant for another, even when replies of calls that are   *)
(* over come late: the header a step of the walk is given is the one asked *)
(* for, which the walk itself does not compare, and a handler that gets a  *)
(* proof gets that of its transaction.                                     *)
ReplyAsAsked ==
    /\ Complete("indexer", "walk") /\ One("indexer", "header") = "fine" =>
           got["indexer"][1].of = IF headers = <<>> THEN target ELSE Prev[Last(headers)]
    /\ \A x \in Txids : at[x] = "done" => proof[x] = x

State == CASE at["indexer"] = "idle" -> "idle"
           [] at["indexer"] = "done" -> "given"
           [] at["indexer"] \in {"failed", "panicked"} -> "refused"
           [] OTHER -> "asked"

Source == INSTANCE HeaderSource WITH
              state <- State,
              headers <- IF at["indexer"] = "done" THEN headers ELSE <<>>

(* However the exchanges go wrong and whatever the node reorganises        *)
(* between them, a download that ends well gives exactly the headers the   *)
(* list lacks, in order: what HeaderSync takes for one step.               *)
ImplementsSource == Source!Spec

(* A caller that has begun comes to an end.                                *)
EveryCallEnds == \A c \in Callers : at[c] # "idle" ~> at[c] \in Ended
==============================================================================
