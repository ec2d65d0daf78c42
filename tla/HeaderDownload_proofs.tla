------------------------ MODULE HeaderDownload_proofs ------------------------
(***************************************************************************)
(* What the JSON-RPC client guarantees, whatever the tree of blocks, the   *)
(* sizes of batches and chunks and the number of handlers.  Its callers    *)
(* share the client, its counter of ids and the replies of exchanges long  *)
(* over; the inductive invariant says that none of them ever takes a reply *)
(* that was meant for another call, and what the indexer has by then of    *)
(* the headers its list lacks.  From it follows that a download implements *)
(* the step HeaderSource asks of it.                                       *)
(***************************************************************************)
EXTENDS HeaderDownload, HeaderList_proofs

USE DEF call, indexer, vars

------------------------------------------------------------------------------
(* Requests and the results of their replies.                              *)

Args    == Nat \cup Txids \cup Blocks \cup {Null}
Queries == [method : {"info", "proof", "hash", "header"}, arg : Args]
Results == [type : {"null", "info", "proof", "hash", "header"}, of : Args]

(* What the client's functions put into a request.                         *)
Posed(q) ==
    /\ q \in Queries
    /\ q.method = "info"  => q.arg \in Blocks
    /\ q.method = "proof" => q.arg \in Txids
    /\ q.method = "hash"  => q.arg \in Nat

(* What the parsers behind them may rely on.                               *)
Sound(j) ==
    /\ j \in Results
    /\ j.type = "info"               => j.of \in Nat
    /\ j.type = "proof"              => j.of \in Txids
    /\ j.type \in {"hash", "header"} => j.of \in Blocks

(* The node's results are sound, or none.                                  *)
LEMMA ResultSound ==
  ASSUME dtip \in Blocks, NEW q, Posed(q)
  PROVE  Result(q) = Bad \/ Sound(Result(q))
<1>1. CASE q.method = "info"
  <2>1. Len(Chain[q.arg]) - 1 \in Nat
    BY <1>1, ChainEnds DEF Posed
  <2> QED BY <1>1, <2>1 DEF Result, Sound, Results, Args, Json
<1>2. CASE q.method = "proof"
  BY <1>2 DEF Posed, Result, Sound, Results, Args, Json
<1>3. CASE q.method = "hash"
  <2>1. q.arg < Len(Chain[dtip]) => Chain[dtip][q.arg + 1] \in Blocks
    <3>1. q.arg \in Nat /\ Len(Chain[dtip]) \in Nat
      BY <1>3, ChainEnds DEF Posed
    <3>2. q.arg < Len(Chain[dtip]) => q.arg + 1 \in 1 .. Len(Chain[dtip])
      BY <3>1
    <3> QED BY <3>2, ChainEnds
  <2> QED BY <1>3, <2>1 DEF Result, Sound, Results, Args, Json
<1>4. CASE q.method = "header"
  BY <1>4 DEF Result, Sound, Results, Args, Json
<1> QED BY <1>1, <1>2, <1>3, <1>4 DEF Posed, Queries

(* The beginning and the rest of a sequence of anything.                   *)
LEMMA Cut ==
  ASSUME NEW S, NEW s \in Seq(S), NEW n \in Nat \ {0}
  PROVE  /\ FirstOf(s, n) \in Seq(S) /\ RestOf(s, n) \in Seq(S)
         /\ Len(FirstOf(s, n)) \in 0 .. Len(s) /\ Len(RestOf(s, n)) \in 0 .. Len(s)
         /\ \A k \in 1 .. Len(FirstOf(s, n)) : FirstOf(s, n)[k] = s[k]
         /\ \A k \in 1 .. Len(RestOf(s, n)) :
               \E i \in 1 .. Len(s) : RestOf(s, n)[k] = s[i]
<1> DEFINE m == Smaller(n, Len(s))
<1>1. Len(s) \in Nat /\ m \in 0 .. Len(s) /\ m \in Int
  BY LenProperties DEF Smaller
<1> HIDE DEF m
<1>2. /\ SubSeq(s, 1, m) \in Seq(S) /\ Len(SubSeq(s, 1, m)) = m
      /\ \A k \in 1 .. m : SubSeq(s, 1, m)[k] = s[k]
  BY <1>1
<1>3. /\ SubSeq(s, m + 1, Len(s)) \in Seq(S) /\ Len(SubSeq(s, m + 1, Len(s))) = Len(s) - m
      /\ \A k \in 1 .. Len(s) - m : SubSeq(s, m + 1, Len(s))[k] = s[m + k]
  BY <1>1
<1>4. \A k \in 1 .. Len(s) - m : m + k \in 1 .. Len(s)
  BY <1>1
<1>5. FirstOf(s, n) = SubSeq(s, 1, m) /\ RestOf(s, n) = SubSeq(s, m + 1, Len(s))
  BY DEF FirstOf, RestOf, m
<1>6. ASSUME NEW k \in 1 .. Len(RestOf(s, n)) PROVE \E i \in 1 .. Len(s) : RestOf(s, n)[k] = s[i]
  BY <1>1, <1>3, <1>4, <1>5, <1>6
<1>7. Len(s) - m \in 0 .. Len(s)
  BY <1>1
<1> QED BY <1>1, <1>2, <1>3, <1>5, <1>6, <1>7

------------------------------------------------------------------------------
(* The inductive invariant.                                                *)

(* The block below those a walk from t has passed.                         *)
Below(t, hs) == IF hs = <<>> THEN t ELSE Prev[hs[Len(hs)]]

(* The block the next step of the walk is to give.                         *)
Wanted == Below(target, headers)

(* What is asked in a call of c, and what a reply to it may carry.         *)
Posing(c, q) ==
    /\ Posed(q)
    /\ at[c] = "walk"  => q = Query("header", Wanted)
    /\ at[c] = "proof" => q = Query("proof", c)

Fitting(c, j) ==
    /\ Sound(j)
    /\ at[c] = "walk"  => j \in {NullResult, Json("header", Wanted)}
    /\ at[c] = "proof" => j \in {NullResult, Json("proof", c)}

(* c makes nothing of the reply r, or something that fits its call.        *)
Hears(c, r) == Parsed(r, id[c]) = Bad \/ Fitting(c, Parsed(r, id[c]))

(* TypeOK with the types of requests and results, and a list that is a     *)
(* good one.                                                               *)
Types ==
    /\ dtip \in Blocks /\ target \in Blocks \cup {Null}
    /\ last \in Nat /\ id \in [Callers -> 0 .. last]
    /\ at \in [Callers -> Stages]
    /\ ask \in [Callers -> Seq(Queries)] /\ got \in [Callers -> Seq(Results)]
    /\ GoodList(list)
    /\ todo \in Seq(Nat) /\ headers \in Seq(Blocks)
    /\ proof \in [Txids -> Txids \cup {Null}]

(* Only handlers ask for proofs, and they ask for nothing else.            *)
Roles ==
    /\ at["indexer"] # "proof"
    /\ \A x \in Txids : at[x] \in {"idle", "proof"} \cup Ended

(* No two calls have the same id.                                          *)
Ids == \A c, d \in Callers : id[c] = id[d] => c = d \/ id[c] = 0

(* Requests and results belong to the call that is open, and a caller that *)
(* has not begun or is through asks for nothing.                           *)
Calls ==
    \A c \in Callers :
        /\ \A k \in 1 .. Len(ask[c]) : Posing(c, ask[c][k])
        /\ \A k \in 1 .. Len(got[c]) : Fitting(c, got[c][k])
        /\ at[c] \in {"idle", "done"} \/ id[c] = 0 => ask[c] = <<>>

(* No batch the node has sent, however long ago, misleads a caller.        *)
Batches ==
    \A rs \in past :
        /\ Len(rs) \in Nat
        /\ \A k \in 1 .. Len(rs) : rs[k].id \in 1 .. last /\ \A c \in Callers : Hears(c, rs[k])

(* The walk has gone down the chain of t, and the list l knows none of the *)
(* blocks it has passed.                                                   *)
Passed(l, t, hs) ==
    /\ Len(hs) <= Len(Chain[t])
    /\ \A j \in 1 .. Len(hs) : hs[j] = Chain[t][Len(Chain[t]) - j + 1] /\ ~Known(l, hs[j])

(* How far the indexer has come, and what handlers that are done have.     *)
Download ==
    /\ at["indexer"] = "idle" => headers = <<>>
    /\ at["indexer"] # "idle" => target \in Blocks
    /\ at["indexer"] \in {"height", "hashes", "headers"} => list.headers = <<>>
    /\ at["indexer"] = "walk" =>
          Passed(list, target, headers) /\ Wanted \in Blocks /\ ~Known(list, Wanted)
    /\ \A x \in Txids : at[x] = "done" => proof[x] = x

Talk == Roles /\ Ids /\ Calls /\ Batches

DInv == Types /\ Talk /\ Download

------------------------------------------------------------------------------
(* Calls.                                                                  *)

(* What fits a caller's call still fits it when another one moves.         *)
LEMMA StillFits ==
  ASSUME NEW c, at'[c] = at[c], at[c] = "walk" => Wanted' = Wanted
  PROVE  /\ \A q : Posing(c, q) => Posing(c, q)'
         /\ \A j : Fitting(c, j) => Fitting(c, j)'
         /\ id'[c] = id[c] => \A r : Hears(c, r) => Hears(c, r)'
<1>1. ASSUME NEW q, Posing(c, q) PROVE Posing(c, q)'
  BY <1>1 DEF Posing
<1>2. ASSUME NEW j, Fitting(c, j) PROVE Fitting(c, j)'
  BY <1>2 DEF Fitting
<1>3. ASSUME id'[c] = id[c], NEW r, Hears(c, r) PROVE Hears(c, r)'
  BY <1>2, <1>3 DEF Hears
<1> QED BY <1>1, <1>2, <1>3

(* A caller of its own steps leaves what fits the others alone.            *)
LEMMA OthersKeep ==
  ASSUME Types, Roles, NEW c \in Callers, NEW s, Goto(c, s),
         c # "indexer" => UNCHANGED <<target, headers>>,
         NEW d \in Callers, d # c
  PROVE  /\ at'[d] = at[d]
         /\ at[d] = "walk" => Wanted' = Wanted
<1>1. at'[d] = at[d]
  BY DEF Types, Goto
<1>2. ASSUME at[d] = "walk" PROVE Wanted' = Wanted
  <2>1. d = "indexer"
    BY <1>2 DEF Roles, Callers, Ended
  <2> QED BY <2>1 DEF Wanted, Below
<1> QED BY <1>1, <1>2

(* A new call takes an id no reply bears yet.                              *)
LEMMA CallTalks ==
  ASSUME Types, Talk, NEW c \in Callers, NEW s, NEW qs \in Seq(Queries),
         Goto(c, s), s \notin {"idle", "done"}, Call(c, qs), UNCHANGED past,
         c # "indexer" => UNCHANGED <<target, headers>>,
         \A k \in 1 .. Len(qs) : Posing(c, qs[k])'
  PROVE  /\ last' \in Nat /\ id' \in [Callers -> 0 .. last']
         /\ ask' \in [Callers -> Seq(Queries)] /\ got' \in [Callers -> Seq(Results)]
         /\ Ids' /\ Calls' /\ Batches'
<1>1. /\ last' = last + 1 /\ last' \in Nat /\ id'[c] = last + 1 /\ ask'[c] = qs /\ got'[c] = <<>>
      /\ at'[c] = s
      /\ \A d \in Callers : d # c => id'[d] = id[d] /\ ask'[d] = ask[d] /\ got'[d] = got[d]
      /\ \A d \in Callers : id[d] \in 0 .. last
  BY DEF Types, Call, Goto
<1>2. id' \in [Callers -> 0 .. last']
  BY <1>1 DEF Types, Call
<1>3. <<>> \in Seq(Results) /\ Len(<<>>) = 0
  BY EmptySeq
<1>4. ask' \in [Callers -> Seq(Queries)] /\ got' \in [Callers -> Seq(Results)]
  BY <1>3 DEF Types, Call
<1>5. Ids'
  <2> SUFFICES ASSUME NEW d \in Callers, NEW e \in Callers, id'[d] = id'[e] PROVE d = e \/ id'[d] = 0
    BY DEF Ids
  <2>1. d # c => id'[d] # last + 1
    BY <1>1 DEF Types
  <2>2. e # c => id'[e] # last + 1
    BY <1>1 DEF Types
  <2> QED BY <1>1, <2>1, <2>2 DEF Ids, Talk
<1>6. Calls'
  <2> SUFFICES ASSUME NEW d \in Callers
               PROVE /\ \A k \in 1 .. Len(ask'[d]) : Posing(d, ask[d][k])'
                     /\ \A k \in 1 .. Len(got'[d]) : Fitting(d, got[d][k])'
                     /\ at'[d] \in {"idle", "done"} \/ id'[d] = 0 => ask'[d] = <<>>
    BY DEF Calls
  <2>1. CASE d = c
    BY <1>1, <1>3, <2>1 DEF Types
  <2>2. CASE d # c
    BY <1>1, <2>2, OthersKeep, StillFits DEF Calls, Talk
  <2> QED BY <2>1, <2>2
<1>7. Batches'
  <2> SUFFICES ASSUME NEW rs \in past
               PROVE /\ Len(rs) \in Nat
                     /\ \A k \in 1 .. Len(rs) : /\ rs[k].id \in 1 .. last'
                                                /\ \A d \in Callers : Hears(d, rs[k])'
    BY DEF Batches
  <2>1. Len(rs) \in Nat /\ \A k \in 1 .. Len(rs) : rs[k].id \in 1 .. last
    BY DEF Batches, Talk
  <2>2. ASSUME NEW k \in 1 .. Len(rs) PROVE rs[k].id \in 1 .. last' /\ rs[k].id # last + 1
    BY <1>1, <2>1 DEF Types
  <2>3. ASSUME NEW k \in 1 .. Len(rs), NEW d \in Callers PROVE Hears(d, rs[k])'
    <3>1. CASE d = c
      BY <1>1, <2>2, <3>1 DEF Hears, Parsed
    <3>2. CASE d # c
      BY <1>1, <3>2, OthersKeep, StillFits DEF Batches, Talk
    <3> QED BY <3>1, <3>2
  <2> QED BY <2>1, <2>2, <2>3
<1> QED BY <1>1, <1>2, <1>4, <1>5, <1>6, <1>7

(* A caller that ends takes nothing more.                                  *)
LEMMA EndTalks ==
  ASSUME Types, Talk, NEW c \in Callers, NEW s \in Ended,
         Goto(c, s), s = "done" => ask[c] = <<>>, UNCHANGED <<call, past>>,
         c # "indexer" => UNCHANGED <<target, headers>>
  PROVE  Ids' /\ Calls' /\ Batches'
<1>1. at'[c] = s /\ s \notin {"walk", "proof", "idle"}
  BY DEF Types, Goto, Ended
<1>2. ASSUME NEW q, Posing(c, q) PROVE Posing(c, q)'
  BY <1>1, <1>2 DEF Posing
<1>3. ASSUME NEW j, Fitting(c, j) PROVE Fitting(c, j)'
  BY <1>1, <1>3 DEF Fitting
<1>4. ASSUME NEW r, Hears(c, r) PROVE Hears(c, r)'
  BY <1>3, <1>4 DEF Hears
<1>5. \A d \in Callers : /\ \A q : Posing(d, q) => Posing(d, q)'
                         /\ \A j : Fitting(d, j) => Fitting(d, j)'
                         /\ \A r : Hears(d, r) => Hears(d, r)'
  <2> TAKE d \in Callers
  <2>1. CASE d = c
    BY <1>2, <1>3, <1>4, <2>1
  <2>2. CASE d # c
    BY <2>2, OthersKeep, StillFits DEF Talk
  <2> QED BY <2>1, <2>2
<1>6. Ids'
  BY DEF Ids, Talk
<1>7. Calls'
  <2> SUFFICES ASSUME NEW d \in Callers
               PROVE /\ \A k \in 1 .. Len(ask[d]) : Posing(d, ask[d][k])'
                     /\ \A k \in 1 .. Len(got[d]) : Fitting(d, got[d][k])'
                     /\ at'[d] \in {"idle", "done"} \/ id[d] = 0 => ask[d] = <<>>
    BY DEF Calls
  <2>1. at'[d] \in {"idle", "done"} \/ id[d] = 0 => ask[d] = <<>>
    <3>1. CASE d = c
      BY <1>1, <3>1 DEF Calls, Talk
    <3>2. CASE d # c
      BY <3>2, OthersKeep DEF Calls, Talk
    <3> QED BY <3>1, <3>2
  <2> QED BY <1>5, <2>1 DEF Calls, Talk
<1>8. Batches'
  BY <1>5 DEF Batches, Talk
<1> QED BY <1>6, <1>7, <1>8

------------------------------------------------------------------------------
(* Exchanges.                                                              *)

(* The node's reply to a request of c's call, an error in its place, and a *)
(* reply to another call.                                                  *)
LEMMA RepliesHeard ==
  ASSUME dtip \in Blocks, NEW c
  PROVE  /\ \A q : Posing(c, q) => Hears(c, Replied(q, id[c]))
         /\ \A e \in Errors(id[c]) : Hears(c, e)
         /\ \A q, i : i # id[c] => Hears(c, Replied(q, i))
<1>1. ASSUME NEW q, Posing(c, q) PROVE Hears(c, Replied(q, id[c]))
  <2>1. CASE Result(q) = Bad
    BY <2>1 DEF Hears, Replied, Parsed, Reply
  <2>2. CASE Result(q) # Bad
    <3>1. Sound(Result(q))
      BY <1>1, <2>2, ResultSound DEF Posing
    <3>2. Result(q) # Missing
      BY <3>1 DEF Sound, Results, Missing, Json
    <3>3. Parsed(Replied(q, id[c]), id[c]) = Result(q)
      BY <2>2, <3>2 DEF Replied, Parsed, Reply
    <3>4. at[c] = "walk" => Result(q) = Json("header", Wanted)
      BY <1>1, <2>2 DEF Posing, Query, Result
    <3>5. at[c] = "proof" => Result(q) = Json("proof", c)
      BY <1>1 DEF Posing, Query, Result
    <3> QED BY <3>1, <3>3, <3>4, <3>5 DEF Hears, Fitting
  <2> QED BY <2>1, <2>2
<1>2. Fitting(c, NullResult)
  BY DEF Fitting, Sound, Results, Args, NullResult, Json
<1>3. ASSUME NEW e \in Errors(id[c]) PROVE Hears(c, e)
  <2>1. NullResult # Missing
    BY DEF NullResult, Missing, Json
  <2> QED BY <1>2, <1>3, <2>1 DEF Errors, Hears, Parsed, Reply
<1>4. ASSUME NEW q, NEW i, i # id[c] PROVE Hears(c, Replied(q, i))
  BY <1>4 DEF Hears, Replied, Parsed, Reply
<1> QED BY <1>1, <1>3, <1>4

(* Whatever batch comes back, each of its replies is dropped or fits.      *)
LEMMA BatchHeard ==
  ASSUME Types, Talk, NEW c \in Callers, NEW qs \in Seq(Queries),
         \A k \in 1 .. Len(qs) : Posing(c, qs[k]),
         NEW rs \in Replies(qs, id[c])
  PROVE  Len(rs) \in Nat /\ \A k \in 1 .. Len(rs) : Hears(c, rs[k])
<1> DEFINE right == Correct(qs, id[c])
           n == Len(qs)
<1>1. n \in Nat /\ \A k \in 1 .. n : right[k] = Replied(qs[k], id[c]) /\ Hears(c, right[k])
  BY LenProperties, RepliesHeard DEF Types, Correct
<1>2. right = [k \in 1 .. n |-> right[k]] /\ Len(right) = n
  BY <1>1 DEF Correct
<1> HIDE DEF right, n
<1>3. CASE \E p \in Orders(n) : rs = [k \in 1 .. n |-> right[p[k]]]
  BY <1>1, <1>3 DEF Orders
<1>4. CASE \E k \in 1 .. n, e \in Errors(id[c]) : rs = [right EXCEPT ![k] = e]
  <2>1. PICK k \in 1 .. n, e \in Errors(id[c]) : rs = [right EXCEPT ![k] = e]
    BY <1>4
  <2>2. Hears(c, e)
    BY RepliesHeard DEF Types
  <2>3. Len(rs) = n /\ \A j \in 1 .. n : rs[j] = IF j = k THEN e ELSE right[j]
    BY <1>1, <1>2, <2>1
  <2> QED BY <1>1, <2>2, <2>3
<1>5. CASE rs = SubSeq(right, 1, n - 1)
  <2>1. Len(rs) = IF n = 0 THEN 0 ELSE n - 1
    BY <1>1, <1>5
  <2>2. \A k \in 1 .. Len(rs) : k \in 1 .. n /\ rs[k] = right[k]
    BY <1>1, <1>5, <2>1
  <2> QED BY <1>1, <2>1, <2>2
<1>6. CASE rs \in past
  BY <1>6 DEF Talk, Batches
<1> QED BY <1>3, <1>4, <1>5, <1>6 DEF Replies, right, n

(* What the node says to c is right for c, and the others do not hear it.  *)
LEMMA SpokenHeard ==
  ASSUME Types, Talk, NEW c \in Callers, ask[c] # <<>>,
         NEW qs \in Seq(Queries), \A k \in 1 .. Len(qs) : Posing(c, qs[k])
  PROVE  /\ Len(Correct(qs, id[c])) \in Nat
         /\ \A k \in 1 .. Len(Correct(qs, id[c])) :
               /\ Correct(qs, id[c])[k].id \in 1 .. last
               /\ \A d \in Callers : Hears(d, Correct(qs, id[c])[k])
<1> DEFINE right == Correct(qs, id[c])
<1>1. Len(right) = Len(qs) /\ Len(qs) \in Nat /\ \A k \in 1 .. Len(qs) : right[k] = Replied(qs[k], id[c])
  BY LenProperties DEF Correct
<1>2. id[c] \in 1 .. last /\ id[c] # 0
  BY DEF Types, Talk, Calls
<1>3. \A q : Replied(q, id[c]).id = id[c]
  BY DEF Replied, Reply
<1>4. \A d \in Callers : d # c => id[d] # id[c]
  BY <1>2 DEF Talk, Ids
<1>5. ASSUME NEW k \in 1 .. Len(qs), NEW d \in Callers PROVE Hears(d, right[k])
  <2>1. CASE d = c
    BY <1>1, <2>1, RepliesHeard DEF Types
  <2>2. CASE d # c
    BY <1>1, <1>4, <2>2, RepliesHeard DEF Types
  <2> QED BY <2>1, <2>2
<1> HIDE DEF right
<1>6. Len(right) \in Nat /\ \A k \in 1 .. Len(right) : /\ right[k].id \in 1 .. last
                                                        /\ \A d \in Callers : Hears(d, right[k])
  BY <1>1, <1>2, <1>3, <1>5
<1> QED BY <1>6 DEF right

(* An exchange, whatever comes back.                                       *)
LEMMA ExchangeTalks ==
  ASSUME Types, Talk, NEW c \in Callers, Exchange(c)
  PROVE  /\ ask' \in [Callers -> Seq(Queries)] /\ got' \in [Callers -> Seq(Results)]
         /\ Ids' /\ Calls' /\ Batches'
         /\ last' = last /\ id' = id
         /\ at' = at \/ Goto(c, "failed")
<1> DEFINE qs == FirstOf(ask[c], BatchSize)
           left == RestOf(ask[c], BatchSize)
<1>1. ask[c] \in Seq(Queries) /\ ask[c] # <<>> /\ at[c] \notin {"failed", "panicked"}
  BY DEF Types, Exchange
<1>2. /\ qs \in Seq(Queries) /\ left \in Seq(Queries)
      /\ \A k \in 1 .. Len(qs) : Posing(c, qs[k])
      /\ \A k \in 1 .. Len(left) : Posing(c, left[k])
  <2>0. Len(ask[c]) \in Nat
    BY <1>1, LenProperties
  <2>1. /\ qs \in Seq(Queries) /\ left \in Seq(Queries)
        /\ Len(qs) \in 0 .. Len(ask[c])
        /\ \A k \in 1 .. Len(qs) : qs[k] = ask[c][k]
        /\ \A k \in 1 .. Len(left) : \E i \in 1 .. Len(ask[c]) : left[k] = ask[c][i]
    BY <1>1, Cut, BatchAssumption
  <2>2. \A k \in 1 .. Len(ask[c]) : Posing(c, ask[c][k])
    BY DEF Talk, Calls
  <2> HIDE DEF qs, left
  <2>3. \A k \in 1 .. Len(qs) : k \in 1 .. Len(ask[c])
    BY <2>0, <2>1
  <2> QED BY <2>1, <2>2, <2>3
<1>3. past' = past \cup {Correct(qs, id[c])}
  BY DEF Exchange
<1>4. PICK rs \in Replies(qs, id[c]) :
         LET results == [k \in 1 .. Len(rs) |-> Parsed(rs[k], id[c])]
         IN  IF \E k \in 1 .. Len(rs) : results[k] = Bad
             THEN Goto(c, "failed") /\ UNCHANGED <<last, id, ask, got>>
             ELSE /\ got' = [got EXCEPT ![c] = @ \o results]
                  /\ ask' = [ask EXCEPT ![c] = left]
                  /\ UNCHANGED <<at, last, id>>
  BY DEF Exchange
<1> DEFINE results == [k \in 1 .. Len(rs) |-> Parsed(rs[k], id[c])]
<1>5. Len(rs) \in Nat /\ \A k \in 1 .. Len(rs) : Hears(c, rs[k])
  <2> HIDE DEF qs
  <2> QED BY <1>2, BatchHeard
<1>6. UNCHANGED <<dtip, list, target, todo, headers, proof>> /\ UNCHANGED <<last, id>>
  BY <1>4 DEF Exchange
<1>7. /\ Len(Correct(qs, id[c])) \in Nat
      /\ \A k \in 1 .. Len(Correct(qs, id[c])) :
               /\ Correct(qs, id[c])[k].id \in 1 .. last
               /\ \A d \in Callers : Hears(d, Correct(qs, id[c])[k])
  <2> HIDE DEF qs
  <2> QED BY <1>1, <1>2, SpokenHeard
<1> HIDE DEF qs, left
<1>8. CASE \E k \in 1 .. Len(rs) : results[k] = Bad
  <2>1. Goto(c, "failed") /\ UNCHANGED <<last, id, ask, got>>
    BY <1>4, <1>8
  <2>2. at'[c] = "failed" /\ \A d \in Callers : d # c => at'[d] = at[d]
    BY <2>1 DEF Goto, Types
  <2>3. \A d \in Callers : /\ \A q : Posing(d, q) => Posing(d, q)'
                           /\ \A j : Fitting(d, j) => Fitting(d, j)'
                           /\ \A r : Hears(d, r) => Hears(d, r)'
    <3> TAKE d \in Callers
    <3>1. CASE d = c
      <4>1. ASSUME NEW q, Posing(c, q) PROVE Posing(c, q)'
        BY <2>2, <4>1 DEF Posing
      <4>2. ASSUME NEW j, Fitting(c, j) PROVE Fitting(c, j)'
        BY <2>2, <4>2 DEF Fitting
      <4>3. ASSUME NEW r, Hears(c, r) PROVE Hears(c, r)'
        BY <1>6, <4>2, <4>3 DEF Hears
      <4> QED BY <3>1, <4>1, <4>2, <4>3
    <3>2. CASE d # c
      BY <1>6, <2>1, <3>2, OthersKeep, StillFits DEF Talk
    <3> QED BY <3>1, <3>2
  <2>4. Ids'
    BY <2>1 DEF Talk, Ids
  <2>5. Calls'
    <3>1. \A d \in Callers : at'[d] \in {"idle", "done"} => at[d] \in {"idle", "done"}
      BY <2>2
    <3> QED BY <2>1, <2>3, <3>1 DEF Talk, Calls
  <2>6. Batches'
    BY <1>3, <1>6, <1>7, <2>3 DEF Talk, Batches
  <2> QED BY <1>6, <2>1, <2>4, <2>5, <2>6 DEF Types
<1>9. CASE ~(\E k \in 1 .. Len(rs) : results[k] = Bad)
  <2>1. /\ got' = [got EXCEPT ![c] = @ \o results]
        /\ ask' = [ask EXCEPT ![c] = left]
        /\ UNCHANGED <<at, last, id>>
    BY <1>4, <1>9
  <2>2. \A k \in 1 .. Len(rs) : Fitting(c, results[k]) /\ results[k] \in Results
    BY <1>5, <1>9 DEF Hears, Fitting, Sound
  <2>3. results \in Seq(Results) /\ Len(results) = Len(rs)
    BY <1>5, <2>2
  <2> HIDE DEF results
  <2>4. got[c] \in Seq(Results) /\ Len(got[c]) \in Nat
    BY LenProperties DEF Types
  <2>5. /\ got[c] \o results \in Seq(Results)
        /\ Len(got[c] \o results) = Len(got[c]) + Len(rs)
        /\ \A k \in 1 .. Len(got[c]) + Len(rs) :
              (got[c] \o results)[k] = IF k <= Len(got[c]) THEN got[c][k] ELSE results[k - Len(got[c])]
    BY <1>5, <2>3, <2>4
  <2>6. \A k \in 1 .. Len(got[c] \o results) : Fitting(c, (got[c] \o results)[k])
    <3> TAKE k \in 1 .. Len(got[c] \o results)
    <3>1. CASE k <= Len(got[c])
      BY <1>5, <2>4, <2>5, <3>1 DEF Talk, Calls
    <3>2. CASE ~(k <= Len(got[c]))
      <4>1. k - Len(got[c]) \in 1 .. Len(rs)
        BY <1>5, <2>4, <2>5, <3>2
      <4> QED BY <2>2, <2>5, <3>2, <4>1
    <3> QED BY <3>1, <3>2
  <2>7. ask' \in [Callers -> Seq(Queries)] /\ got' \in [Callers -> Seq(Results)]
    BY <1>2, <2>1, <2>5 DEF Types
  <2>8. Wanted' = Wanted
    BY <1>6 DEF Wanted, Below
  <2>9. \A d \in Callers : /\ \A q : Posing(d, q) => Posing(d, q)'
                           /\ \A j : Fitting(d, j) => Fitting(d, j)'
                           /\ \A r : Hears(d, r) => Hears(d, r)'
    BY <2>1, <2>8, StillFits
  <2>10. Ids'
    BY <2>1 DEF Talk, Ids
  <2>11. Calls'
    <3> SUFFICES ASSUME NEW d \in Callers
                 PROVE  /\ \A k \in 1 .. Len(ask'[d]) : Posing(d, ask[d][k])'
                        /\ \A k \in 1 .. Len(got'[d]) : Fitting(d, got[d][k])'
                        /\ at'[d] \in {"idle", "done"} \/ id'[d] = 0 => ask'[d] = <<>>
      BY DEF Calls
    <3>1. CASE d = c
      <4>1. ask'[c] = left /\ got'[c] = got[c] \o results
        BY <2>1 DEF Types
      <4>2. at[c] \notin {"idle", "done"} /\ id[c] # 0
        BY <1>1 DEF Talk, Calls
      <4> QED BY <1>2, <2>1, <2>6, <2>9, <3>1, <4>1, <4>2
    <3>2. CASE d # c
      <4>1. ask'[d] = ask[d] /\ got'[d] = got[d]
        BY <2>1, <3>2 DEF Types
      <4> QED BY <2>1, <2>9, <4>1 DEF Talk, Calls
    <3> QED BY <3>1, <3>2
  <2>12. Batches'
    BY <1>3, <1>6, <1>7, <2>9 DEF Talk, Batches
  <2> QED BY <1>6, <2>1, <2>7, <2>10, <2>11, <2>12
<1> QED BY <1>8, <1>9

------------------------------------------------------------------------------
(* The walk.                                                               *)

(* What a list lacks of a chain when it knows its k-th header and none of  *)
(* the later ones.                                                         *)
LEMMA NewAfter ==
  ASSUME NEW l, NEW t \in Blocks, NEW k \in 0 .. Len(Chain[t]),
         k > 0 => Known(l, Chain[t][k]),
         \A j \in k + 1 .. Len(Chain[t]) : ~Known(l, Chain[t][j])
  PROVE  NewHeaders(l, t) = SubSeq(Chain[t], k + 1, Len(Chain[t]))
<1> DEFINE c == Chain[t]
           n == Len(c)
           K == KnownUpTo(l, t)
<1>1. n \in Nat /\ k \in Nat /\ c = SubSeq(c, 1, n)
  BY ChainEnds
<1>2. \A i \in K : i \in 1 .. n /\ i <= k
  BY <1>1 DEF KnownUpTo
<1>3. CASE k = 0
  <2>1. K = {}
    BY <1>2, <1>3
  <2> QED BY <1>1, <1>3, <2>1 DEF NewHeaders
<1>4. CASE k # 0
  <2>1. k \in K
    BY <1>1, <1>4 DEF KnownUpTo
  <2>2. \A i \in K : (\A j \in K : j <= i) => i = k
    BY <1>1, <1>2, <2>1
  <2>3. (CHOOSE i \in K : \A j \in K : j <= i) = k
    BY <1>2, <2>1, <2>2
  <2> QED BY <2>1, <2>3 DEF NewHeaders
<1> QED BY <1>3, <1>4

(* Where a walk is on the chain.                                           *)
LEMMA WalkAt ==
  ASSUME NEW l, NEW t \in Blocks, NEW hs \in Seq(Blocks), Passed(l, t, hs)
  PROVE  /\ Len(hs) \in 0 .. Len(Chain[t])
         /\ Below(t, hs) = IF Len(hs) = Len(Chain[t]) THEN Null
                           ELSE Chain[t][Len(Chain[t]) - Len(hs)]
<1> DEFINE c == Chain[t]
           n == Len(c)
           m == Len(hs)
<1>1. n \in Nat \ {0} /\ c[n] = t /\ m \in 0 .. n
  BY ChainEnds, LenProperties DEF Passed
<1>2. CASE m = 0
  <2>1. hs = <<>>
    BY <1>2, EmptySeq
  <2> QED BY <1>1, <1>2, <2>1 DEF Below
<1>3. CASE m # 0
  <2>1. hs # <<>> /\ hs[m] = c[n - m + 1] /\ n - m + 1 \in 1 .. n
    BY <1>1, <1>3, EmptySeq DEF Passed
  <2>2. Prev[c[n - m + 1]] = IF n - m + 1 = 1 THEN Null ELSE c[n - m + 1 - 1]
    BY <2>1, ChainPrefix
  <2>3. n - m + 1 = 1 <=> m = n
    BY <1>1
  <2>4. n - m + 1 - 1 = n - m
    BY <1>1
  <2> QED BY <1>1, <2>1, <2>2, <2>3, <2>4 DEF Below
<1> QED BY <1>2, <1>3

(* A walk that ends has what the list lacks, the newest first.             *)
LEMMA WalkEnds ==
  ASSUME NEW l, NEW t \in Blocks, NEW hs \in Seq(Blocks), Passed(l, t, hs),
         Below(t, hs) = Null \/ Known(l, Below(t, hs))
  PROVE  Reverse(hs) = NewHeaders(l, t) /\ Reverse(hs) \in Seq(Blocks)
<1> DEFINE c == Chain[t]
           n == Len(c)
           m == Len(hs)
           k == n - m
<1>1. n \in Nat /\ m \in 0 .. n /\ k \in 0 .. n /\ \A i \in 1 .. n : c[i] \in Blocks
  BY WalkAt, ChainEnds
<1>2. \A j \in 1 .. m : hs[j] = c[n - j + 1] /\ ~Known(l, hs[j])
  BY DEF Passed
<1>3. k > 0 => Known(l, c[k])
  <2>1. ASSUME k > 0 PROVE Known(l, c[k])
    <3>1. k \in 1 .. n /\ m # n
      BY <1>1, <2>1
    <3>2. Below(t, hs) = c[k] /\ c[k] # Null
      BY <1>1, <3>1, WalkAt, TreeAssumption
    <3> QED BY <3>2
  <2> QED BY <2>1
<1>4. \A j \in k + 1 .. n : ~Known(l, c[j])
  <2> TAKE j \in k + 1 .. n
  <2>1. n - j + 1 \in 1 .. m /\ n - (n - j + 1) + 1 = j
    BY <1>1
  <2> QED BY <1>2, <2>1
<1>5. NewHeaders(l, t) = SubSeq(c, k + 1, n)
  <2> HIDE DEF k
  <2> QED BY <1>1, <1>3, <1>4, NewAfter
<1>6. c \in Seq(Blocks)
  BY ChainEnds
<1>7. /\ SubSeq(c, k + 1, n) \in Seq(Blocks) /\ Len(SubSeq(c, k + 1, n)) = m
      /\ \A i \in 1 .. m : SubSeq(c, k + 1, n)[i] = c[k + i]
  BY <1>1, <1>6
<1>8. Reverse(hs) = [i \in 1 .. m |-> hs[m - i + 1]]
  BY DEF Reverse
<1>9. \A i \in 1 .. m : hs[m - i + 1] = c[k + i]
  <2> TAKE i \in 1 .. m
  <2>1. m - i + 1 \in 1 .. m /\ n - (m - i + 1) + 1 = k + i
    BY <1>1
  <2> QED BY <1>2, <2>1
<1>10. SubSeq(c, k + 1, n) = [i \in 1 .. m |-> c[k + i]]
  <2> DEFINE u == SubSeq(c, k + 1, n)
  <2>1. u \in Seq(Blocks) /\ Len(u) = m /\ \A i \in 1 .. m : u[i] = c[k + i]
    BY <1>7
  <2> HIDE DEF u, k
  <2>2. u = [i \in 1 .. m |-> u[i]]
    BY <2>1, LenProperties
  <2>3. u = [i \in 1 .. m |-> c[k + i]]
    BY <2>1, <2>2
  <2> QED BY <2>3 DEF u
<1>11. Reverse(hs) = SubSeq(c, k + 1, n)
  <2> HIDE DEF k
  <2> QED BY <1>8, <1>9, <1>10
<1> QED BY <1>5, <1>7, <1>11

(* A walk goes on with the header it was given.                            *)
LEMMA WalkGoesOn ==
  ASSUME NEW l, NEW t \in Blocks, NEW hs \in Seq(Blocks), Passed(l, t, hs),
         Below(t, hs) \in Blocks, ~Known(l, Below(t, hs))
  PROVE  LET new == Append(hs, Below(t, hs))
         IN  /\ new \in Seq(Blocks) /\ Passed(l, t, new)
             /\ Below(t, new) = Prev[Below(t, hs)]
<1> DEFINE b == Below(t, hs)
           new == Append(hs, b)
           c == Chain[t]
           n == Len(c)
           m == Len(hs)
<1>1. n \in Nat /\ m \in 0 .. n /\ m # n /\ b = c[n - m] /\ b \in Blocks /\ ~Known(l, b)
  BY WalkAt, ChainEnds, TreeAssumption
<1> HIDE DEF b
<1>2. /\ new \in Seq(Blocks) /\ new # <<>> /\ Len(new) = m + 1 /\ new[m + 1] = b
      /\ \A j \in 1 .. m : new[j] = hs[j]
  BY <1>1, AppendProperties
<1>3. \A j \in 1 .. m : hs[j] = c[n - j + 1] /\ ~Known(l, hs[j])
  BY DEF Passed
<1>4. n - (m + 1) + 1 = n - m /\ m + 1 <= n
  BY <1>1
<1> HIDE DEF new
<1>5. \A j \in 1 .. m + 1 : new[j] = c[n - j + 1] /\ ~Known(l, new[j])
  <2> TAKE j \in 1 .. m + 1
  <2>1. CASE j = m + 1
    BY <1>1, <1>2, <1>4, <2>1
  <2>2. CASE j # m + 1
    <3>1. j \in 1 .. m
      BY <1>1, <2>2
    <3> QED BY <1>2, <1>3, <3>1
  <2> QED BY <2>1, <2>2
<1>6. Passed(l, t, new)
  BY <1>2, <1>4, <1>5 DEF Passed
<1>7. Below(t, new) = Prev[b]
  BY <1>2 DEF Below
<1> QED BY <1>2, <1>6, <1>7 DEF new, b

(* The walk at a block below those it has passed: it ends with what the    *)
(* list lacks, or asks for the header of that block.                       *)
LEMMA WalkStep ==
  ASSUME Types, Talk, NEW l, NEW t \in Blocks, NEW hs \in Seq(Blocks), Passed(l, t, hs),
         Below(t, hs) \in Blocks \cup {Null}, Walk(l, Below(t, hs), hs),
         list' = l, target' = t, UNCHANGED past, ask["indexer"] = <<>>
  PROVE  /\ headers' \in Seq(Blocks)
         /\ last' \in Nat /\ id' \in [Callers -> 0 .. last']
         /\ ask' \in [Callers -> Seq(Queries)] /\ got' \in [Callers -> Seq(Results)]
         /\ Ids' /\ Calls' /\ Batches'
         /\ \/ Goto("indexer", "done") /\ headers' = NewHeaders(l, t)
            \/ /\ Goto("indexer", "walk")
               /\ Passed(l, t, headers') /\ Below(t, headers') \in Blocks
               /\ ~Known(l, Below(t, headers'))
<1> DEFINE b == Below(t, hs)
<1>0. "indexer" \in Callers
  BY DEF Callers
<1>1. CASE b = Null \/ Known(l, b)
  <2>1. Goto("indexer", "done") /\ headers' = Reverse(hs) /\ UNCHANGED call
    BY <1>1 DEF Walk
  <2>2. Reverse(hs) = NewHeaders(l, t) /\ Reverse(hs) \in Seq(Blocks)
    BY <1>1, WalkEnds
  <2>3. Ids' /\ Calls' /\ Batches'
    BY <1>0, <2>1, EndTalks DEF Ended
  <2> QED BY <2>1, <2>2, <2>3 DEF Types
<1>2. CASE ~(b = Null \/ Known(l, b))
  <2>1. Goto("indexer", "walk") /\ headers' = hs /\ Call("indexer", <<Query("header", b)>>)
    BY <1>2 DEF Walk
  <2>2. b \in Blocks /\ ~Known(l, b)
    BY <1>2
  <2>3. Wanted' = b
    BY <2>1 DEF Wanted, Below
  <2> HIDE DEF b
  <2> DEFINE qs == <<Query("header", b)>>
  <2>4. Query("header", b) \in Queries
    BY <2>2 DEF Query, Queries, Args
  <2>5. qs \in Seq(Queries) /\ Len(qs) = 1 /\ qs[1] = Query("header", b)
    BY <2>4
  <2>6. at'["indexer"] = "walk"
    BY <1>0, <2>1 DEF Goto, Types
  <2>7. Posing("indexer", Query("header", b))'
    <3>1. Posed(Query("header", b))
      BY <2>4 DEF Posed, Query
    <3> QED BY <2>3, <2>6, <3>1 DEF Posing
  <2> HIDE DEF qs
  <2>8. \A k \in 1 .. Len(qs) : qs[k] = Query("header", b)
    BY <2>5
  <2>9. \A k \in 1 .. Len(qs) : Posing("indexer", qs[k])'
    BY <2>7, <2>8
  <2>10. Call("indexer", qs)
    BY <2>1 DEF qs
  <2>11. /\ last' \in Nat /\ id' \in [Callers -> 0 .. last']
         /\ ask' \in [Callers -> Seq(Queries)] /\ got' \in [Callers -> Seq(Results)]
         /\ Ids' /\ Calls' /\ Batches'
    BY <1>0, <2>1, <2>5, <2>9, <2>10, CallTalks
  <2> QED BY <2>1, <2>2, <2>11 DEF b
<1> QED BY <1>1, <1>2

(* The hashes of the next heights are asked for.                           *)
LEMMA AskHashesTalks ==
  ASSUME Types, Talk, NEW heights \in Seq(Nat), AskHashes(heights), UNCHANGED past
  PROVE  /\ last' \in Nat /\ id' \in [Callers -> 0 .. last']
         /\ ask' \in [Callers -> Seq(Queries)] /\ got' \in [Callers -> Seq(Results)]
         /\ Ids' /\ Calls' /\ Batches'
         /\ Goto("indexer", "hashes")
<1> DEFINE chunk == FirstOf(heights, HeightChunk)
           qs == [k \in 1 .. Len(chunk) |-> Query("hash", chunk[k])]
<1>1. chunk \in Seq(Nat) /\ Len(chunk) \in Nat
  BY Cut, BatchAssumption, LenProperties
<1>2. Goto("indexer", "hashes") /\ Call("indexer", qs)
  BY DEF AskHashes
<1> HIDE DEF chunk
<1>3. \A k \in 1 .. Len(chunk) : Posed(qs[k]) /\ qs[k] \in Queries
  BY <1>1 DEF Posed, Query, Queries, Args
<1>4. qs \in Seq(Queries) /\ Len(qs) = Len(chunk)
  BY <1>1, <1>3
<1>5. "indexer" \in Callers
  BY DEF Callers
<1>6. at'["indexer"] = "hashes"
  BY <1>2, <1>5 DEF Goto, Types
<1> HIDE DEF qs
<1>7. \A k \in 1 .. Len(qs) : Posing("indexer", qs[k])'
  BY <1>3, <1>4, <1>6 DEF Posing
<1> QED BY <1>2, <1>4, <1>5, <1>7, CallTalks

(* A list that was through a reorganisation is a good one.                 *)
LEMMA ReorganisedGood ==
  ASSUME NEW b \in Blocks, NEW c \in Blocks
  PROVE  GoodList(Reorganised(b, c))
<1> DEFINE l == Loaded(b)
<1>1. GoodList(l)
  BY LoadedIsChain
<1> HIDE DEF l
<1>2. PICK k \in 0 .. Len(Chain[c]) :
         /\ k > 0 => Known(l, Chain[c][k])
         /\ IF NewHeaders(l, c) = <<>> THEN <<>> = Part(c, k)
            ELSE Ordered(l, NewHeaders(l, c)) = Part(c, k)
  BY <1>1, NewIsPart
<1>3. CASE NewHeaders(l, c) = <<>>
  BY <1>1, <1>3 DEF Reorganised, l
<1>4. CASE NewHeaders(l, c) # <<>>
  <2>1. k \in Nat /\ Len(l.headers) \in Nat
    BY <1>1, LenProperties, ChainEnds DEF GoodList
  <2>2. k <= Len(l.headers)
    <3>1. CASE k = 0
      BY <2>1, <3>1
    <3>2. CASE k # 0
      <4>1. k \in 1 .. Len(Chain[c])
        BY <2>1, <3>2
      <4>2. /\ Chain[c][k] \in Blocks /\ Known(l, Chain[c][k])
            /\ l.heights[Chain[c][k]] = Len(Chain[Chain[c][k]]) - 1
            /\ Len(Chain[Chain[c][k]]) = k
        BY <1>1, <1>2, <4>1, ChainPrefix, KnownInList
      <4>3. k - 1 < Len(l.headers)
        BY <4>2 DEF Known
      <4> QED BY <2>1, <4>3
    <3> QED BY <3>1, <3>2
  <2>3. InBounds(l, Part(c, k))
    BY <1>2, <2>2, PartFacts DEF InBounds, Part
  <2> QED BY <1>1, <1>2, <1>4, <2>3, AppliedIsChain DEF Reorganised, l
<1> QED BY <1>3, <1>4

------------------------------------------------------------------------------
(* Every step keeps the invariant.                                         *)

(* The indexer moves to another stage.                                     *)
LEMMA IndexerGoes ==
  ASSUME Types, Roles, NEW s \in Stages \ {"proof"}, Goto("indexer", s)
  PROVE  /\ at' \in [Callers -> Stages] /\ at'["indexer"] = s
         /\ Roles' /\ \A x \in Txids : at'[x] = at[x]
<1>1. "indexer" \in Callers /\ \A x \in Txids : x \in Callers /\ x # "indexer"
  BY CallersAssumption DEF Callers
<1>2. at' \in [Callers -> Stages] /\ at'["indexer"] = s /\ \A x \in Txids : at'[x] = at[x]
  BY <1>1 DEF Goto, Types
<1> QED BY <1>2 DEF Roles

(* A download begins with any good list.                                   *)
LEMMA StartStep ==
  ASSUME DInv, NEW l, GoodList(l), Start(l)
  PROVE  /\ DInv'
         /\ at["indexer"] = "idle" /\ headers = <<>>
         /\ \/ at'["indexer"] \in {"height", "walk"}
            \/ at'["indexer"] = "done" /\ headers' = <<>> /\ headers' = NewHeaders(l, dtip)
<1>1. /\ at["indexer"] = "idle" /\ headers = <<>> /\ list' = l /\ target' = dtip
      /\ UNCHANGED <<dtip, past, todo, proof>>
      /\ "indexer" \in Callers /\ dtip \in Blocks /\ ask["indexer"] = <<>>
  BY DEF Start, DInv, Download, Types, Talk, Calls, Callers
<1>2. CASE l.headers = <<>>
  <2>1. Goto("indexer", "height") /\ Call("indexer", <<Query("info", dtip)>>) /\ UNCHANGED headers
    BY <1>2 DEF Start
  <2>0. PICK qs : qs = <<Query("info", dtip)>>
    OBVIOUS
  <2>2. Posed(Query("info", dtip)) /\ Query("info", dtip) \in Queries
    BY <1>1 DEF Posed, Query, Queries, Args
  <2>3. qs \in Seq(Queries) /\ Len(qs) = 1 /\ qs[1] = Query("info", dtip)
    BY <2>0, <2>2
  <2>4. /\ at' \in [Callers -> Stages] /\ at'["indexer"] = "height"
        /\ Roles' /\ \A x \in Txids : at'[x] = at[x]
    BY <2>1, IndexerGoes DEF DInv, Talk, Stages, Ended
  <2>5. \A k \in 1 .. Len(qs) : Posing("indexer", qs[k])'
    <3>1. \A k \in 1 .. Len(qs) : Posed(qs[k])
      BY <2>2, <2>3
    <3> QED BY <2>4, <3>1 DEF Posing
  <2>6. Call("indexer", qs)
    BY <2>0, <2>1
  <2>7. /\ last' \in Nat /\ id' \in [Callers -> 0 .. last']
        /\ ask' \in [Callers -> Seq(Queries)] /\ got' \in [Callers -> Seq(Results)]
        /\ Ids' /\ Calls' /\ Batches'
    BY <1>1, <2>1, <2>3, <2>5, <2>6, CallTalks DEF DInv
  <2>8. Types'
    BY <1>1, <2>1, <2>4, <2>7 DEF DInv, Types
  <2>9. Download'
    BY <1>1, <1>2, <2>4 DEF DInv, Download
  <2> QED BY <1>1, <2>4, <2>7, <2>8, <2>9 DEF DInv, Talk
<1>3. CASE l.headers # <<>>
  <2>1. Walk(l, dtip, <<>>)
    BY <1>3 DEF Start
  <2>2. <<>> \in Seq(Blocks) /\ Len(<<>>) = 0 /\ Below(dtip, <<>>) = dtip /\ Passed(l, dtip, <<>>)
    BY <1>1, EmptySeq, ChainEnds DEF Below, Passed
  <2>3. /\ headers' \in Seq(Blocks)
        /\ last' \in Nat /\ id' \in [Callers -> 0 .. last']
        /\ ask' \in [Callers -> Seq(Queries)] /\ got' \in [Callers -> Seq(Results)]
        /\ Ids' /\ Calls' /\ Batches'
        /\ \/ Goto("indexer", "done") /\ headers' = NewHeaders(l, dtip)
           \/ /\ Goto("indexer", "walk")
              /\ Passed(l, dtip, headers') /\ Below(dtip, headers') \in Blocks
              /\ ~Known(l, Below(dtip, headers'))
    BY <1>1, <2>1, <2>2, WalkStep DEF DInv
  <2>4. Goto("indexer", "done") => headers' = <<>>
    <3>1. ASSUME Goto("indexer", "done") PROVE headers' = Reverse(<<>>)
      <4>1. at'["indexer"] = "done"
        BY <1>1, <3>1 DEF Goto, DInv, Types
      <4>2. ~Goto("indexer", "walk")
        BY <1>1, <4>1 DEF Goto, DInv, Types
      <4> QED BY <2>1, <4>2 DEF Walk
    <3>2. Reverse(<<>>) = <<>>
      BY <2>2 DEF Reverse
    <3> QED BY <3>1, <3>2
  <2>5. ASSUME NEW s \in {"done", "walk"}, Goto("indexer", s)
        PROVE  /\ at' \in [Callers -> Stages] /\ at'["indexer"] = s
               /\ Roles' /\ \A x \in Txids : at'[x] = at[x]
    BY <2>5, IndexerGoes DEF DInv, Talk, Stages, Ended
  <2>6. /\ at' \in [Callers -> Stages] /\ at'["indexer"] \in {"done", "walk"}
        /\ Roles' /\ \A x \in Txids : at'[x] = at[x]
    BY <2>3, <2>5
  <2>7. Types'
    BY <1>1, <2>3, <2>6 DEF DInv, Types
  <2>8. at'["indexer"] = "walk" => /\ Passed(l, dtip, headers') /\ Below(dtip, headers') \in Blocks
                                   /\ ~Known(l, Below(dtip, headers'))
    BY <2>3, <2>5
  <2>9. Download'
    BY <1>1, <2>6, <2>8 DEF DInv, Download, Wanted, Passed
  <2>10. at'["indexer"] = "done" => headers' = NewHeaders(l, dtip) /\ headers' = <<>>
    BY <2>3, <2>4, <2>5
  <2> QED BY <1>1, <2>3, <2>6, <2>7, <2>9, <2>10 DEF DInv, Talk
<1> QED BY <1>2, <1>3

(* A caller fails, and nothing else changes.                               *)
LEMMA FailStep ==
  ASSUME DInv, NEW c \in Callers, NEW s \in {"failed", "panicked"}, Goto(c, s), at[c] # "idle",
         UNCHANGED <<dtip, past, call, indexer, proof>>
  PROVE  DInv'
<1>1. at' = [at EXCEPT ![c] = s] /\ at \in [Callers -> Stages] /\ s \in Stages /\ s \in Ended
  BY DEF Goto, DInv, Types, Stages, Ended
<1>2. at' \in [Callers -> Stages] /\ at'[c] = s /\ \A d \in Callers : d # c => at'[d] = at[d]
  BY <1>1
<1>3. Ids' /\ Calls' /\ Batches'
  BY <1>1, EndTalks DEF DInv
<1>4. Roles'
  <2>1. \A d \in Callers : at'[d] = at[d] \/ at'[d] \in Ended
    BY <1>1, <1>2
  <2> QED BY <2>1 DEF DInv, Talk, Roles, Callers, Ended
<1>5. Types'
  BY <1>2 DEF DInv, Types
<1>6. Download'
  <2>1. \A d \in Callers : at'[d] = at[d] \/ (at'[d] = s /\ d = c)
    BY <1>2
  <2>2. "indexer" \in Callers /\ \A x \in Txids : x \in Callers
    BY DEF Callers
  <2>3. Wanted' = Wanted
    BY DEF Wanted
  <2>4. at'["indexer"] # "idle" => at["indexer"] # "idle"
    BY <2>1, <2>2
  <2> QED BY <2>1, <2>2, <2>3, <2>4 DEF DInv, Download, Passed
<1> QED BY <1>3, <1>4, <1>5, <1>6 DEF DInv, Talk

(* What request makes of a call's replies.                                 *)
LEMMA OneFacts ==
  ASSUME Types, NEW c \in Callers, NEW type
  PROVE  /\ One(c, type) \in {"fine", "failed", "panicked"}
         /\ One(c, type) = "fine" => Len(got[c]) = 1 /\ got[c][1].type = type
<1>1. Len(got[c]) \in Nat
  BY LenProperties DEF Types
<1>2. CASE Len(got[c]) # 1
  BY <1>2 DEF One
<1>3. CASE Len(got[c]) = 1 /\ ~AllAre(c, type)
  BY <1>3 DEF One
<1>4. CASE Len(got[c]) = 1 /\ AllAre(c, type)
  BY <1>4 DEF One, AllAre
<1> QED BY <1>2, <1>3, <1>4

(* A header of the walk arrives: it is the one that was asked for.         *)
LEMMA WalkHeard ==
  ASSUME DInv, at["indexer"] = "walk", One("indexer", "header") = "fine"
  PROVE  got["indexer"][1].of = Wanted
<1>1. "indexer" \in Callers
  BY DEF Callers
<1>2. Len(got["indexer"]) = 1 /\ got["indexer"][1].type = "header"
  BY <1>1, OneFacts DEF DInv
<1>3. Fitting("indexer", got["indexer"][1])
  BY <1>1, <1>2 DEF DInv, Talk, Calls
<1>4. got["indexer"][1] \in {NullResult, Json("header", Wanted)}
  BY <1>3 DEF Fitting
<1>5. got["indexer"][1] # NullResult
  BY <1>2 DEF NullResult, Json
<1> QED BY <1>4, <1>5 DEF Json

(* The walk takes the header it was given, and goes on or ends.            *)
LEMMA StepBackStep ==
  ASSUME DInv, StepBack
  PROVE  /\ DInv' /\ at["indexer"] = "walk"
         /\ \/ at'["indexer"] \in {"walk", "failed", "panicked"}
            \/ at'["indexer"] = "done" /\ headers' = NewHeaders(list, target)
<1>1. /\ "indexer" \in Callers /\ at["indexer"] = "walk" /\ ask["indexer"] = <<>>
      /\ UNCHANGED <<dtip, past, list, target, todo, proof>>
      /\ target \in Blocks /\ headers \in Seq(Blocks)
      /\ Passed(list, target, headers) /\ Wanted \in Blocks /\ ~Known(list, Wanted)
  BY DEF StepBack, Complete, Callers, DInv, Download, Types
<1>2. CASE One("indexer", "header") # "fine"
  <2>1. PICK s \in {"failed", "panicked"} : s = One("indexer", "header")
    BY <1>1, <1>2, OneFacts DEF DInv
  <2>2. Goto("indexer", s) /\ UNCHANGED <<call, headers>>
    BY <1>2, <2>1 DEF StepBack
  <2>3. DInv'
    BY <1>1, <2>2, FailStep
  <2>4. at'["indexer"] = s
    BY <1>1, <2>2 DEF Goto, DInv, Types
  <2> QED BY <1>1, <2>3, <2>4
<1>3. CASE One("indexer", "header") = "fine"
  <2>1. got["indexer"][1].of = Wanted
    BY <1>1, <1>3, WalkHeard
  <2>2. PICK l, t, b, hs : l = list /\ t = target /\ b = Wanted /\ hs = Append(headers, Wanted)
    OBVIOUS
  <2>3. Walk(l, Prev[b], hs)
    BY <1>3, <2>1, <2>2 DEF StepBack
  <2>4. t \in Blocks /\ hs \in Seq(Blocks) /\ Passed(l, t, hs) /\ Below(t, hs) = Prev[b]
    BY <1>1, <2>2, WalkGoesOn DEF Wanted
  <2>5. Prev[b] \in Blocks \cup {Null}
    BY <1>1, <2>2, TreeAssumption
  <2>6. /\ headers' \in Seq(Blocks)
        /\ last' \in Nat /\ id' \in [Callers -> 0 .. last']
        /\ ask' \in [Callers -> Seq(Queries)] /\ got' \in [Callers -> Seq(Results)]
        /\ Ids' /\ Calls' /\ Batches'
        /\ \/ Goto("indexer", "done") /\ headers' = NewHeaders(l, t)
           \/ /\ Goto("indexer", "walk")
              /\ Passed(l, t, headers') /\ Below(t, headers') \in Blocks
              /\ ~Known(l, Below(t, headers'))
    BY <1>1, <2>2, <2>3, <2>4, <2>5, WalkStep DEF DInv
  <2>7. ASSUME NEW s \in {"done", "walk"}, Goto("indexer", s)
        PROVE  /\ at' \in [Callers -> Stages] /\ at'["indexer"] = s
               /\ Roles' /\ \A x \in Txids : at'[x] = at[x]
    BY <2>7, IndexerGoes DEF DInv, Talk, Stages, Ended
  <2>8. /\ at' \in [Callers -> Stages] /\ at'["indexer"] \in {"done", "walk"}
        /\ Roles' /\ \A x \in Txids : at'[x] = at[x]
    BY <2>6, <2>7
  <2>9. Types'
    BY <1>1, <2>6, <2>8 DEF DInv, Types
  <2>10. at'["indexer"] = "walk" => /\ Passed(l, t, headers') /\ Below(t, headers') \in Blocks
                                    /\ ~Known(l, Below(t, headers'))
    BY <2>6, <2>7
  <2>11. Download'
    BY <1>1, <2>2, <2>8, <2>10 DEF DInv, Download, Wanted, Passed
  <2>12. at'["indexer"] = "done" => headers' = NewHeaders(l, t)
    BY <2>6, <2>7
  <2> QED BY <1>1, <2>2, <2>6, <2>8, <2>9, <2>11, <2>12 DEF DInv, Talk
<1> QED BY <1>2, <1>3

(* The height is known, and the first hashes are asked for.                *)
LEMMA HeightKnownStep ==
  ASSUME DInv, HeightKnown
  PROVE  /\ DInv' /\ at["indexer"] = "height"
         /\ at'["indexer"] \in {"hashes", "panicked"} /\ UNCHANGED <<list, target>>
<1>1. /\ "indexer" \in Callers /\ at["indexer"] = "height"
      /\ UNCHANGED <<dtip, past, list, target, headers, proof>>
      /\ list.headers = <<>> /\ target \in Blocks
  BY DEF HeightKnown, Complete, Callers, DInv, Download
<1>2. CASE One("indexer", "info") # "fine"
  <2>1. Goto("indexer", "panicked") /\ UNCHANGED <<call, todo>>
    BY <1>2 DEF HeightKnown
  <2>2. DInv'
    BY <1>1, <2>1, FailStep
  <2>3. at'["indexer"] = "panicked"
    BY <1>1, <2>1 DEF Goto, DInv, Types
  <2> QED BY <1>1, <2>2, <2>3
<1>3. CASE One("indexer", "info") = "fine"
  <2>1. got["indexer"][1].of \in Nat
    <3>1. Len(got["indexer"]) = 1 /\ got["indexer"][1].type = "info"
      BY <1>1, <1>3, OneFacts DEF DInv
    <3>2. Fitting("indexer", got["indexer"][1])
      BY <1>1, <3>1 DEF DInv, Talk, Calls
    <3> QED BY <3>1, <3>2 DEF Fitting, Sound
  <2>2. PICK n \in Nat : n = got["indexer"][1].of
    BY <2>1
  <2> DEFINE heights == [k \in 1 .. n + 1 |-> k - 1]
  <2>3. heights \in Seq(Nat)
    BY <2>2
  <2>4. todo' = heights /\ AskHashes(heights)
    BY <1>3, <2>2 DEF HeightKnown
  <2> HIDE DEF heights
  <2>5. /\ last' \in Nat /\ id' \in [Callers -> 0 .. last']
        /\ ask' \in [Callers -> Seq(Queries)] /\ got' \in [Callers -> Seq(Results)]
        /\ Ids' /\ Calls' /\ Batches'
        /\ Goto("indexer", "hashes")
    BY <1>1, <2>3, <2>4, AskHashesTalks DEF DInv
  <2>6. /\ at' \in [Callers -> Stages] /\ at'["indexer"] = "hashes"
        /\ Roles' /\ \A x \in Txids : at'[x] = at[x]
    BY <2>5, IndexerGoes DEF DInv, Talk, Stages, Ended
  <2>7. Types'
    BY <1>1, <2>3, <2>4, <2>5, <2>6 DEF DInv, Types
  <2>8. Download'
    BY <1>1, <2>6 DEF DInv, Download
  <2> QED BY <1>1, <2>5, <2>6, <2>7, <2>8 DEF DInv, Talk
<1> QED BY <1>2, <1>3

(* The hashes of a chunk are handed on.                                    *)
LEMMA HashesKnownStep ==
  ASSUME DInv, HashesKnown
  PROVE  /\ DInv' /\ at["indexer"] = "hashes"
         /\ at'["indexer"] = "headers" /\ UNCHANGED <<list, target>>
<1>1. /\ "indexer" \in Callers /\ at["indexer"] = "hashes"
      /\ UNCHANGED <<dtip, past, list, target, todo, headers, proof>>
      /\ list.headers = <<>> /\ target \in Blocks
      /\ Goto("indexer", "headers")
  BY DEF HashesKnown, Complete, Callers, DInv, Download
<1>2. PICK qs : qs = [k \in 1 .. Len(got["indexer"]) |-> Query("header", got["indexer"][k].of)]
  OBVIOUS
<1>3. Call("indexer", qs)
  BY <1>2 DEF HashesKnown
<1>4. got["indexer"] \in Seq(Results) /\ Len(got["indexer"]) \in Nat
  BY <1>1, LenProperties DEF DInv, Types
<1>5. \A k \in 1 .. Len(got["indexer"]) : qs[k] \in Queries /\ Posed(qs[k])
  <2> TAKE k \in 1 .. Len(got["indexer"])
  <2>1. got["indexer"][k] \in Results
    BY <1>4
  <2> QED BY <1>2, <2>1 DEF Results, Queries, Query, Posed
<1>6. qs \in Seq(Queries) /\ Len(qs) = Len(got["indexer"])
  BY <1>2, <1>4, <1>5
<1>7. /\ at' \in [Callers -> Stages] /\ at'["indexer"] = "headers"
      /\ Roles' /\ \A x \in Txids : at'[x] = at[x]
  BY <1>1, IndexerGoes DEF DInv, Talk, Stages, Ended
<1>8. \A k \in 1 .. Len(qs) : Posing("indexer", qs[k])'
  BY <1>5, <1>6, <1>7 DEF Posing
<1>9. /\ last' \in Nat /\ id' \in [Callers -> 0 .. last']
      /\ ask' \in [Callers -> Seq(Queries)] /\ got' \in [Callers -> Seq(Results)]
      /\ Ids' /\ Calls' /\ Batches'
  BY <1>1, <1>3, <1>6, <1>8, CallTalks DEF DInv
<1>10. Types'
  BY <1>1, <1>7, <1>9 DEF DInv, Types
<1>11. Download'
  BY <1>1, <1>7 DEF DInv, Download
<1> QED BY <1>1, <1>7, <1>9, <1>10, <1>11 DEF DInv, Talk

(* The headers of a chunk are here.  After the last chunk they are the     *)
(* chain of the target, or the thread does not come through its assertions. *)
LEMMA HeadersKnownStep ==
  ASSUME DInv, HeadersKnown
  PROVE  /\ DInv' /\ at["indexer"] = "headers" /\ UNCHANGED <<list, target>>
         /\ \/ at'["indexer"] \in {"hashes", "failed", "panicked"}
            \/ at'["indexer"] = "done" /\ headers' = NewHeaders(list, target)
<1>1. /\ "indexer" \in Callers /\ at["indexer"] = "headers" /\ ask["indexer"] = <<>>
      /\ UNCHANGED <<dtip, past, list, target, proof>>
      /\ list.headers = <<>> /\ target \in Blocks /\ GoodList(list)
  BY DEF HeadersKnown, Complete, Callers, DInv, Download, Types
<1>2. CASE Chunk # "fine"
  <2>1. PICK s \in {"failed", "panicked"} : s = Chunk
    BY <1>2 DEF Chunk
  <2>2. Goto("indexer", s) /\ UNCHANGED <<call, headers, todo>>
    BY <1>2, <2>1 DEF HeadersKnown
  <2>3. DInv'
    BY <1>1, <2>2, FailStep
  <2>4. at'["indexer"] = s
    BY <1>1, <2>2 DEF Goto, DInv, Types
  <2> QED BY <1>1, <2>3, <2>4
<1>3. CASE Chunk = "fine"
  <2> DEFINE new  == [k \in 1 .. Len(got["indexer"]) |-> got["indexer"][k].of]
             hs   == headers \o new
             left == RestOf(todo, HeightChunk)
  <2>1. /\ headers' = hs /\ todo' = left
        /\ IF left # <<>> THEN AskHashes(left)
           ELSE /\ Goto("indexer", IF IsChainTo(hs, target) THEN "done" ELSE "panicked")
                /\ UNCHANGED call
    BY <1>3 DEF HeadersKnown
  <2>2. hs \in Seq(Blocks)
    <3>1. got["indexer"] \in Seq(Results) /\ Len(got["indexer"]) \in Nat
      BY <1>1, LenProperties DEF DInv, Types
    <3>2. AllAre("indexer", "header")
      BY <1>3 DEF Chunk
    <3>3. \A k \in 1 .. Len(got["indexer"]) : got["indexer"][k].of \in Blocks
      BY <1>1, <3>2 DEF AllAre, DInv, Talk, Calls, Fitting, Sound
    <3>4. new \in Seq(Blocks)
      BY <3>1, <3>3
    <3> HIDE DEF new
    <3>5. headers \in Seq(Blocks)
      BY DEF DInv, Types
    <3> QED BY <3>4, <3>5
  <2>3. left \in Seq(Nat)
    BY Cut, BatchAssumption DEF DInv, Types
  <2> HIDE DEF hs, left
  <2>4. CASE left # <<>>
    <3>1. AskHashes(left)
      BY <2>1, <2>4
    <3>2. PICK heights \in Seq(Nat) : heights = left
      BY <2>3
    <3>3. /\ last' \in Nat /\ id' \in [Callers -> 0 .. last']
          /\ ask' \in [Callers -> Seq(Queries)] /\ got' \in [Callers -> Seq(Results)]
          /\ Ids' /\ Calls' /\ Batches'
          /\ Goto("indexer", "hashes")
      BY <1>1, <3>1, <3>2, AskHashesTalks DEF DInv
    <3>4. /\ at' \in [Callers -> Stages] /\ at'["indexer"] = "hashes"
          /\ Roles' /\ \A x \in Txids : at'[x] = at[x]
      BY <3>3, IndexerGoes DEF DInv, Talk, Stages, Ended
    <3>5. Types'
      BY <1>1, <2>1, <2>2, <2>3, <3>3, <3>4 DEF DInv, Types
    <3>6. Download'
      BY <1>1, <3>4 DEF DInv, Download
    <3> QED BY <1>1, <3>3, <3>4, <3>5, <3>6 DEF DInv, Talk
  <2>5. CASE left = <<>>
    <3>1. PICK s \in {"done", "panicked"} :
             s = IF IsChainTo(hs, target) THEN "done" ELSE "panicked"
      OBVIOUS
    <3>2. Goto("indexer", s) /\ UNCHANGED call
      BY <2>1, <2>5, <3>1
    <3>3. /\ at' \in [Callers -> Stages] /\ at'["indexer"] = s
          /\ Roles' /\ \A x \in Txids : at'[x] = at[x]
      BY <3>2, IndexerGoes DEF DInv, Talk, Stages, Ended
    <3>4. Ids' /\ Calls' /\ Batches'
      BY <1>1, <3>2, EndTalks DEF DInv, Ended
    <3>5. Types'
      BY <1>1, <2>1, <2>2, <2>3, <3>2, <3>3 DEF DInv, Types
    <3>6. Download'
      BY <1>1, <3>3 DEF DInv, Download
    <3>7. s = "done" => hs = NewHeaders(list, target)
      <4> SUFFICES ASSUME IsChainTo(hs, target) PROVE hs = NewHeaders(list, target)
        BY <3>1
      <4>1. hs # <<>> /\ hs[Len(hs)] = target
        BY DEF IsChainTo
      <4>2. \A k \in 1 .. Len(hs) : Prev[hs[k]] = IF k = 1 THEN Null ELSE hs[k - 1]
        BY DEF IsChainTo
      <4>3. hs = Chain[target]
        BY <2>2, <4>1, <4>2, ChainUnique
      <4>4. \A b \in Blocks : ~Known(list, b)
        BY <1>1, KnownInList, EmptySeq
      <4>5. KnownUpTo(list, target) = {}
        BY <1>1, <4>4, ChainEnds DEF KnownUpTo
      <4> QED BY <4>3, <4>5 DEF NewHeaders
    <3> QED BY <1>1, <2>1, <3>1, <3>3, <3>4, <3>5, <3>6, <3>7 DEF DInv, Talk
  <2> QED BY <2>4, <2>5
<1> QED BY <1>2, <1>3

(* A handler asks for its proof.                                           *)
LEMMA AskProofStep ==
  ASSUME DInv, NEW x \in Txids, AskProof(x)
  PROVE  DInv' /\ at'["indexer"] = at["indexer"] /\ UNCHANGED indexer
<1>1. /\ x \in Callers /\ x # "indexer" /\ "indexer" \in Callers /\ Goto(x, "proof")
      /\ UNCHANGED <<dtip, past, indexer, proof>>
  BY CallersAssumption DEF AskProof, Callers
<1>2. PICK qs : qs = <<Query("proof", x)>>
  OBVIOUS
<1>3. Call(x, qs)
  BY <1>2 DEF AskProof
<1>4. Query("proof", x) \in Queries /\ Posed(Query("proof", x))
  BY DEF Query, Queries, Args, Posed
<1>5. qs \in Seq(Queries) /\ Len(qs) = 1 /\ qs[1] = Query("proof", x)
  BY <1>2, <1>4
<1>6. /\ at' \in [Callers -> Stages] /\ at'[x] = "proof"
      /\ \A c \in Callers : c # x => at'[c] = at[c]
  BY <1>1 DEF Goto, DInv, Types, Stages
<1>7. \A k \in 1 .. Len(qs) : Posing(x, qs[k])'
  <2>1. \A k \in 1 .. Len(qs) : qs[k] = Query("proof", x)
    BY <1>5
  <2> QED BY <1>4, <1>6, <2>1 DEF Posing
<1>8. /\ last' \in Nat /\ id' \in [Callers -> 0 .. last']
      /\ ask' \in [Callers -> Seq(Queries)] /\ got' \in [Callers -> Seq(Results)]
      /\ Ids' /\ Calls' /\ Batches'
  BY <1>1, <1>3, <1>5, <1>7, CallTalks DEF DInv
<1>9. Roles'
  BY <1>1, <1>6 DEF DInv, Talk, Roles, Callers
<1>10. Types'
  BY <1>1, <1>6, <1>8 DEF DInv, Types
<1>11. Download'
  <2>1. Wanted' = Wanted
    BY <1>1 DEF Wanted
  <2> QED BY <1>1, <1>6, <2>1 DEF DInv, Download, Passed, Callers
<1> QED BY <1>1, <1>6, <1>8, <1>9, <1>10, <1>11 DEF DInv, Talk

(* A handler gets its proof.                                               *)
LEMMA ProofKnownStep ==
  ASSUME DInv, NEW x \in Txids, ProofKnown(x)
  PROVE  DInv' /\ at'["indexer"] = at["indexer"] /\ UNCHANGED indexer
<1>1. /\ x \in Callers /\ x # "indexer" /\ "indexer" \in Callers
      /\ at[x] = "proof" /\ ask[x] = <<>> /\ UNCHANGED <<dtip, past, call, indexer>>
  BY CallersAssumption DEF ProofKnown, Callers, Complete
<1>2. CASE One(x, "proof") # "fine"
  <2>1. PICK s \in {"failed", "panicked"} : s = One(x, "proof")
    BY <1>1, <1>2, OneFacts DEF DInv
  <2>2. Goto(x, s) /\ UNCHANGED proof
    BY <1>2, <2>1 DEF ProofKnown
  <2>3. DInv'
    BY <1>1, <2>2, FailStep
  <2>4. at'["indexer"] = at["indexer"]
    BY <1>1, <2>2 DEF Goto, DInv, Types
  <2> QED BY <1>1, <2>3, <2>4
<1>3. CASE One(x, "proof") = "fine"
  <2>1. Goto(x, "done") /\ proof' = [proof EXCEPT ![x] = got[x][1].of]
    BY <1>3 DEF ProofKnown
  <2>2. got[x][1].of = x
    <3>1. Len(got[x]) = 1 /\ got[x][1].type = "proof"
      BY <1>1, <1>3, OneFacts DEF DInv
    <3>2. Fitting(x, got[x][1])
      BY <1>1, <3>1 DEF DInv, Talk, Calls
    <3>3. got[x][1] \in {NullResult, Json("proof", x)} /\ got[x][1] # NullResult
      BY <1>1, <3>1, <3>2 DEF Fitting, NullResult, Json
    <3> QED BY <3>3 DEF Json
  <2>3. /\ at' \in [Callers -> Stages] /\ at'[x] = "done"
        /\ \A c \in Callers : c # x => at'[c] = at[c]
    BY <1>1, <2>1 DEF Goto, DInv, Types, Stages, Ended
  <2>4. /\ proof' \in [Txids -> Txids \cup {Null}] /\ proof'[x] = x
        /\ \A y \in Txids : y # x => proof'[y] = proof[y]
    BY <2>1, <2>2 DEF DInv, Types
  <2>5. Ids' /\ Calls' /\ Batches'
    BY <1>1, <2>1, EndTalks DEF DInv, Ended
  <2>6. Roles'
    BY <1>1, <2>3 DEF DInv, Talk, Roles, Callers, Ended
  <2>7. Types'
    BY <1>1, <2>3, <2>4 DEF DInv, Types
  <2>8. Download'
    <3>1. Wanted' = Wanted
      BY <1>1 DEF Wanted
    <3> QED BY <1>1, <2>3, <2>4, <3>1 DEF DInv, Download, Passed, Callers
  <2> QED BY <1>1, <2>3, <2>5, <2>6, <2>7, <2>8 DEF DInv, Talk
<1> QED BY <1>2, <1>3

(* An exchange takes place.                                                *)
LEMMA ExchangeStep ==
  ASSUME DInv, NEW c \in Callers, Exchange(c) \/ ExchangeFails(c)
  PROVE  /\ DInv' /\ UNCHANGED indexer
         /\ at["indexer"] \in {"idle", "done", "failed", "panicked"}
               => at'["indexer"] = at["indexer"]
         /\ at'["indexer"] \in {at["indexer"], "failed"}
<1>1. /\ ask[c] # <<>> /\ at[c] \notin {"idle", "done", "failed", "panicked"}
      /\ "indexer" \in Callers
      /\ UNCHANGED <<dtip, indexer, proof>>
  BY DEF Exchange, ExchangeFails, DInv, Talk, Calls, Callers
<1>2. ASSUME Goto(c, "failed")
      PROVE  /\ at' \in [Callers -> Stages] /\ at'[c] = "failed"
             /\ \A d \in Callers : d # c => at'[d] = at[d]
  BY <1>2 DEF Goto, DInv, Types, Stages, Ended
<1>3. CASE ExchangeFails(c)
  <2>1. Goto(c, "failed") /\ UNCHANGED <<past, call>>
    BY <1>3 DEF ExchangeFails
  <2> QED BY <1>1, <1>2, <2>1, FailStep
<1>4. CASE Exchange(c)
  <2>1. /\ ask' \in [Callers -> Seq(Queries)] /\ got' \in [Callers -> Seq(Results)]
        /\ Ids' /\ Calls' /\ Batches'
        /\ last' = last /\ id' = id
        /\ at' = at \/ Goto(c, "failed")
    BY <1>4, ExchangeTalks DEF DInv
  <2>2. /\ at' \in [Callers -> Stages]
        /\ \A d \in Callers : \/ at'[d] = at[d]
                              \/ d = c /\ at'[d] = "failed"
    BY <1>2, <2>1 DEF DInv, Types
  <2>3. Types'
    BY <1>1, <2>1, <2>2 DEF DInv, Types
  <2>4. Roles'
    BY <2>2 DEF DInv, Talk, Roles, Callers, Ended
  <2>5. Download'
    <3>1. Wanted' = Wanted
      BY <1>1 DEF Wanted
    <3>2. \A d \in Callers : at'[d] # "idle" => at[d] # "idle"
      BY <1>1, <2>2
    <3> QED BY <1>1, <2>2, <3>1, <3>2 DEF DInv, Download, Passed, Callers
  <2> QED BY <1>1, <2>1, <2>2, <2>3, <2>4, <2>5 DEF DInv, Talk
<1> QED BY <1>3, <1>4

(* The node's blocks change nothing of what was said.                      *)
LEMMA NodeStep ==
  ASSUME DInv, NodeMoves \/ UNCHANGED vars
  PROVE  DInv' /\ UNCHANGED <<at, indexer>>
<1>1. UNCHANGED <<past, call, at, indexer, proof>> /\ dtip' \in Blocks
  BY DEF NodeMoves, DInv, Types
<1>2. Types' /\ Roles' /\ Ids'
  BY <1>1 DEF DInv, Types, Talk, Roles, Ids
<1>3. Wanted' = Wanted
  BY <1>1 DEF Wanted
<1>4. \A c \in Callers : /\ \A q : Posing(c, q) => Posing(c, q)'
                         /\ \A j : Fitting(c, j) => Fitting(c, j)'
                         /\ \A r : Hears(c, r) => Hears(c, r)'
  BY <1>1, <1>3, StillFits
<1>5. Calls'
  BY <1>1, <1>4 DEF DInv, Talk, Calls
<1>6. Batches'
  BY <1>1, <1>4 DEF DInv, Talk, Batches
<1>7. Download'
  BY <1>1, <1>3 DEF DInv, Download, Passed
<1> QED BY <1>1, <1>2, <1>5, <1>6, <1>7 DEF DInv, Talk

(* Before anything is asked.                                               *)
LEMMA InitD == Init => DInv
<1> SUFFICES ASSUME Init PROVE DInv
  OBVIOUS
<1>1. /\ <<>> \in Seq(Queries) /\ <<>> \in Seq(Results) /\ <<>> \in Seq(Nat) /\ <<>> \in Seq(Blocks)
      /\ Len(<<>>) = 0
  BY EmptySeq
<1>2. "indexer" \in Callers /\ \A x \in Txids : x \in Callers
  BY DEF Callers
<1>3. Types
  BY <1>1, GoodEmpty DEF Init, Types, Stages
<1>4. Roles /\ Ids /\ Batches
  BY <1>2 DEF Init, Roles, Ids, Batches
<1>5. Calls
  BY <1>1 DEF Init, Calls
<1>6. Download
  BY <1>2 DEF Init, Download
<1> QED BY <1>3, <1>4, <1>5, <1>6 DEF DInv, Talk

(* What a step of the system is, with the list a download begins with.     *)
LEMMA Steps ==
  ASSUME [Next]_vars
  PROVE  \/ \E l : GoodList(l) /\ Start(l)
         \/ \E x \in Txids : AskProof(x) \/ ProofKnown(x)
         \/ \E c \in Callers : Exchange(c) \/ ExchangeFails(c)
         \/ StepBack \/ HeightKnown \/ HashesKnown \/ HeadersKnown
         \/ NodeMoves \/ UNCHANGED vars
<1>1. CASE Begin
  <2>1. CASE Start(Empty)
    BY <2>1, GoodEmpty
  <2>2. CASE \E b, c \in Blocks : Start(Reorganised(b, c))
    BY <2>2, ReorganisedGood
  <2> QED BY <1>1, <2>1, <2>2 DEF Begin
<1>2. CASE \E c \in Callers : Proceed(c)
  BY <1>2 DEF Proceed
<1> QED BY <1>1, <1>2 DEF Next, Quiet

(* Every step keeps the invariant.                                         *)
LEMMA NextD == DInv /\ [Next]_vars => DInv'
<1> SUFFICES ASSUME DInv, [Next]_vars PROVE DInv'
  OBVIOUS
<1>1. CASE \E l : GoodList(l) /\ Start(l)
  BY <1>1, StartStep
<1>2. CASE \E x \in Txids : AskProof(x) \/ ProofKnown(x)
  BY <1>2, AskProofStep, ProofKnownStep
<1>3. CASE \E c \in Callers : Exchange(c) \/ ExchangeFails(c)
  BY <1>3, ExchangeStep
<1>4. CASE StepBack \/ HeightKnown \/ HashesKnown \/ HeadersKnown
  BY <1>4, StepBackStep, HeightKnownStep, HashesKnownStep, HeadersKnownStep
<1>5. CASE NodeMoves \/ UNCHANGED vars
  BY <1>5, NodeStep
<1> QED BY <1>1, <1>2, <1>3, <1>4, <1>5, Steps

------------------------------------------------------------------------------
(* The theorems.                                                           *)

(* The inductive invariant: ids, calls and old batches, and what the       *)
(* indexer has of the headers.                                             *)
THEOREM DInvHolds == Spec => []DInv
<1>1. Init => DInv
  BY InitD
<1>2. DInv /\ [Next]_vars => DInv'
  BY NextD
<1> QED BY <1>1, <1>2, PTL DEF Spec

(* Type correctness: no caller keeps a result that is none.                *)
THEOREM TypeCorrect == Spec => []TypeOK
<1>1. DInv => TypeOK
  <2> SUFFICES ASSUME DInv PROVE TypeOK
    OBVIOUS
  <2>1. ASSUME NEW c \in Callers, NEW k \in 1 .. Len(got[c]) PROVE got[c][k] \notin {Bad, Missing}
    <3>1. got[c][k] \in Results
      BY DEF DInv, Talk, Calls, Fitting, Sound
    <3> QED BY <3>1 DEF Results, Bad, Missing, Json
  <2>2. list \in [headers : Seq(Blocks), heights : [Blocks -> Nat \cup {Absent}]]
    BY DEF DInv, Types, GoodList
  <2> QED BY <2>1, <2>2 DEF DInv, Types, TypeOK
<1> QED BY <1>1, DInvHolds, PTL

(* No caller takes a reply that was meant for another, for any number of   *)
(* callers and any replies that come late (get_new_headers, gettxoutproof: *)
(* neither compares what it is given with what it asked for).              *)
THEOREM RepliesAsAsked == Spec => []ReplyAsAsked
<1>1. DInv => ReplyAsAsked
  <2> SUFFICES ASSUME DInv PROVE ReplyAsAsked
    OBVIOUS
  <2>1. Wanted = IF headers = <<>> THEN target ELSE Prev[Last(headers)]
    BY DEF Wanted, Below, Last
  <2>2. Complete("indexer", "walk") /\ One("indexer", "header") = "fine" =>
           got["indexer"][1].of = Wanted
    BY WalkHeard DEF Complete
  <2>3. \A x \in Txids : at[x] = "done" => proof[x] = x
    BY DEF DInv, Download
  <2> QED BY <2>1, <2>2, <2>3 DEF ReplyAsAsked
<1> QED BY <1>1, DInvHolds, PTL

------------------------------------------------------------------------------
(* The download as a step of the indexer.                                  *)

(* The specification's own words mean the same.                            *)
LEMMA SameNew ==
  /\ Source!Empty = Empty
  /\ \A l, b : Source!NewHeaders(l, b) = NewHeaders(l, b)
<1>1. \A l, b : Source!NewHeaders(l, b) = NewHeaders(l, b)
  BY DEF Source!NewHeaders, NewHeaders, Source!KnownUpTo, KnownUpTo,
         Source!Known, Known, Source!Absent, Absent
<1>2. Source!Empty = Empty
  BY DEF Source!Empty, Empty, Source!Absent, Absent
<1> QED BY <1>1, <1>2

(* The headers the specification sees.                                     *)
Given == IF at["indexer"] = "done" THEN headers ELSE <<>>

(* Where nothing that the specification sees has changed, it does nothing. *)
LEMMA NoStep ==
  ASSUME UNCHANGED <<list, target>>, State' = State, Given' = Given
  PROVE  [Source!Next]_(Source!vars)
  BY DEF Source!vars, Given

(* A download starts as one that was not asked for.                        *)
LEMMA InitSource == Init => Source!Init
<1> SUFFICES ASSUME Init PROVE Source!Init
  OBVIOUS
<1>1. at["indexer"] = "idle"
  BY DEF Init, Callers
<1>2. State = "idle" /\ Given = <<>>
  BY <1>1 DEF State, Given
<1> QED BY <1>2, SameNew DEF Init, Source!Init, Given

(* The beginning is a request, or nothing is new.                          *)
LEMMA StartSource ==
  ASSUME DInv, NEW l, GoodList(l), Start(l)
  PROVE  [Source!Next]_(Source!vars)
<1>1. /\ at["indexer"] = "idle" /\ headers = <<>>
      /\ \/ at'["indexer"] \in {"height", "walk"}
         \/ at'["indexer"] = "done" /\ headers' = <<>> /\ headers' = NewHeaders(l, dtip)
  BY StartStep
<1>2. State = "idle" /\ Given = <<>>
  BY <1>1 DEF State, Given
<1>3. list' = l /\ target' = dtip /\ dtip \in Blocks
  BY DEF Start, DInv, Types
<1>4. DOMAIN l = DOMAIN Empty
  BY DEF GoodList, Empty
<1>5. CASE at'["indexer"] \in {"height", "walk"}
  <2>1. State' = "asked" /\ Given' = <<>>
    BY <1>5 DEF State, Given
  <2>2. Source!Ask
    BY <1>2, <1>3, <1>4, <2>1, SameNew DEF Source!Ask, Given
  <2> QED BY <2>2 DEF Source!Next
<1>6. CASE at'["indexer"] = "done" /\ headers' = <<>> /\ headers' = NewHeaders(l, dtip)
  <2>1. State' = "given" /\ Given' = <<>>
    BY <1>6 DEF State, Given
  <2>2. Source!NothingNew
    BY <1>2, <1>3, <1>6, <2>1, SameNew DEF Source!NothingNew, Given
  <2> QED BY <2>2 DEF Source!Next
<1> QED BY <1>1, <1>5, <1>6

(* An open download goes on, is refused, or gives what the list lacks.     *)
LEMMA GoSource ==
  ASSUME at["indexer"] \in {"height", "hashes", "headers", "walk"}, UNCHANGED <<list, target>>,
         \/ at'["indexer"] \in {"height", "hashes", "headers", "walk", "failed", "panicked"}
         \/ at'["indexer"] = "done" /\ headers' = NewHeaders(list, target)
  PROVE  [Source!Next]_(Source!vars)
<1>1. State = "asked" /\ Given = <<>>
  BY DEF State, Given
<1>2. CASE at'["indexer"] \in {"height", "hashes", "headers", "walk"}
  <2>1. State' = "asked" /\ Given' = <<>>
    BY <1>2 DEF State, Given
  <2> QED BY <1>1, <2>1, NoStep
<1>3. CASE at'["indexer"] \in {"failed", "panicked"}
  <2>1. State' = "refused" /\ Given' = <<>>
    BY <1>3 DEF State, Given
  <2>2. Source!Refuse
    BY <1>1, <2>1 DEF Source!Refuse, Given
  <2> QED BY <2>2 DEF Source!Next
<1>4. CASE at'["indexer"] = "done" /\ headers' = NewHeaders(list, target)
  <2>1. State' = "given" /\ Given' = NewHeaders(list, target)
    BY <1>4 DEF State, Given
  <2>2. Source!Give
    BY <1>1, <2>1, SameNew DEF Source!Give, Given
  <2> QED BY <2>2 DEF Source!Next
<1> QED BY <1>2, <1>3, <1>4

(* Every step of the client is a step of the specification or none.        *)
LEMMA NextSource == DInv /\ [Next]_vars => [Source!Next]_(Source!vars)
<1> SUFFICES ASSUME DInv, [Next]_vars PROVE [Source!Next]_(Source!vars)
  OBVIOUS
<1>1. ASSUME UNCHANGED indexer, at'["indexer"] = at["indexer"]
      PROVE  [Source!Next]_(Source!vars)
  BY <1>1, NoStep DEF State, Given
<1>2. CASE \E l : GoodList(l) /\ Start(l)
  BY <1>2, StartSource
<1>3. CASE \E x \in Txids : AskProof(x) \/ ProofKnown(x)
  BY <1>1, <1>3, AskProofStep, ProofKnownStep
<1>4. ASSUME NEW c \in Callers, Exchange(c) \/ ExchangeFails(c)
      PROVE  [Source!Next]_(Source!vars)
  <2>1. /\ UNCHANGED indexer
        /\ at["indexer"] \in {"idle", "done", "failed", "panicked"}
              => at'["indexer"] = at["indexer"]
        /\ at'["indexer"] \in {at["indexer"], "failed"}
    BY <1>4, ExchangeStep
  <2>2. CASE at'["indexer"] = at["indexer"]
    BY <1>1, <2>1, <2>2
  <2>3. CASE at'["indexer"] # at["indexer"]
    <3>1. at["indexer"] \in {"height", "hashes", "headers", "walk"} /\ at'["indexer"] = "failed"
      BY <2>1, <2>3 DEF DInv, Types, Talk, Roles, Stages, Ended, Callers
    <3> QED BY <2>1, <3>1, GoSource
  <2> QED BY <2>2, <2>3
<1>5. CASE StepBack
  <2>1. UNCHANGED <<list, target>>
    BY <1>5 DEF StepBack
  <2> QED BY <1>5, <2>1, StepBackStep, GoSource
<1>6. CASE HeightKnown
  BY <1>6, HeightKnownStep, GoSource
<1>7. CASE HashesKnown
  BY <1>7, HashesKnownStep, GoSource
<1>8. CASE HeadersKnown
  BY <1>8, HeadersKnownStep, GoSource
<1>9. CASE NodeMoves \/ UNCHANGED vars
  BY <1>1, <1>9, NodeStep
<1> QED BY <1>2, <1>3, <1>4, <1>5, <1>6, <1>7, <1>8, <1>9, Steps

(* However exchanges go wrong and whatever the node reorganises between    *)
(* them, a download that ends well gives exactly the headers the list      *)
(* lacks, in order (Daemon::get_new_headers).                              *)
THEOREM SourceImplemented == Spec => ImplementsSource
<1>1. Init => Source!Init
  BY InitSource
<1>2. DInv /\ [Next]_vars => [Source!Next]_(Source!vars)
  BY NextSource
<1> QED BY <1>1, <1>2, DInvHolds, PTL DEF Spec, ImplementsSource, Source!Spec
==============================================================================
