-------------------------- MODULE SolService_proofs --------------------------
(***************************************************************************)
(* Proofs about what the Solana client answers: a value returned as        *)
(* verified is one the judge and all extra RPCs support, and the machinery *)
(* of SolDispatch implements SolService, whatever the number of RPCs, the  *)
(* lists they answer and the capacities.                                   *)
(***************************************************************************)
EXTENDS SolDispatch_proofs, WellFoundedInduction

(* The definitions every step of the specification expands to.             *)
USE DEF handlerVars, dispatcherVars, workerVars

------------------------------------------------------------------------------
(* Lists.                                                                  *)

(* A set of numbers with 0 and the successors of its elements has all.     *)
LEMMA Counting ==
  ASSUME NEW S, 0 \in S, \A n \in Nat : n \in S => n + 1 \in S
  PROVE  Nat \subseteq S
<1> DEFINE T == Nat \ S
           R == OpToRel(<, Nat)
<1> SUFFICES ASSUME T # {} PROVE FALSE
  OBVIOUS
<1>1. PICK x \in T : \A y \in T : ~ (<<y, x>> \in R)
  <2> HIDE DEF T, R
  <2>1. T \subseteq Nat
    BY DEF T
  <2>2. IsWellFoundedOn(R, Nat)
    BY NatLessThanWellFounded DEF R
  <2> QED BY <2>1, <2>2, WFMin
<1>2. x \in Nat /\ x # 0
  OBVIOUS
<1>3. x - 1 \in T
  BY <1>2
<1>4. <<x - 1, x>> \in R
  BY <1>2 DEF OpToRel
<1> QED BY <1>1, <1>3, <1>4

(* A list, as ListsAssumption has it.                                      *)
IsList(s) == s \in Seq(Entries(s))

(* The list behind the first entry.                                        *)
LEMMA TailList ==
  ASSUME NEW s, IsList(s), s # <<>>
  PROVE  IsList(Tail(s))
<1>1. /\ Len(s) \in Nat \ {0} /\ Tail(s) \in Seq(Entries(s))
      /\ Len(Tail(s)) = Len(s) - 1
  BY HeadTailProperties, EmptySeq DEF IsList
<1>2. DOMAIN Tail(s) = 1 .. Len(Tail(s)) /\ Tail(s) \in [1 .. Len(Tail(s)) -> Entries(s)]
  BY <1>1, LenProperties
<1>3. Tail(s) \in [1 .. Len(Tail(s)) -> Entries(Tail(s))]
  BY <1>2 DEF Entries
<1>4. Len(Tail(s)) \in Nat
  BY <1>1
<1> QED BY <1>3, <1>4, SeqDef DEF IsList

(* One step of InOrder: what it has met after i entries.                   *)
Met(f, j, X, i) ==
    IF i = 0 THEN <<>>
    ELSE IF j[i] \in X /\ \A k \in 1 .. i - 1 : j[k] # j[i]
         THEN Append(f[i - 1], j[i])
         ELSE f[i - 1]

(* The recursion of InOrder defines a function.                            *)
LEMMA MetDefined ==
  ASSUME NEW j, NEW X, NEW n \in Nat
  PROVE  \E f : f = [i \in 0 .. n |-> Met(f, j, X, i)]
<1> DEFINE S == {m \in Nat : \E f : f = [i \in 0 .. m |-> Met(f, j, X, i)]}
<1>1. 0 \in S
  <2> DEFINE f == [i \in 0 .. 0 |-> <<>>]
  <2>1. f = [i \in 0 .. 0 |-> Met(f, j, X, i)]
    BY DEF Met
  <2> QED BY <2>1
<1>2. ASSUME NEW m \in Nat, m \in S PROVE m + 1 \in S
  <2>1. PICK f : f = [i \in 0 .. m |-> Met(f, j, X, i)]
    BY <1>2
  <2> DEFINE g == [i \in 0 .. m + 1 |-> IF i = m + 1 THEN Met(f, j, X, m + 1) ELSE f[i]]
  <2>2. \A i \in 0 .. m + 1 : i # 0 => i - 1 \in 0 .. m /\ g[i - 1] = f[i - 1]
    OBVIOUS
  <2>3. \A i \in 0 .. m + 1 : Met(g, j, X, i) = Met(f, j, X, i)
    BY <2>2 DEF Met
  <2>4. \A i \in 0 .. m : f[i] = Met(f, j, X, i)
    BY <2>1
  <2>5. \A i \in 0 .. m + 1 : g[i] = Met(g, j, X, i)
    BY <2>3, <2>4
  <2>6. g = [i \in 0 .. m + 1 |-> Met(g, j, X, i)]
    BY <2>5
  <2> HIDE DEF g
  <2>7. \E h : h = [i \in 0 .. m + 1 |-> Met(h, j, X, i)]
    BY <2>6, Zenon
  <2> QED BY <2>7
<1> HIDE DEF S
<1>3. Nat \subseteq S
  BY <1>1, <1>2, Counting
<1> QED BY <1>3 DEF S

(* InOrder keeps exactly the entries in X.                                 *)
LEMMA InOrderEntries ==
  ASSUME NEW j, j \in Seq(Entries(j)), NEW X
  PROVE  /\ InOrder(j, X) \in Seq(Entries(j))
         /\ Entries(InOrder(j, X)) = Entries(j) \cap X
<1>1. Len(j) \in Nat /\ Entries(j) = {j[i] : i \in 1 .. Len(j)}
  BY LenProperties DEF Entries
<1> DEFINE met == CHOOSE f : f = [i \in 0 .. Len(j) |-> Met(f, j, X, i)]
<1>2. met = [i \in 0 .. Len(j) |-> Met(met, j, X, i)]
  <2>1. \E f : f = [i \in 0 .. Len(j) |-> Met(f, j, X, i)]
    BY <1>1, MetDefined
  <2> QED BY <2>1, Zenon
<1>3. InOrder(j, X) = met[Len(j)]
  BY DEF InOrder, Met
<1> HIDE DEF met
<1> DEFINE Upto(n) == {j[i] : i \in 1 .. n}
           S == {n \in Nat : n <= Len(j) => /\ met[n] \in Seq(Entries(j))
                                            /\ Entries(met[n]) = Upto(n) \cap X}
<1>4. 0 \in S
  <2>1. met[0] = <<>>
    BY <1>1, <1>2 DEF Met
  <2>2. Entries(<<>>) = {}
    BY DEF Entries
  <2>3. Upto(0) = {}
    OBVIOUS
  <2>4. met[0] \in Seq(Entries(j))
    BY <2>1, EmptySeq
  <2> HIDE DEF Upto
  <2> QED BY <2>1, <2>2, <2>3, <2>4
<1>5. ASSUME NEW n \in Nat, n \in S PROVE n + 1 \in S
  <2> SUFFICES ASSUME n + 1 <= Len(j)
               PROVE  met[n + 1] \in Seq(Entries(j)) /\ Entries(met[n + 1]) = Upto(n + 1) \cap X
    OBVIOUS
  <2>1. met[n] \in Seq(Entries(j)) /\ Entries(met[n]) = Upto(n) \cap X
    BY <1>1, <1>5
  <2>2. /\ n + 1 \in 0 .. Len(j) /\ n + 1 # 0 /\ (n + 1) - 1 = n
        /\ j[n + 1] \in Entries(j)
    BY <1>1
  <2>3. met[n + 1] = IF j[n + 1] \in X /\ \A k \in 1 .. n : j[k] # j[n + 1]
                     THEN Append(met[n], j[n + 1]) ELSE met[n]
    BY <1>2, <2>2 DEF Met
  <2>4. Upto(n + 1) = Upto(n) \cup {j[n + 1]}
    <3>1. \A i \in 1 .. n + 1 : i \in 1 .. n \/ i = n + 1
      OBVIOUS
    <3> QED BY <3>1
  <2> HIDE DEF Upto
  <2>5. CASE j[n + 1] \in X /\ \A k \in 1 .. n : j[k] # j[n + 1]
    <3>1. met[n + 1] = Append(met[n], j[n + 1])
      BY <2>3, <2>5
    <3>2. /\ met[n + 1] \in Seq(Entries(j)) /\ Len(met[n]) \in Nat
          /\ Len(met[n + 1]) = Len(met[n]) + 1
          /\ \A i \in 1 .. Len(met[n]) : met[n + 1][i] = met[n][i]
          /\ met[n + 1][Len(met[n]) + 1] = j[n + 1]
          /\ DOMAIN met[n] = 1 .. Len(met[n]) /\ DOMAIN met[n + 1] = 1 .. Len(met[n + 1])
      BY <2>1, <2>2, <3>1, AppendProperties, LenProperties
    <3>3. Entries(met[n + 1]) = Entries(met[n]) \cup {j[n + 1]}
      <4>1. \A i \in DOMAIN met[n + 1] : i \in DOMAIN met[n] \/ i = Len(met[n]) + 1
        BY <3>2
      <4>2. \A i \in DOMAIN met[n] : i \in DOMAIN met[n + 1]
        BY <3>2
      <4>3. Len(met[n]) + 1 \in DOMAIN met[n + 1]
        BY <3>2
      <4> QED BY <3>2, <4>1, <4>2, <4>3 DEF Entries
    <3> QED BY <2>1, <2>4, <2>5, <3>2, <3>3
  <2>6. CASE j[n + 1] \notin X
    BY <2>1, <2>3, <2>4, <2>6
  <2>7. CASE \E k \in 1 .. n : j[k] = j[n + 1]
    <3>1. j[n + 1] \in Upto(n)
      BY <2>7 DEF Upto
    <3> QED BY <2>1, <2>3, <2>4, <2>7, <3>1
  <2> QED BY <2>5, <2>6, <2>7
<1> HIDE DEF S
<1>6. Len(j) \in S
  BY <1>1, <1>4, <1>5, Counting
<1> QED BY <1>1, <1>3, <1>6 DEF S

------------------------------------------------------------------------------
(* The operators of the vote.                                              *)

(* A list that does not repeat an entry has it in one place or in none.    *)
LEMMA PlacesOnce ==
  ASSUME NEW s, NEW x, Once(s, x)
  PROVE  /\ x \in Entries(s) => \E i \in DOMAIN s : Places(s, x) = {i}
         /\ x \notin Entries(s) => Places(s, x) = {}
  BY DEF Once, Places, Entries

(* What the caller counts twice is in its own list; and if that does not   *)
(* repeat an entry, it is counted twice exactly when the decided list has  *)
(* it, too.                                                                *)
LEMMA TallyTwo ==
  ASSUME NEW j, NEW d, NEW x
  PROVE  /\ Tally(j, d, x) = 2 => x \in Entries(j)
         /\ Once(j, x) => (Tally(j, d, x) = 2 <=> x \in Entries(j) /\ x \in d)
<1>1. ASSUME x \in Entries(j), Once(j, x) PROVE Tally(j, d, x) = 2 <=> x \in d
  <2>1. PICK i \in DOMAIN j : Places(j, x) = {i}
    BY <1>1, PlacesOnce
  <2>2. Cardinality(Places(j, x)) = 1
    BY <2>1, FS_Singleton
  <2> QED BY <1>1, <2>2 DEF Tally
<1>2. ASSUME x \notin Entries(j) PROVE Tally(j, d, x) # 2
  <2>1. Places(j, x) = {}
    BY <1>2 DEF Places, Entries
  <2>2. Cardinality(Places(j, x)) = 0
    BY <2>1, FS_EmptySet
  <2> QED BY <2>2 DEF Tally
<1> QED BY <1>1, <1>2

(* An entry no list repeats is mentioned as often as there are RPCs        *)
(* exactly when all of them list it.                                       *)
LEMMA CommonIsAll ==
  ASSUME NEW b, DOMAIN b = Rpcs, NEW x, \A r \in Rpcs : Once(b[r], x)
  PROVE  x \in Common(b) <=> \A r \in Rpcs : x \in Entries(b[r])
<1> DEFINE Listed == {r \in Rpcs : x \in Entries(b[r])}
           M == Mentions(b, x)
           rpc == [m \in M |-> m[1]]
<1>1. \A m : m \in M <=> \E r \in Rpcs : \E i \in Places(b[r], x) : m = <<r, i>>
  BY DEF Mentions
<1>2. \A r \in Rpcs : \A i, k \in Places(b[r], x) : i = k /\ r \in Listed
  <2> SUFFICES ASSUME NEW r \in Rpcs, NEW i \in Places(b[r], x), NEW k \in Places(b[r], x)
               PROVE  i = k /\ r \in Listed
    OBVIOUS
  <2>1. x \in Entries(b[r])
    BY DEF Places, Entries
  <2> QED BY <2>1 DEF Once
<1>3. \A r \in Listed : \E i : i \in Places(b[r], x)
  BY PlacesOnce
<1> HIDE DEF M
<1>4. rpc \in Injection(M, Listed) /\ rpc \in Surjection(M, Listed)
  <2>1. rpc \in [M -> Listed]
    BY <1>1, <1>2
  <2>2. \A m, n \in M : rpc[m] = rpc[n] => m = n
    BY <1>1, <1>2
  <2>3. \A r \in Listed : \E m \in M : rpc[m] = r
    <3> SUFFICES ASSUME NEW r \in Listed PROVE \E m \in M : rpc[m] = r
      OBVIOUS
    <3>1. PICK i : i \in Places(b[r], x)
      BY <1>3
    <3>2. <<r, i>> \in M
      BY <1>1, <3>1
    <3> QED BY <3>2
  <2> HIDE DEF rpc, Listed
  <2> QED BY <2>1, <2>2, <2>3 DEF Injection, Surjection, IsInjective
<1>5. IsFiniteSet(Listed) /\ Cardinality(Listed) = Cardinality(M)
  <2>1. IsFiniteSet(Listed)
    BY RpcsAssumption, FS_Subset
  <2> HIDE DEF rpc, Listed
  <2> QED BY <1>4, <2>1, FS_Injection
<1>6. Cardinality(M) = RpcNum <=> Listed = Rpcs
  BY <1>5, RpcsAssumption, FS_Subset DEF RpcNum
<1>7. x \in Common(b) <=> x \in UNION {Entries(b[r]) : r \in Rpcs} /\ Cardinality(M) = RpcNum
  BY DEF Common, M, RpcNum
<1>8. Listed = Rpcs => x \in UNION {Entries(b[r]) : r \in Rpcs}
  BY RpcsAssumption
<1> QED BY <1>6, <1>7, <1>8

(* A plurality is the one leader.                                          *)
LEMMA PluralityLeads ==
  ASSUME NEW b, Plurality(b) # Err
  PROVE  \E v \in Candidates(b) : Leaders(b) = {v} /\ Plurality(b) = Ok(v)
<1>1. \E v \in Candidates(b) : Leaders(b) = {v}
  BY DEF Plurality
<1> DEFINE c == CHOOSE v \in Candidates(b) : Leaders(b) = {v}
<1>2. c \in Candidates(b) /\ Leaders(b) = {c}
  BY <1>1
<1>3. Plurality(b) = Ok(c)
  BY <1>1 DEF Plurality
<1> QED BY <1>2, <1>3

(* What an RPC answers to a listing method is a list.                      *)
LEMMA AnswersAreLists ==
  ASSUME NEW t \in Tasks, Method[t] \in Listing
  PROVE  \A s \in AnswersTo(t) : IsList(s)
  BY ListsAssumption DEF AnswersTo, IsList

------------------------------------------------------------------------------
(* The inductive invariant, on top of IInv and AuthenticVotes.             *)

(* The judge has been asked about every task on its way and there is       *)
(* something to confirm; an extra RPC speaks about a task only after its   *)
(* worker has received it, and is then done with it.                       *)
Asked ==
    /\ \A t \in Tasks : caller[t] = "judging" => judge[t] = NoAnswer
    /\ \A t \in Tasks :
          In(t, queue) \/ In(t, sent) \/ caller[t] \in {"queueing", "waiting", "gone"}
            => judge[t] \in AnswersTo(t) /\ ~NothingToConfirm(t, judge[t])
    /\ \A t \in Tasks, w \in Rpcs :
          said[t][w] # NoAnswer => job[w] # t /\ \E i \in 1 .. pos[w] : sent[i] = t

(* What a handler returns when every extra RPC has answered.               *)
Concluded(t) == Conclude(Method[t], judge[t], Decide(Method[t], said[t]).val)

(* A response that is not an error is the decision over what all extra     *)
(* RPCs said.                                                              *)
BackedReply(t) ==
    reply[t].out # Err => Unanimous(t) /\ reply[t].out = Decide(Method[t], said[t])

(* A result that is not an error is what the handler made of such a        *)
(* response, or the list the judge found empty.                            *)
BackedResult(t) ==
    /\ caller[t] = "done" <=> result[t] # NoResult
    /\ \/ result[t] = NoResult
       \/ result[t] = Returned(Err)
       \/ NothingToConfirm(t, judge[t]) /\ result[t] = Returned(Ok(judge[t]))
       \/ /\ judge[t] \in AnswersTo(t) /\ ~NothingToConfirm(t, judge[t])
          /\ Unanimous(t)
          /\ Decide(Method[t], said[t]) # Err
          /\ result[t] = Returned(Concluded(t))

Backed == \A t \in Tasks : BackedReply(t) /\ BackedResult(t)

VInv == IInv /\ AuthenticVotes /\ Asked /\ Backed

(* Nobody has been asked anything at the start.                            *)
LEMMA InitAsked == Init => Asked
  BY DEF Init, Asked, In

(* A broadcast moves a task from the queue to the end of the ring.         *)
LEMMA Broadcast ==
  ASSUME TypeOK, Flow, Dispatch
  PROVE  /\ \A u : In(u, queue) <=> u = Head(queue) \/ In(u, queue')
         /\ \A u : In(u, sent') <=> In(u, sent) \/ u = Head(queue)
         /\ Len(sent) \in Nat /\ \A i \in 1 .. Len(sent) : sent'[i] = sent[i]
<1>1. queue \in Seq(Tasks) /\ sent \in Seq(Tasks) /\ NoRepeats(queue) /\ queue # <<>>
  BY DEF TypeOK, Flow, Dispatch
<1>2. Head(queue) \in Tasks
  BY <1>1, HeadTailProperties
<1>3. queue' = Tail(queue) /\ sent' = Append(sent, Head(queue))
  BY DEF Dispatch
<1>4. \A u : In(u, queue) <=> u = Head(queue) \/ In(u, queue')
  BY <1>1, <1>3, TailIn
<1>5. \A u : In(u, sent') <=> In(u, sent) \/ u = Head(queue)
  BY <1>1, <1>2, <1>3, AppendIn
<1>6. Len(sent) \in Nat /\ \A i \in 1 .. Len(sent) : sent'[i] = sent[i]
  BY <1>1, <1>2, <1>3, AppendProperties, LenProperties
<1> QED BY <1>4, <1>5, <1>6

(* What the judge said and what was asked: the handlers' steps.            *)
LEMMA HandlerAsked ==
  ASSUME TypeOK, Flow, Asked, NEW t \in Tasks, Handler(t)
  PROVE  Asked'
<1> USE DEF TypeOK, Asked, AnswersTo, NothingToConfirm
<1>1. ASSUME NEW v \in AnswersTo(t), JudgeAnswers(t, v) PROVE Asked'
  <2>1. ~In(t, queue) /\ ~In(t, sent)
    BY <1>1 DEF JudgeAnswers, Flow
  <2> QED BY <1>1, <2>1 DEF JudgeAnswers, Finish
<1>2. CASE JudgeFails(t)
  <2>1. ~In(t, queue) /\ ~In(t, sent)
    BY <1>2 DEF JudgeFails, Flow
  <2> QED BY <1>2, <2>1 DEF JudgeFails, Finish
<1>3. CASE Enqueue(t)
  <2>1. \A u : In(u, queue') <=> In(u, queue) \/ u = t
    BY <1>3, AppendIn DEF Enqueue
  <2> QED BY <1>3, <2>1 DEF Enqueue
<1>4. CASE Receive(t)
  BY <1>4 DEF Receive, Finish
<1>5. CASE Abandon(t)
  BY <1>5 DEF Abandon
<1>6. CASE JudgeUnparsable(t)
  BY <1>6 DEF JudgeUnparsable
<1> QED BY <1>1, <1>2, <1>3, <1>4, <1>5, <1>6 DEF Handler

(* The dispatcher's steps.                                                 *)
LEMMA DispatcherAsked ==
  ASSUME TypeOK, Flow, Ballots, Asked, Dispatch \/ Collect \/ DeadlinePasses
  PROVE  Asked'
<1>1. CASE Dispatch
  <2>1. UNCHANGED <<caller, judge, said, job, pos>>
    BY <1>1 DEF Dispatch
  <2>2. \A w \in Rpcs : pos[w] \in Nat /\ pos[w] <= Len(sent)
    BY DEF TypeOK, Ballots
  <2>3. \A w \in Rpcs : \A i \in 1 .. pos[w] : sent'[i] = sent[i]
    BY <1>1, <2>2, Broadcast
  <2>4. \A u : In(u, queue') \/ In(u, sent') => In(u, queue) \/ In(u, sent)
    BY <1>1, Broadcast
  <2> QED BY <2>1, <2>3, <2>4 DEF Asked, NothingToConfirm, AnswersTo
<1>2. CASE Collect \/ DeadlinePasses
  <2>1. UNCHANGED <<caller, judge, queue, sent, said, job, pos>>
    BY <1>2 DEF Collect, CollectError, CollectAnswer, DeadlinePasses
  <2> QED BY <2>1 DEF Asked, NothingToConfirm, AnswersTo, In
<1> QED BY <1>1, <1>2

(* The workers' steps: nothing was said about a task a worker receives.    *)
LEMMA WorkerAsked ==
  ASSUME TypeOK, Flow, Ballots, Asked, NEW w \in Rpcs, Worker(w)
  PROVE  Asked'
<1>0. UNCHANGED <<caller, judge, queue, sent>>
  BY DEF Worker, Take, Lag, Retry, Finishes, Succeed, GiveUp, Send
<1>1. /\ Len(sent) \in Nat
      /\ \A i \in 1 .. Len(sent) : sent[i] \in Tasks
      /\ \A v \in Rpcs : pos[v] \in Nat /\ pos[v] <= Len(sent)
      /\ pos \in [Rpcs -> Nat] /\ job \in [Rpcs -> TaskOrNone]
  BY ElementOfSeq, LenProperties DEF TypeOK, Ballots
<1> DEFINE Spoken == \A t \in Tasks, v \in Rpcs :
                        said[t][v] # NoAnswer => job[v] # t /\ \E i \in 1 .. pos[v] : sent[i] = t
<1>2. Spoken
  BY DEF Asked
<1>3. SUFFICES Spoken'
  BY <1>0 DEF Asked, NothingToConfirm, AnswersTo, In
<1>4. CASE Take(w)
  <2>1. /\ pos' = [pos EXCEPT ![w] = pos[w] + 1] /\ pos[w] + 1 \in 1 .. Len(sent)
        /\ job' = [job EXCEPT ![w] = sent[pos[w] + 1]]
        /\ UNCHANGED said
    BY <1>1, <1>4 DEF Take
  <2>2. said[sent[pos[w] + 1]][w] = NoAnswer
    <3> SUFFICES ASSUME said[sent[pos[w] + 1]][w] # NoAnswer PROVE FALSE
      OBVIOUS
    <3>1. PICK i \in 1 .. pos[w] : sent[i] = sent[pos[w] + 1]
      BY <1>1, <1>2, <2>1
    <3>2. i = pos[w] + 1
      BY <1>1, <2>1, <3>1 DEF Flow, NoRepeats
    <3> QED BY <1>1, <3>2
  <2> QED BY <1>0, <1>1, <1>2, <2>1, <2>2
<1>5. CASE Lag(w)
  <2>1. Overwritten \in Nat
    BY <1>1, CapsAssumption DEF Overwritten
  <2>2. /\ pos' = [pos EXCEPT ![w] = Overwritten] /\ pos[w] < Overwritten
        /\ UNCHANGED <<said, job>>
    BY <1>5 DEF Lag
  <2> QED BY <1>0, <1>1, <1>2, <2>1, <2>2
<1>6. CASE Retry(w)
  BY <1>0, <1>2, <1>6 DEF Retry
<1>7. ASSUME job[w] # NoTask, NEW a \in AnswersTo(job[w]) \cup {Failed}, Send(w, a),
             UNCHANGED pos
      PROVE  Spoken'
  <2>1. job[w] \in Tasks /\ job' = [job EXCEPT ![w] = NoTask]
    BY <1>1, <1>7 DEF Send, TaskOrNone
  <2>2. \A t \in Tasks, v \in Rpcs : v # w \/ t # job[w] => said'[t][v] = said[t][v]
    BY <1>7, <2>1 DEF Send, TypeOK
  <2>3. pos[w] \in 1 .. pos[w] /\ sent[pos[w]] = job[w]
    BY <1>1, <1>7 DEF Ballots
  <2> QED BY <1>0, <1>1, <1>2, <1>7, <2>1, <2>2, <2>3, MarksAssumption
<1>8. CASE Finishes(w)
  BY <1>7, <1>8 DEF Finishes, Succeed, GiveUp
<1> QED BY <1>4, <1>5, <1>6, <1>8 DEF Worker

(* Every step keeps Asked: the judge goes first, and who answers is past   *)
(* the broadcast.                                                          *)
LEMMA NextAsked == TypeOK /\ Flow /\ Ballots /\ Asked /\ [Next]_vars => Asked'
<1> SUFFICES ASSUME TypeOK, Flow, Ballots, Asked, [Next]_vars PROVE Asked'
  OBVIOUS
<1>1. CASE \E t \in Tasks : Handler(t)
  BY <1>1, HandlerAsked
<1>2. CASE Dispatch \/ Collect \/ DeadlinePasses
  BY <1>2, DispatcherAsked
<1>3. CASE \E w \in Rpcs : Worker(w)
  BY <1>3, WorkerAsked
<1>4. CASE UNCHANGED vars
  BY <1>4 DEF vars, Asked, NothingToConfirm, AnswersTo, In
<1> QED BY <1>1, <1>2, <1>3, <1>4 DEF Next, Quiet

------------------------------------------------------------------------------
(* Decisions.                                                              *)

(* The distinction of the three marks a result may be.                     *)
LEMMA Outcomes ==
  /\ NoReply.out = Err
  /\ \A o : Returned(o) # NoResult
  /\ \A v : Ok(v) # Err /\ Ok(v).ok /\ Ok(v).val = v
  /\ ~Err.ok
  BY DEF NoReply, Returned, NoResult, Ok, Err

(* Nothing more is said about a task every RPC has answered.               *)
LEMMA StillSaid ==
  ASSUME TypeOK, Asked, [Next]_vars, NEW t \in Tasks, Unanimous(t)
  PROVE  said'[t] = said[t]
<1>1. CASE \E w \in Rpcs : Finishes(w)
  <2>1. PICK w \in Rpcs : Finishes(w)
    BY <1>1
  <2>2. job[w] # t
    <3>1. said[t][w] # NoAnswer
      BY MethodAssumption, MarksAssumption DEF Unanimous, AnswersTo
    <3> QED BY <3>1 DEF Asked
  <2>3. DOMAIN said = Tasks
    BY DEF TypeOK
  <2>4. \E a : said' = [said EXCEPT ![job[w]][w] = a]
    BY <2>1 DEF Finishes, Succeed, GiveUp, Send
  <2> QED BY <2>2, <2>3, <2>4
<1>2. CASE ~(\E w \in Rpcs : Finishes(w))
  <2>1. UNCHANGED said
    BY <1>2 DEF Next, Handler, JudgeAnswers, JudgeUnparsable, JudgeFails, Enqueue, Receive, Abandon, Dispatch,
                Collect, CollectError, CollectAnswer, DeadlinePasses,
                Worker, Take, Lag, Retry, Quiet, vars
  <2> QED BY <2>1
<1> QED BY <1>1, <1>2

(* When the last answer is counted, the dispatcher holds what every extra  *)
(* RPC said about the task it serves.                                      *)
LEMMA CompleteBallot ==
  ASSUME IInv, AuthenticVotes, cur # NoTask, inner # <<>>, Head(inner).answer # Failed,
         NEW res, res = [heard EXCEPT ![Head(inner).from] = Head(inner).answer],
         Cardinality(Reporters(res)) = RpcNum
  PROVE  Unanimous(cur) /\ res = said[cur]
<1>1. Reporters(res) = Rpcs
  <2>1. Reporters(res) \subseteq Rpcs
    BY DEF Reporters
  <2> QED BY <2>1, RpcsAssumption, FS_Subset DEF RpcNum
<1>2. cur \in Tasks /\ inner \in Seq(Messages)
  BY DEF IInv, TypeOK, TaskOrNone
<1>3. /\ 1 \in DOMAIN inner /\ Head(inner) = inner[1] /\ Head(inner) \in Messages
  BY <1>2, HeadTailProperties, EmptySeq, LenProperties
<1>4. /\ Head(inner).from \in Rpcs /\ Head(inner).answer \in AnswersTo(cur)
      /\ Head(inner).answer = said[cur][Head(inner).from]
  BY <1>3 DEF Messages, Current, AuthenticVotes
<1>5. heard \in [Rpcs -> AnswersTo(cur) \cup {NoAnswer}] /\ said[cur] \in [Rpcs -> AnswersTo(cur) \cup {NoAnswer, Failed}]
  BY <1>2 DEF IInv, TypeOK, Current
<1>6. ASSUME NEW w \in Rpcs PROVE res[w] = said[cur][w] /\ said[cur][w] \in AnswersTo(cur)
  <2>1. res[w] # NoAnswer
    BY <1>1 DEF Reporters
  <2>2. CASE w = Head(inner).from
    BY <1>4, <1>5, <2>2
  <2>3. CASE w # Head(inner).from
    <3>1. res[w] = heard[w]
      BY <1>5, <2>3
    <3>2. heard[w] = said[cur][w]
      BY <2>1, <3>1 DEF AuthenticVotes
    <3> QED BY <1>5, <2>1, <3>1, <3>2
  <2> QED BY <2>2, <2>3
<1>7. res = said[cur]
  <2>1. res = [w \in Rpcs |-> res[w]] /\ said[cur] = [w \in Rpcs |-> said[cur][w]]
    BY <1>5
  <2> QED BY <1>6, <2>1
<1> QED BY <1>6, <1>7 DEF Unanimous

(* Nothing has been replied or returned at the start.                      *)
LEMMA InitBacked == Init => Backed
<1> SUFFICES ASSUME Init, NEW t \in Tasks PROVE BackedReply(t) /\ BackedResult(t)
  BY DEF Backed
<1>1. reply[t] = NoReply /\ result[t] = NoResult /\ caller[t] = "judging"
  BY DEF Init
<1> QED BY <1>1, Outcomes DEF BackedReply, BackedResult

(* What nobody touches stays backed.                                       *)
LEMMA KeepBacked ==
  ASSUME TypeOK, Asked, [Next]_vars, NEW t \in Tasks
  PROVE  /\ BackedReply(t) /\ reply'[t].out = reply[t].out => BackedReply(t)'
         /\ /\ BackedResult(t) /\ result'[t] = result[t]
            /\ (caller[t] = "done" <=> caller'[t] = "done")
            /\ result[t] # NoResult => judge'[t] = judge[t]
            => BackedResult(t)'
<1>1. Unanimous(t) => said'[t] = said[t] /\ Unanimous(t)'
  BY StillSaid DEF Unanimous, AnswersTo
<1>2. judge'[t] = judge[t] /\ Unanimous(t) => Concluded(t)' = Concluded(t)
  BY <1>1 DEF Concluded
<1>3. BackedReply(t) /\ reply'[t].out = reply[t].out => BackedReply(t)'
  BY <1>1 DEF BackedReply
<1> QED BY <1>1, <1>2, <1>3 DEF BackedResult, NothingToConfirm, AnswersTo

(* Responses and results: the handlers' steps.                             *)
LEMMA HandlerBacked ==
  ASSUME VInv, [Next]_vars, NEW t \in Tasks, Handler(t)
  PROVE  Backed'
<1> USE DEF VInv, IInv
<1>1. ASSUME NEW u \in Tasks, u # t PROVE BackedReply(u)' /\ BackedResult(u)'
  <2>1. /\ reply'[u] = reply[u] /\ result'[u] = result[u] /\ caller'[u] = caller[u]
        /\ judge'[u] = judge[u]
    BY <1>1 DEF Handler, JudgeAnswers, JudgeUnparsable, JudgeFails, Enqueue, Receive, Abandon, Finish, TypeOK
  <2> QED BY <2>1, KeepBacked DEF Backed
<1>2. BackedReply(t)'
  <2>1. CASE Receive(t)
    <3>1. reply'[t] = NoReply
      BY <2>1 DEF Receive, TypeOK
    <3> QED BY <3>1, Outcomes DEF BackedReply
  <2>2. CASE ~Receive(t)
    <3>1. UNCHANGED reply
      BY <2>2 DEF Handler, JudgeAnswers, JudgeUnparsable, JudgeFails, Enqueue, Abandon
    <3> QED BY <3>1, KeepBacked DEF Backed
  <2> QED BY <2>1, <2>2
<1>3. BackedResult(t)'
  <2>0. BackedResult(t) /\ t \in DOMAIN caller /\ t \in DOMAIN result /\ t \in DOMAIN judge
    BY DEF Backed, TypeOK
  <2>1. ASSUME NEW v \in AnswersTo(t), JudgeAnswers(t, v) PROVE BackedResult(t)'
    <3>1. CASE NothingToConfirm(t, v)
      <4>1. judge'[t] = v /\ caller'[t] = "done" /\ result'[t] = Returned(Ok(v))
        BY <2>0, <2>1, <3>1 DEF JudgeAnswers, Finish
      <4> QED BY <3>1, <4>1, Outcomes DEF BackedResult, NothingToConfirm
    <3>2. CASE ~NothingToConfirm(t, v)
      <4>1. caller[t] = "judging" /\ caller'[t] = "queueing" /\ result'[t] = result[t]
        BY <2>0, <2>1, <3>2 DEF JudgeAnswers
      <4>2. result[t] = NoResult
        BY <2>0, <4>1 DEF BackedResult
      <4> QED BY <4>1, <4>2 DEF BackedResult
    <3> QED BY <3>1, <3>2
  <2>2. CASE JudgeFails(t)
    <3>1. caller'[t] = "done" /\ result'[t] = Returned(Err)
      BY <2>0, <2>2 DEF JudgeFails, Finish
    <3> QED BY <3>1, Outcomes DEF BackedResult
  <2>3. CASE Enqueue(t) \/ Abandon(t) \/ JudgeUnparsable(t)
    <3>1. /\ result'[t] = result[t] /\ judge'[t] = judge[t]
          /\ caller[t] # "done" /\ caller'[t] # "done"
      BY <2>0, <2>3 DEF Enqueue, Abandon, JudgeUnparsable
    <3> QED BY <2>0, <3>1, KeepBacked
  <2>4. CASE Receive(t)
    <3>0. UNCHANGED <<judge, said>> /\ caller[t] = "waiting"
      BY <2>4 DEF Receive
    <3>1. CASE reply[t].kind # Method[t]
      <4>1. result'[t] = result[t] /\ caller'[t] = "panicked"
        BY <2>0, <2>4, <3>1 DEF Receive
      <4> QED BY <2>0, <3>0, <4>1, KeepBacked
    <3>2. CASE reply[t].kind = Method[t] /\ reply[t].out.ok
      <4>1. caller'[t] = "done"
            /\ result'[t] = Returned(Conclude(Method[t], judge[t], reply[t].out.val))
        BY <2>0, <2>4, <3>2 DEF Receive, Finish
      <4>2. reply[t].out # Err
        BY <3>2, Outcomes
      <4>3. Unanimous(t) /\ reply[t].out = Decide(Method[t], said[t])
        BY <4>2 DEF Backed, BackedReply
      <4>4. judge[t] \in AnswersTo(t) /\ ~NothingToConfirm(t, judge[t])
        BY <3>0 DEF Asked
      <4>5. Unanimous(t)' /\ result'[t] = Returned(Concluded(t))'
        BY <3>0, <4>1, <4>3 DEF Unanimous, Concluded, AnswersTo
      <4> QED BY <3>0, <4>1, <4>2, <4>3, <4>4, <4>5, Outcomes
              DEF BackedResult, NothingToConfirm, AnswersTo
    <3>3. CASE reply[t].kind = Method[t] /\ ~reply[t].out.ok
      <4>1. caller'[t] = "done" /\ result'[t] = Returned(Err)
        BY <2>0, <2>4, <3>3 DEF Receive, Finish
      <4> QED BY <4>1, Outcomes DEF BackedResult
    <3> QED BY <3>1, <3>2, <3>3
  <2> QED BY <2>1, <2>2, <2>3, <2>4 DEF Handler
<1> QED BY <1>1, <1>2, <1>3 DEF Backed

(* Responses and results: the dispatcher's and the workers' steps.         *)
LEMMA ServerBacked ==
  ASSUME VInv, [Next]_vars, UNCHANGED <<handlerVars>>,
         \/ Dispatch \/ Collect \/ DeadlinePasses
         \/ (\E w \in Rpcs : Worker(w)) \/ UNCHANGED vars
  PROVE  Backed'
<1> USE DEF VInv, IInv
<1>1. \A t \in Tasks : BackedResult(t)'
  BY KeepBacked DEF Backed
<1>2. ASSUME NEW t \in Tasks, reply'[t] = reply[t] PROVE BackedReply(t)'
  BY <1>2, KeepBacked DEF Backed
<1>3. CASE UNCHANGED reply
  BY <1>1, <1>2, <1>3 DEF Backed
<1>4. ASSUME NEW kind, NEW o, cur # NoTask, Respond(kind, o), UNCHANGED said,
             o # Err => Unanimous(cur) /\ o = Decide(Method[cur], said[cur])
      PROVE  Backed'
  <2> SUFFICES ASSUME NEW t \in Tasks, reply'[t] # reply[t] PROVE BackedReply(t)'
    BY <1>1, <1>2 DEF Backed
  <2>1. t = cur /\ reply'[t].out = o
    BY <1>4 DEF Respond, TypeOK
  <2> QED BY <1>4, <2>1 DEF BackedReply, Unanimous, AnswersTo
<1>5. CASE CollectError
  BY <1>4, <1>5 DEF CollectError
<1>6. CASE CollectAnswer
  <2> DEFINE res == [heard EXCEPT ![Head(inner).from] = Head(inner).answer]
  <2>1. CASE Cardinality(Reporters(res)) = RpcNum /\ Respond(Method[cur], Decide(Method[cur], res))
    <3>1. Unanimous(cur) /\ res = said[cur]
      BY <1>6, <2>1, CompleteBallot DEF CollectAnswer
    <3> QED BY <1>4, <1>6, <2>1, <3>1 DEF CollectAnswer
  <2>2. CASE Respond(Method[cur], Err)
    BY <1>4, <1>6, <2>2 DEF CollectAnswer
  <2> QED BY <1>3, <1>6, <2>1, <2>2 DEF CollectAnswer
<1>7. CASE Dispatch \/ DeadlinePasses \/ (\E w \in Rpcs : Worker(w)) \/ UNCHANGED vars
  <2>1. UNCHANGED reply
    BY <1>7 DEF Dispatch, DeadlinePasses, Worker, Take, Lag, Retry, Finishes, Succeed, GiveUp, vars
  <2> QED BY <1>3, <2>1
<1> QED BY <1>5, <1>6, <1>7 DEF Collect

(* Every step keeps Backed: a reply and a result rest on the votes that    *)
(* were cast.                                                              *)
LEMMA NextBacked == VInv /\ [Next]_vars => Backed'
<1> SUFFICES ASSUME VInv, [Next]_vars PROVE Backed'
  OBVIOUS
<1>1. CASE \E t \in Tasks : Handler(t)
  BY <1>1, HandlerBacked
<1>2. CASE \/ Dispatch \/ Collect \/ DeadlinePasses
           \/ (\E w \in Rpcs : Worker(w)) \/ UNCHANGED vars
  <2>1. UNCHANGED <<handlerVars>>
    BY <1>2 DEF Dispatch, Collect, CollectError, CollectAnswer, DeadlinePasses,
                Worker, Take, Lag, Retry, Finishes, Succeed, GiveUp, vars
  <2> QED BY <1>2, <2>1, ServerBacked
<1> QED BY <1>1, <1>2 DEF Next, Quiet

(* The inductive invariant behind the answers: the tasks and the ballots   *)
(* are in order, every vote is what its RPC said, and every reply and      *)
(* result is the decision on such votes.                                   *)
THEOREM VInvHolds == Spec => []VInv
<1>1. Init => Asked /\ Backed
  BY InitAsked, InitBacked
<1>2. IInv /\ AuthenticVotes /\ Asked /\ Backed /\ [Next]_vars => Asked' /\ Backed'
  BY NextAsked, NextBacked DEF VInv, IInv
<1> QED BY <1>1, <1>2, Inductive, VotesAuthentic, PTL DEF Spec, VInv

------------------------------------------------------------------------------
(* The answers.                                                            *)

(* What is concluded over a complete ballot is an error or a value the     *)
(* judge and all extra RPCs support.                                       *)
LEMMA ConcludedMatching ==
  ASSUME NEW t \in Tasks, Method[t] \in Matching,
         Decide(Method[t], said[t]) # Err, Concluded(t) # Err
  PROVE  Concluded(t) = Ok(judge[t]) /\ Leaders(said[t]) = {judge[t]}
<1>1. Method[t] \notin Listing
  BY DEF Matching, Listing
<1>2. PICK v \in Candidates(said[t]) : Leaders(said[t]) = {v} /\ Decide(Method[t], said[t]) = Ok(v)
  BY <1>1, PluralityLeads DEF Decide
<1>3. Concluded(t) = IF v = judge[t] THEN Ok(v) ELSE Err
  <2>1. Method[t] \notin {"slot", "signatures", "programs"}
    BY DEF Matching
  <2> QED BY <1>2, <2>1, Outcomes DEF Concluded, Conclude
<1> QED BY <1>2, <1>3

(* A slot that is returned is the judge's own, and the value most RPCs     *)
(* gave is not below it.                                                   *)
LEMMA ConcludedSlot ==
  ASSUME NEW t \in Tasks, Method[t] = "slot",
         Decide(Method[t], said[t]) # Err, Concluded(t) # Err
  PROVE  /\ Concluded(t) = Ok(judge[t])
         /\ \E v \in Candidates(said[t]) : Leaders(said[t]) = {v} /\ judge[t] <= v
<1>1. Method[t] \notin Listing /\ Method[t] \notin Matching
  BY DEF Matching, Listing
<1>2. PICK v \in Candidates(said[t]) : Leaders(said[t]) = {v} /\ Decide(Method[t], said[t]) = Ok(v)
  BY <1>1, PluralityLeads DEF Decide
<1>3. Concluded(t) = IF judge[t] <= v THEN Ok(judge[t]) ELSE Err
  BY <1>1, <1>2, Outcomes DEF Concluded, Conclude
<1> QED BY <1>2, <1>3

(* The entries of the list s that the caller counts twice.                 *)
Twice(t, s) == {x \in Entries(s) : Tally(s, Decide(Method[t], said[t]).val, x) = 2}

(* Of the entries nobody repeats these are exactly the ones that all extra *)
(* RPCs list.                                                              *)
LEMMA TwiceListed ==
  ASSUME TypeOK, NEW t \in Tasks, Method[t] \in Listing, NEW s, NEW x \in Entries(s),
         Unrepeated(said[t], s, x)
  PROVE  x \in Twice(t, s) <=> \A w \in Rpcs : x \in Entries(said[t][w])
<1>1. DOMAIN said[t] = Rpcs
  BY DEF TypeOK
<1>2. Decide(Method[t], said[t]).val = Common(said[t])
  BY Outcomes DEF Decide
<1>3. x \in Common(said[t]) <=> \A w \in Rpcs : x \in Entries(said[t][w])
  BY <1>1, CommonIsAll DEF Unrepeated
<1> QED BY <1>2, <1>3, TallyTwo DEF Twice, Unrepeated

(* The programs returned are those of the judge that are counted twice.    *)
LEMMA ConcludedPrograms ==
  ASSUME NEW t \in Tasks, Method[t] = "programs"
  PROVE  Concluded(t) = Ok(Twice(t, judge[t]))
<1>1. Method[t] \notin Matching
  BY DEF Matching
<1> DEFINE d == Decide(Method[t], said[t]).val
<1>2. {x \in Entries(judge[t]) \cup d : Tally(judge[t], d, x) = 2} = Twice(t, judge[t])
  BY TallyTwo DEF Twice
<1>3. Concluded(t) = Ok({x \in Entries(judge[t]) \cup d : Tally(judge[t], d, x) = 2})
  BY <1>1 DEF Concluded, Conclude
<1> QED BY <1>2, <1>3

(* The signatures returned are the judge's first one, and behind it those  *)
(* of the others that are counted twice, in the judge's order.             *)
LEMMA ConcludedSignatures ==
  ASSUME NEW t \in Tasks, Method[t] = "signatures", judge[t] \in AnswersTo(t), judge[t] # <<>>
  PROVE  /\ IsList(Tail(judge[t]))
         /\ Concluded(t) = Ok(<<Head(judge[t])>> \o InOrder(Tail(judge[t]), Twice(t, Tail(judge[t]))))
<1>1. Method[t] \in Listing /\ Method[t] \notin Matching
  BY DEF Matching, Listing
<1>2. IsList(Tail(judge[t]))
  BY <1>1, AnswersAreLists, TailList
<1>3. Confirmed(Tail(judge[t]), Decide(Method[t], said[t]).val)
        = InOrder(Tail(judge[t]), Twice(t, Tail(judge[t])))
  BY DEF Confirmed, Twice
<1>4. Concluded(t) = Ok(<<Head(judge[t])>> \o Confirmed(Tail(judge[t]), Decide(Method[t], said[t]).val))
  BY <1>1 DEF Concluded, Conclude
<1> QED BY <1>2, <1>3, <1>4

(* An answer that succeeds, with something to confirm, is drawn from votes *)
(* of all extra RPCs.                                                      *)
LEMMA VerifiedOutcome ==
  ASSUME VInv, NEW t \in Tasks, result[t].made, result[t].out.ok, ~NothingToConfirm(t, judge[t])
  PROVE  /\ judge[t] \in AnswersTo(t) /\ Unanimous(t)
         /\ Decide(Method[t], said[t]) # Err
         /\ Concluded(t) # Err /\ result[t].out = Concluded(t)
<1>1. BackedResult(t)
  BY DEF VInv, Backed
<1>2. result[t] # NoResult /\ result[t] # Returned(Err)
  BY DEF NoResult, Returned, Err
<1>3. /\ judge[t] \in AnswersTo(t) /\ Unanimous(t)
      /\ Decide(Method[t], said[t]) # Err
      /\ result[t] = Returned(Concluded(t))
  BY <1>1, <1>2 DEF BackedResult
<1>4. result[t].out = Concluded(t)
  BY <1>3 DEF Returned
<1> QED BY <1>3, <1>4, Outcomes

(* A value returned as verified comes after every extra RPC answered this  *)
(* very request, and agrees with them and with the judge.                  *)
THEOREM AnswersVerified == Spec => []VerifiedAnswer
<1>1. VInv => VerifiedAnswer
  <2> SUFFICES ASSUME VInv, NEW t \in Tasks, result[t].made, result[t].out.ok,
                      ~NothingToConfirm(t, judge[t])
               PROVE  /\ Unanimous(t)
                      /\ Method[t] \in Matching =>
                            /\ result[t].out.val = judge[t]
                            /\ Leaders(said[t]) = {judge[t]}
                      /\ Method[t] = "slot" =>
                            /\ result[t].out.val = judge[t]
                            /\ \E v \in Candidates(said[t]) :
                                  Leaders(said[t]) = {v} /\ judge[t] <= v
                      /\ Method[t] = "programs" =>
                            \A x \in result[t].out.val : ListedByAll(t, judge[t], x)
                      /\ Method[t] = "signatures" =>
                            /\ result[t].out.val[1] = judge[t][1]
                            /\ \A i \in 2 .. Len(result[t].out.val) :
                                  ListedByAll(t, Tail(judge[t]), result[t].out.val[i])
    BY DEF VerifiedAnswer
  <2>0. TypeOK
    BY DEF VInv, IInv
  <2>1. /\ judge[t] \in AnswersTo(t) /\ Unanimous(t)
        /\ Decide(Method[t], said[t]) # Err
        /\ Concluded(t) # Err /\ result[t].out = Concluded(t)
    BY VerifiedOutcome
  <2>2. CASE Method[t] \in Matching
    <3>1. Method[t] \notin {"slot", "signatures", "programs"}
      BY <2>2 DEF Matching
    <3> QED BY <2>1, <2>2, <3>1, ConcludedMatching, Outcomes
  <2>3. CASE Method[t] = "slot"
    <3>1. Method[t] \notin Matching /\ Method[t] \notin {"signatures", "programs"}
      BY <2>3 DEF Matching
    <3> QED BY <2>1, <2>3, <3>1, ConcludedSlot, Outcomes
  <2>4. CASE Method[t] = "programs"
    <3>1. Method[t] \notin Matching /\ Method[t] \notin {"signatures", "slot"}
      BY <2>4 DEF Matching
    <3>2. result[t].out.val = Twice(t, judge[t])
      BY <2>1, <2>4, ConcludedPrograms, Outcomes
    <3>3. \A x \in Twice(t, judge[t]) : ListedByAll(t, judge[t], x)
      BY <2>0, <2>4, TwiceListed DEF ListedByAll, Twice, Listing
    <3> QED BY <2>1, <2>4, <3>1, <3>2, <3>3
  <2>5. CASE Method[t] = "signatures"
    <3>1. Method[t] \notin Matching /\ Method[t] \notin {"programs", "slot"}
      BY <2>5 DEF Matching
    <3>2. judge[t] # <<>>
      BY <2>5 DEF NothingToConfirm
    <3> DEFINE twice == Twice(t, Tail(judge[t]))
               rest == InOrder(Tail(judge[t]), twice)
    <3>3. IsList(Tail(judge[t])) /\ result[t].out.val = <<Head(judge[t])>> \o rest
      BY <2>1, <2>5, <3>2, ConcludedSignatures, Outcomes
    <3>4. /\ rest \in Seq(Entries(Tail(judge[t])))
          /\ Entries(rest) = Entries(Tail(judge[t])) \cap twice
      BY <3>3, InOrderEntries DEF IsList
    <3>5. Head(judge[t]) = judge[t][1]
      <4>1. judge[t] \in Seq(Entries(judge[t]))
        BY <2>1, <2>5, AnswersAreLists DEF IsList, Listing
      <4> QED BY <3>2, <4>1, HeadTailProperties
    <3> DEFINE val == result[t].out.val
    <3>6. /\ val[1] = judge[t][1]
          /\ \A i \in 2 .. Len(val) : val[i] \in Entries(rest)
      <4>1. Len(rest) \in Nat /\ DOMAIN rest = 1 .. Len(rest)
        BY <3>4, LenProperties
      <4> HIDE DEF rest
      <4>2. /\ Len(val) = 1 + Len(rest) /\ val[1] = Head(judge[t])
            /\ \A i \in 2 .. Len(val) : val[i] = rest[i - 1]
        BY <3>3, <3>4, <4>1
      <4>3. \A i \in 2 .. Len(val) : i - 1 \in DOMAIN rest
        BY <4>1, <4>2
      <4> QED BY <3>5, <4>2, <4>3 DEF Entries
    <3> HIDE DEF rest, val
    <3>7. \A i \in 2 .. Len(val) : val[i] \in Entries(Tail(judge[t])) /\ val[i] \in twice
      BY <3>4, <3>6
    <3>8. \A x \in twice : ListedByAll(t, Tail(judge[t]), x)
      BY <2>0, <2>5, TwiceListed DEF ListedByAll, Twice, Listing
    <3> QED BY <2>1, <2>5, <3>1, <3>6, <3>7, <3>8 DEF val
  <2> QED BY <2>2, <2>3, <2>4, <2>5, MethodAssumption DEF Methods, Listing
<1> QED BY <1>1, VInvHolds, PTL

------------------------------------------------------------------------------
(* The refinement.                                                         *)

(* SolService votes with the same operators.                               *)
LEMMA SameVote ==
  /\ \A b : Service!Leaders(b) = Leaders(b) /\ Service!Candidates(b) = Candidates(b)
  /\ \A s, X : Service!InOrder(s, X) = InOrder(s, X) /\ Service!Entries(s) = Entries(s)
  /\ \A b, s, x : Service!Unrepeated(b, s, x) <=> Unrepeated(b, s, x)
  /\ \A v : Service!Ok(v) = Ok(v)
  /\ Service!Err = Err
  /\ Service!Matching = Matching
<1>1. \A b : Service!Candidates(b) = Candidates(b)
  BY DEF Service!Candidates, Candidates
<1>2. ASSUME NEW b, NEW v PROVE Service!Votes(b, v) = Votes(b, v)
  <2>1. Service!Voters(b, v) = Voters(b, v)
    BY DEF Service!Voters, Voters
  <2>2. Service!Cardinality(Voters(b, v)) = Cardinality(Voters(b, v))
    BY DEF Service!Cardinality, Cardinality
  <2> QED BY <2>1, <2>2 DEF Service!Votes, Votes
<1>3. \A b : Service!Leaders(b) = Leaders(b)
  BY <1>1, <1>2 DEF Service!Leaders, Leaders
<1>4. \A s, X : Service!InOrder(s, X) = InOrder(s, X)
  BY DEF Service!InOrder, InOrder
<1>5. \A s : Service!Entries(s) = Entries(s)
  BY DEF Service!Entries, Entries
<1>6. /\ \A v : Service!Ok(v) = Ok(v)
      /\ Service!Err = Err
      /\ Service!Matching = Matching
  BY DEF Service!Ok, Ok, Service!Err, Err, Service!Matching, Matching
<1>7. \A b, s, x : Service!Unrepeated(b, s, x) <=> Unrepeated(b, s, x)
  BY DEF Service!Unrepeated, Unrepeated, Service!Once, Once, Service!Places, Places
<1> QED BY <1>1, <1>3, <1>4, <1>5, <1>6, <1>7

(* What is counted twice may be kept.                                      *)
LEMMA TwiceKept ==
  ASSUME TypeOK, NEW t \in Tasks, Method[t] \in Listing, NEW s
  PROVE  Twice(t, s) \in Service!Kept(t, s)
<1>1. Twice(t, s) \in SUBSET Entries(s)
  BY DEF Twice
<1> QED BY <1>1, TwiceListed, SameVote DEF Service!Kept

(* What is concluded is supported, and all of what is.                     *)
LEMMA ConcludedSupported ==
  ASSUME TypeOK, NEW t \in Tasks, Unanimous(t), judge[t] \in AnswersTo(t),
         ~NothingToConfirm(t, judge[t]),
         Decide(Method[t], said[t]) # Err, Concluded(t) # Err
  PROVE  \E v \in Service!Supported(t) : Concluded(t) = Ok(v)
<1>2. CASE Method[t] \in Matching
  <2>1. Concluded(t) = Ok(judge[t]) /\ Leaders(said[t]) = {judge[t]}
    BY <1>2, ConcludedMatching
  <2>2. Method[t] \notin {"slot", "programs", "signatures"}
    BY <1>2 DEF Matching
  <2>3. Service!Supported(t) = {v \in {judge[t]} : Leaders(said[t]) = {v}}
    BY <1>2, <2>2, SameVote DEF Service!Supported
  <2> QED BY <2>1, <2>3
<1>3. CASE Method[t] = "slot"
  <2>1. /\ Concluded(t) = Ok(judge[t])
        /\ \E v \in Candidates(said[t]) : Leaders(said[t]) = {v} /\ judge[t] <= v
    BY <1>3, ConcludedSlot
  <2>2. Method[t] \notin Matching
    BY <1>3 DEF Matching
  <2>3. Service!Supported(t) = {v \in {judge[t]} : \E c \in Candidates(said[t]) :
                                                     Leaders(said[t]) = {c} /\ v <= c}
    BY <1>3, <2>2, SameVote DEF Service!Supported
  <2> QED BY <2>1, <2>3
<1>4. CASE Method[t] = "programs"
  <2>1. Method[t] \notin Matching
    BY <1>4 DEF Matching
  <2>2. Service!Supported(t) = Service!Kept(t, judge[t])
    BY <1>4, <2>1, SameVote DEF Service!Supported
  <2>3. Twice(t, judge[t]) \in Service!Kept(t, judge[t])
    BY <1>4, TwiceKept DEF Listing
  <2> QED BY <1>4, <2>2, <2>3, ConcludedPrograms
<1>5. CASE Method[t] = "signatures"
  <2>1. Method[t] \notin Matching
    BY <1>5 DEF Matching
  <2>2. Service!Supported(t)
          = {<<Head(judge[t])>> \o InOrder(Tail(judge[t]), X) : X \in Service!Kept(t, Tail(judge[t]))}
    BY <1>5, <2>1, SameVote DEF Service!Supported
  <2>3. Twice(t, Tail(judge[t])) \in Service!Kept(t, Tail(judge[t]))
    BY <1>5, TwiceKept DEF Listing
  <2>4. judge[t] # <<>>
    BY <1>5 DEF NothingToConfirm
  <2> QED BY <1>5, <2>2, <2>3, <2>4, ConcludedSignatures
<1> QED BY <1>2, <1>3, <1>4, <1>5, MethodAssumption DEF Methods, Listing

(* The dispatcher starts as the service does.                              *)
LEMMA InitService == Init => Service!Init
<1> SUFFICES ASSUME Init PROVE Service!Init
  OBVIOUS
<1>1. Phase = [t \in Tasks |-> "open"]
  BY DEF Init, Phase
<1> QED BY <1>1, SameVote DEF Init, Service!Init, NoResult

(* A step of a handler's own.                                              *)
LEMMA HandlerService ==
  ASSUME VInv, [Next]_vars, NEW t \in Tasks, Handler(t)
  PROVE  [Service!Next]_(Service!vars)
<1>0. /\ t \in DOMAIN caller /\ t \in DOMAIN result /\ t \in DOMAIN judge
      /\ DOMAIN caller = Tasks /\ DOMAIN result = Tasks
      /\ NoAnswer \notin AnswersTo(t)
  BY MarksAssumption, MethodAssumption DEF VInv, IInv, TypeOK, AnswersTo
<1>1. UNCHANGED said
  BY DEF Handler, JudgeAnswers, JudgeUnparsable, JudgeFails, Enqueue, Receive, Abandon
<1>2. ASSUME NEW c, caller' = [caller EXCEPT ![t] = c],
             c \in {"judging", "queueing", "waiting", "done", "panicked", "gone"}
      PROVE  Phase' = [Phase EXCEPT ![t] =
                 IF c = "done" THEN "answered"
                 ELSE IF c \in {"panicked", "gone"} THEN "lost" ELSE "open"]
  BY <1>0, <1>2 DEF Phase
<1>3. ASSUME caller[t] \in {"judging", "queueing", "waiting"} PROVE Phase[t] = "open"
  BY <1>3 DEF Phase
<1>4. ASSUME NEW o, Finish(t, o) PROVE Service!End(t, o)
  <2>1. Phase' = [Phase EXCEPT ![t] = "answered"]
    BY <1>2, <1>4 DEF Finish
  <2> QED BY <1>4, <2>1 DEF Finish, Returned, Service!End
<1>5. ASSUME NEW v \in AnswersTo(t), JudgeAnswers(t, v) PROVE Service!JudgeSays(t)
  <2>1. Phase[t] = "open" /\ judge[t] = NoAnswer
    BY <1>3, <1>5 DEF JudgeAnswers, VInv, Asked
  <2>2. judge' = [judge EXCEPT ![t] = v] /\ judge'[t] = v
    BY <1>0, <1>5 DEF JudgeAnswers
  <2>3. CASE NothingToConfirm(t, v)
    <3>1. Service!End(t, Ok(<<>>)) /\ Service!NothingAsked(t)'
      BY <1>4, <1>5, <2>2, <2>3 DEF JudgeAnswers, NothingToConfirm, Service!NothingAsked
    <3> QED BY <1>1, <2>1, <2>2, <3>1, SameVote DEF Service!JudgeSays, AnswersTo
  <2>4. CASE ~NothingToConfirm(t, v)
    <3>1. ~Service!NothingAsked(t)'
      BY <2>2, <2>4 DEF NothingToConfirm, Service!NothingAsked
    <3>2. caller' = [caller EXCEPT ![t] = "queueing"] /\ UNCHANGED result
      BY <1>5, <2>4 DEF JudgeAnswers
    <3>3. Phase' = Phase
      BY <1>0, <1>2, <2>1, <3>2 DEF Phase
    <3> QED BY <1>1, <2>1, <2>2, <3>1, <3>2, <3>3 DEF Service!JudgeSays, AnswersTo
  <2> QED BY <2>3, <2>4
<1>6. ASSUME JudgeFails(t) PROVE Service!Answer(t)
  <2>1. Phase[t] = "open" /\ Service!End(t, Err) /\ UNCHANGED judge
    BY <1>3, <1>4, <1>6 DEF JudgeFails
  <2> QED BY <1>1, <2>1, SameVote DEF Service!Answer
<1>7. ASSUME Enqueue(t) PROVE UNCHANGED Service!vars
  <2>1. caller[t] = "queueing" /\ caller' = [caller EXCEPT ![t] = "waiting"]
    BY <1>7 DEF Enqueue
  <2>2. Phase' = Phase
    BY <1>0, <1>2, <1>3, <2>1 DEF Phase
  <2> QED BY <1>1, <1>7, <2>2 DEF Enqueue, Service!vars
<1>8. ASSUME caller[t] \in {"queueing", "waiting"}, UNCHANGED <<judge, result>>,
             NEW c \in {"panicked", "gone"}, caller' = [caller EXCEPT ![t] = c]
      PROVE  Service!Lose(t)
  <2>1. Phase[t] = "open" /\ Phase' = [Phase EXCEPT ![t] = "lost"]
    BY <1>2, <1>3, <1>8
  <2>2. judge[t] # NoAnswer
    BY <1>0, <1>8 DEF VInv, Asked
  <2> QED BY <1>1, <1>8, <2>1, <2>2 DEF Service!Lose
<1>9. ASSUME Receive(t) PROVE Service!Lose(t) \/ Service!Answer(t)
  <2>1. caller[t] = "waiting" /\ UNCHANGED judge
    BY <1>9 DEF Receive
  <2>2. CASE reply[t].kind # Method[t]
    BY <1>8, <1>9, <2>1, <2>2 DEF Receive
  <2>3. CASE reply[t].kind = Method[t] /\ ~reply[t].out.ok
    <3>1. Service!End(t, Err)
      BY <1>4, <1>9, <2>3 DEF Receive
    <3> QED BY <1>1, <1>3, <2>1, <3>1, SameVote DEF Service!Answer
  <2>4. CASE reply[t].kind = Method[t] /\ reply[t].out.ok
    <3>1. reply[t].out # Err
      BY <2>4, Outcomes
    <3>2. Unanimous(t) /\ reply[t].out = Decide(Method[t], said[t])
      BY <3>1 DEF VInv, Backed, BackedReply
    <3>3. judge[t] \in AnswersTo(t) /\ ~NothingToConfirm(t, judge[t])
      BY <2>1 DEF VInv, Asked
    <3>4. Service!End(t, Concluded(t))
      BY <1>4, <1>9, <2>4, <3>2 DEF Receive, Concluded
    <3>5. CASE Concluded(t) = Err
      BY <1>1, <1>3, <2>1, <3>4, <3>5, SameVote DEF Service!Answer
    <3>6. CASE Concluded(t) # Err
      <4>1. PICK v \in Service!Supported(t) : Concluded(t) = Ok(v)
        BY <3>1, <3>2, <3>3, <3>6, ConcludedSupported DEF VInv, IInv
      <4>2. Service!End(t, Service!Ok(v))
        BY <3>4, <4>1, SameVote
      <4>3. judge[t] # NoAnswer /\ Service!Heard(t)
        BY <1>0, <3>2, <3>3 DEF Service!Heard, Unanimous, AnswersTo
      <4> QED BY <1>1, <1>3, <2>1, <4>2, <4>3 DEF Service!Answer
    <3> QED BY <3>5, <3>6
  <2> QED BY <2>2, <2>3, <2>4
<1>10. ASSUME Abandon(t) PROVE Service!Lose(t)
  BY <1>8, <1>10 DEF Abandon
<1>11. ASSUME JudgeUnparsable(t) PROVE Service!Lose(t)
  <2>1. caller[t] = "judging" /\ caller' = [caller EXCEPT ![t] = "panicked"]
    BY <1>11 DEF JudgeUnparsable
  <2>2. Phase[t] = "open" /\ Phase' = [Phase EXCEPT ![t] = "lost"]
    BY <1>2, <1>3, <2>1
  <2> QED BY <1>1, <1>11, <2>2 DEF JudgeUnparsable, Service!Lose
<1> QED BY <1>5, <1>6, <1>7, <1>9, <1>10, <1>11 DEF Handler, Service!Next

(* A worker that finishes is its RPC speaking, for the first time.         *)
LEMMA WorkerService ==
  ASSUME VInv, NEW w \in Rpcs, Finishes(w)
  PROVE  Service!Next
<1>1. /\ job[w] # NoTask /\ UNCHANGED <<caller, judge, result>>
      /\ \E a \in AnswersTo(job[w]) \cup {Failed} : said' = [said EXCEPT ![job[w]][w] = a]
  BY DEF Finishes, Succeed, GiveUp, Send
<1>2. job[w] \in Tasks
  BY <1>1 DEF VInv, IInv, TypeOK, TaskOrNone
<1>3. said[job[w]][w] = NoAnswer
  BY <1>2 DEF VInv, Asked
<1>4. In(job[w], sent)
  <2>1. pos[w] \in Nat /\ pos[w] >= 1 /\ pos[w] <= Len(sent) /\ sent[pos[w]] = job[w]
    BY <1>1 DEF VInv, IInv, TypeOK, Ballots
  <2> QED BY <2>1 DEF In
<1>5. judge[job[w]] # NoAnswer
  <2>1. judge[job[w]] \in AnswersTo(job[w])
    BY <1>2, <1>4 DEF VInv, Asked
  <2> QED BY <1>2, <2>1, MarksAssumption, MethodAssumption DEF AnswersTo
<1>6. Phase' = Phase
  BY <1>1 DEF Phase
<1>7. Service!RpcSays(job[w], w)
  BY <1>1, <1>3, <1>5, <1>6 DEF Service!RpcSays, AnswersTo
<1> QED BY <1>2, <1>7 DEF Service!Next

(* Every step of the dispatcher is a step of the service or none.          *)
LEMMA NextService == VInv /\ [Next]_vars => [Service!Next]_(Service!vars)
<1> SUFFICES ASSUME VInv, [Next]_vars PROVE [Service!Next]_(Service!vars)
  OBVIOUS
<1>1. CASE \E t \in Tasks : Handler(t)
  BY <1>1, HandlerService
<1>2. CASE \E w \in Rpcs : Finishes(w)
  BY <1>2, WorkerService
<1>3. CASE \/ Dispatch \/ Collect \/ DeadlinePasses
           \/ \E w \in Rpcs : Take(w) \/ Lag(w) \/ Retry(w)
           \/ UNCHANGED vars
  <2>1. UNCHANGED <<caller, judge, result, said>>
    BY <1>3 DEF Dispatch, Collect, CollectError, CollectAnswer, DeadlinePasses,
                Take, Lag, Retry, vars
  <2>2. Phase' = Phase
    BY <2>1 DEF Phase
  <2> QED BY <2>1, <2>2 DEF Service!vars
<1> QED BY <1>1, <1>2, <1>3 DEF Next, Worker, Quiet

(* Queue, ring, channels, retries and slow workers implement SolService:   *)
(* every request ends at most once, and with a value only when it is what  *)
(* the judge and all extra RPCs said about that request, up to entries of  *)
(* lists that somebody repeats.                                            *)
THEOREM ServiceImplemented == Spec => ImplementsService
<1>1. Init => Service!Init
  BY InitService
<1>2. VInv /\ [Next]_vars => [Service!Next]_(Service!vars)
  BY NextService
<1> QED BY <1>1, <1>2, VInvHolds, PTL DEF Spec, ImplementsService, Service!Spec
=============================================================================
