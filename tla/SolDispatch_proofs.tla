------------------------- MODULE SolDispatch_proofs --------------------------
(***************************************************************************)
(* Proofs about the Solana client: type correctness, and that no answer    *)
(* to the task being served is ever lost, whatever the number of RPCs and  *)
(* tasks and the capacities of queue and ring.                             *)
(***************************************************************************)
EXTENDS SolDispatch, FiniteSetTheorems, SequenceTheorems, TLAPS

(* The definitions every step of the specification expands to.             *)
USE DEF handlerVars, dispatcherVars, workerVars

(* The initial state has the right types.                                  *)
LEMMA InitType == Init => TypeOK
<1> SUFFICES ASSUME Init PROVE TypeOK
  OBVIOUS
<1> USE DEF Init
<1>1. caller \in [Tasks -> CallerStates]
  BY DEF CallerStates
<1>2. DOMAIN judge = Tasks /\ DOMAIN result = Tasks /\ DOMAIN reply = Tasks
  OBVIOUS
<1>3. \A t \in Tasks : judge[t] \in AnswersTo(t) \cup {NoAnswer}
  OBVIOUS
<1>4. \A t \in Tasks : reply[t].kind \in Methods \cup {"none"}
  BY DEF NoReply
<1>5. queue \in Seq(Tasks) /\ cur \in TaskOrNone /\ sent \in Seq(Tasks)
  BY DEF TaskOrNone
<1>12. late \in BOOLEAN
  OBVIOUS
<1>6. pos \in [Rpcs -> Nat] /\ job \in [Rpcs -> TaskOrNone]
  BY DEF TaskOrNone
<1>7. tries \in [Rpcs -> 0 .. MaxTries - 1]
  BY CapsAssumption
<1>8. inner \in Seq(Messages)
  OBVIOUS
<1>9. heard \in [Rpcs -> Current \cup {NoAnswer}]
  BY DEF NothingHeard
<1>10. DOMAIN said = Tasks
  OBVIOUS
<1>11. \A t \in Tasks : said[t] \in [Rpcs -> AnswersTo(t) \cup {NoAnswer, Failed}]
  OBVIOUS
<1> QED BY <1>1, <1>2, <1>3, <1>4, <1>5, <1>6, <1>7, <1>8, <1>9, <1>10, <1>11, <1>12 DEF TypeOK

(* Every step of a handler keeps the types.                                *)
LEMMA HandlerType ==
  ASSUME TypeOK, NEW t \in Tasks, Handler(t)
  PROVE  TypeOK'
<1> USE DEF TypeOK, CallerStates, Messages, Current, AnswersTo
<1>1. ASSUME NEW v \in AnswersTo(t), JudgeAnswers(t, v) PROVE TypeOK'
  BY <1>1 DEF JudgeAnswers, Finish
<1>2. CASE JudgeFails(t)
  BY <1>2 DEF JudgeFails, Finish
<1>3. CASE Enqueue(t)
  BY <1>3 DEF Enqueue
<1>4. CASE Receive(t)
  BY <1>4 DEF Receive, Finish, NoReply
<1>5. CASE Abandon(t)
  BY <1>5 DEF Abandon
<1>6. CASE JudgeUnparsable(t)
  BY <1>6 DEF JudgeUnparsable
<1> QED BY <1>1, <1>2, <1>3, <1>4, <1>5, <1>6 DEF Handler

(* So does every step of the dispatcher.                                   *)
LEMMA DispatcherType ==
  ASSUME TypeOK, Dispatch \/ Collect \/ DeadlinePasses
  PROVE  TypeOK'
<1> USE DEF TypeOK, TaskOrNone, Current, AnswersTo, NothingHeard
<1>1. CASE Dispatch
  <2> USE <1>1 DEF Dispatch
  <2>1. Head(queue) \in Tasks /\ queue' \in Seq(Tasks) /\ sent' \in Seq(Tasks)
    OBVIOUS
  <2>2. Current = {}
    OBVIOUS
  <2>3. inner' \in Seq(Messages')
    <3> HIDE DEF Current
    <3>1. Messages \subseteq Messages'
      BY <2>2 DEF Messages
    <3>2. inner' \in Seq(Messages)
      OBVIOUS
    <3> QED BY <3>1, <3>2, SeqMonotonic
  <2>4. heard' \in [Rpcs -> Current' \cup {NoAnswer}]
    <3> HIDE DEF Current
    <3> QED BY <2>2
  <2> QED BY <2>1, <2>3, <2>4
<1>2. ASSUME NEW kind \in Methods, NEW o, cur # NoTask, Respond(kind, o),
             UNCHANGED <<handlerVars, queue, sent, workerVars, said>>
      PROVE  TypeOK'
  <2> USE <1>2 DEF Respond
  <2>1. DOMAIN reply' = Tasks /\ \A t \in Tasks : reply'[t].kind \in Methods \cup {"none"}
    OBVIOUS
  <2>2. cur' = NoTask /\ inner' = <<>> /\ heard' = [w \in Rpcs |-> NoAnswer]
    OBVIOUS
  <2>3. UNCHANGED <<caller, judge, result, queue, sent, pos, job, tries, said>>
    OBVIOUS
  <2>4. late' = FALSE
    OBVIOUS
  <2>5. late' \in BOOLEAN
    BY <2>4
  <2> HIDE <1>2 DEF Respond
  <2> QED BY <2>1, <2>2, <2>3, <2>5
<1>3. CASE CollectError
  <2>1. ErrorKind(cur) \in Methods
    BY <1>3, MethodAssumption DEF CollectError, ErrorKind, Methods
  <2> QED BY <1>2, <1>3, <2>1 DEF CollectError
<1>4. CASE CollectAnswer
  <2>1. Method[cur] \in Methods
    BY <1>4, MethodAssumption DEF CollectAnswer
  <2> DEFINE res == [heard EXCEPT ![Head(inner).from] = Head(inner).answer]
  <2>2. CASE heard' = res /\ inner' = Tail(inner) /\ UNCHANGED <<cur, late, reply>>
    <3>1. Head(inner) \in Messages
      BY <1>4, HeadTailProperties DEF CollectAnswer
    <3>2. Tail(inner) \in Seq(Messages)
      BY <1>4, HeadTailProperties DEF CollectAnswer
    <3>3. res \in [Rpcs -> Current \cup {NoAnswer}]
      <4>1. Head(inner).from \in Rpcs /\ Head(inner).answer \in Current
        BY <1>4, <3>1 DEF CollectAnswer, Messages
      <4> QED BY <4>1
    <3> QED BY <1>4, <2>2, <3>2, <3>3 DEF CollectAnswer, Messages
  <2>3. CASE Respond(Method[cur], Decide(Method[cur], res))
    BY <1>2, <1>4, <2>1, <2>3 DEF CollectAnswer
  <2>4. CASE Respond(Method[cur], Err)
    BY <1>2, <1>4, <2>1, <2>4 DEF CollectAnswer
  <2> QED BY <1>4, <2>2, <2>3, <2>4 DEF CollectAnswer
<1>5. CASE DeadlinePasses
  BY <1>5 DEF DeadlinePasses, Messages
<1> QED BY <1>1, <1>3, <1>4, <1>5 DEF Collect

(* And so does every step of a worker.                                     *)
LEMMA WorkerType ==
  ASSUME TypeOK, NEW w \in Rpcs, Worker(w)
  PROVE  TypeOK'
<1> USE CapsAssumption DEF TypeOK, TaskOrNone, Messages, Current, AnswersTo
<1>1. CASE Take(w)
  BY <1>1 DEF Take
<1>2. CASE Lag(w)
  BY <1>2 DEF Lag, Overwritten
<1>3. CASE Retry(w)
  BY <1>3 DEF Retry
<1>4. ASSUME job[w] # NoTask, NEW a \in AnswersTo(job[w]) \cup {Failed}, Send(w, a),
             UNCHANGED <<handlerVars, queue, dispatcherVars, sent, pos, tries, reply>>
      PROVE  TypeOK'
  <2> USE <1>4 DEF Send
  <2>1. job[w] \in Tasks
    OBVIOUS
  <2>2. DOMAIN said' = Tasks
        /\ \A t \in Tasks : said'[t] \in [Rpcs -> AnswersTo(t) \cup {NoAnswer, Failed}]
    BY <2>1
  <2>3. inner' \in Seq(Messages)
    <3>1. CASE job[w] = cur
      <4>1. [from |-> w, answer |-> a] \in Messages
        BY <2>1, <3>1
      <4> HIDE DEF Messages
      <4>2. inner \in Seq(Messages) /\ inner' = Append(inner, [from |-> w, answer |-> a])
        BY <3>1
      <4>3. inner' \in Seq(Messages)
        BY <4>1, <4>2, AppendProperties
      <4> QED BY <4>3 DEF Messages
    <3>2. CASE job[w] # cur
      BY <3>2
    <3> QED BY <3>1, <3>2
  <2>4. job' \in [Rpcs -> Tasks \cup {NoTask}]
    OBVIOUS
  <2>5. UNCHANGED <<caller, judge, result, queue, cur, late, heard, sent, pos, tries, reply>>
    OBVIOUS
  <2> HIDE <1>4 DEF Send
  <2> QED BY <2>2, <2>3, <2>4, <2>5
<1>5. CASE Finishes(w)
  BY <1>4, <1>5 DEF Finishes, Succeed, GiveUp
<1> QED BY <1>1, <1>2, <1>3, <1>5 DEF Worker

(* Every step keeps the variables in their types (TypeOK).                 *)
LEMMA NextType == TypeOK /\ [Next]_vars => TypeOK'
<1> SUFFICES ASSUME TypeOK, [Next]_vars PROVE TypeOK'
  OBVIOUS
<1>1. CASE \E t \in Tasks : Handler(t)
  BY <1>1, HandlerType
<1>2. CASE Dispatch \/ Collect \/ DeadlinePasses
  BY <1>2, DispatcherType
<1>3. CASE \E w \in Rpcs : Worker(w)
  BY <1>3, WorkerType
<1>4. CASE UNCHANGED vars
  BY <1>4 DEF vars, TypeOK, Messages, Current, AnswersTo
<1> QED BY <1>1, <1>2, <1>3, <1>4 DEF Next, Quiet

(* Every channel only ever holds what its sending side may send.           *)
THEOREM TypeCorrect == Spec => []TypeOK
  BY InitType, NextType, PTL DEF Spec

------------------------------------------------------------------------------
(* The inductive invariant.                                                *)

NoRepeats(s) == \A i, j \in 1 .. Len(s) : s[i] = s[j] => i = j

In(t, s) == \E i \in 1 .. Len(s) : s[i] = t

(* A task goes from its handler to the queue, to the ring and to its reply,*)
(* once; the one being served is the last one broadcast.                   *)
Flow ==
    /\ NoRepeats(queue) /\ NoRepeats(sent)
    /\ \A t \in Tasks : caller[t] \in {"judging", "queueing"} => ~In(t, queue) /\ ~In(t, sent)
    /\ \A t \in Tasks : In(t, queue) => ~In(t, sent)
    /\ cur # NoTask => sent # <<>> /\ sent[Len(sent)] = cur
    /\ \A t \in Tasks : reply[t] # NoReply => In(t, sent) /\ cur # t
    /\ \A t \in Tasks : caller[t] = "waiting" => In(t, queue) \/ cur = t \/ reply[t] # NoReply

(* A worker is done with the task being served, its answer counted or on   *)
(* its way, exactly when it has received all broadcasts and is idle; it    *)
(* answers once.                                                           *)
Ballots ==
    /\ \A w \in Rpcs : pos[w] <= Len(sent)
    /\ \A w \in Rpcs : job[w] # NoTask => pos[w] >= 1 /\ sent[pos[w]] = job[w]
    /\ cur # NoTask =>
          \A w \in Rpcs : Counted(w) \/ Underway(w) <=> pos[w] = Len(sent) /\ job[w] = NoTask
    /\ \A w \in Rpcs : Counted(w) => ~Underway(w)
    /\ \A i, j \in 1 .. Len(inner) : inner[i].from = inner[j].from => i = j
    /\ cur = NoTask => inner = <<>> /\ heard = NothingHeard

IInv == TypeOK /\ Flow /\ Ballots

(* Appending adds one element, at the end.                                 *)
LEMMA AppendIn ==
  ASSUME NEW S, NEW s \in Seq(S), NEW e \in S
  PROVE  /\ \A t : In(t, Append(s, e)) <=> In(t, s) \/ t = e
         /\ NoRepeats(s) /\ ~In(e, s) => NoRepeats(Append(s, e))
<1>1. /\ Len(s) \in Nat
      /\ Len(Append(s, e)) = Len(s) + 1
      /\ \A i \in 1 .. Len(s) : Append(s, e)[i] = s[i]
      /\ Append(s, e)[Len(s) + 1] = e
  BY AppendProperties, LenProperties
<1>2. ASSUME NEW t PROVE In(t, Append(s, e)) <=> In(t, s) \/ t = e
  <2>1. ASSUME NEW i \in 1 .. Len(Append(s, e)), Append(s, e)[i] = t
        PROVE  In(t, s) \/ t = e
    <3>1. i \in 1 .. Len(s) \/ i = Len(s) + 1
      BY <1>1
    <3> QED BY <1>1, <2>1, <3>1 DEF In
  <2>2. ASSUME NEW i \in 1 .. Len(s), s[i] = t PROVE In(t, Append(s, e))
    <3>1. i \in 1 .. Len(Append(s, e))
      BY <1>1
    <3> QED BY <1>1, <2>2, <3>1 DEF In
  <2>3. Len(s) + 1 \in 1 .. Len(Append(s, e))
    BY <1>1
  <2> QED BY <1>1, <2>1, <2>2, <2>3 DEF In
<1>3. ASSUME NoRepeats(s), ~In(e, s) PROVE NoRepeats(Append(s, e))
  <2> SUFFICES ASSUME NEW i \in 1 .. Len(Append(s, e)), NEW j \in 1 .. Len(Append(s, e)),
                      Append(s, e)[i] = Append(s, e)[j]
               PROVE  i = j
    BY DEF NoRepeats
  <2>1. /\ i \in 1 .. Len(s) \/ i = Len(s) + 1
        /\ j \in 1 .. Len(s) \/ j = Len(s) + 1
    BY <1>1
  <2> QED BY <1>1, <1>3, <2>1 DEF NoRepeats, In
<1> QED BY <1>2, <1>3

(* Taking the head of a sequence without repetitions removes one element.  *)
LEMMA TailIn ==
  ASSUME NEW S, NEW s \in Seq(S), s # <<>>, NoRepeats(s)
  PROVE  /\ \A t : In(t, s) <=> t = Head(s) \/ In(t, Tail(s))
         /\ NoRepeats(Tail(s))
         /\ ~In(Head(s), Tail(s))
<1>1. /\ Len(s) \in Nat \ {0}
      /\ Len(Tail(s)) = Len(s) - 1
      /\ \A i \in 1 .. Len(Tail(s)) : i + 1 \in 1 .. Len(s) /\ Tail(s)[i] = s[i + 1]
      /\ 1 \in 1 .. Len(s) /\ Head(s) = s[1]
  BY HeadTailProperties, EmptySeq
<1>2. ASSUME NEW t PROVE In(t, s) <=> t = Head(s) \/ In(t, Tail(s))
  <2>1. ASSUME NEW i \in 1 .. Len(s), s[i] = t, i # 1 PROVE In(t, Tail(s))
    <3>1. i - 1 \in 1 .. Len(Tail(s)) /\ Tail(s)[i - 1] = s[i]
      BY <1>1, <2>1
    <3> QED BY <2>1, <3>1 DEF In
  <2>2. In(t, Tail(s)) => In(t, s)
    BY <1>1 DEF In
  <2> QED BY <1>1, <2>1, <2>2 DEF In
<1>3. NoRepeats(Tail(s))
  <2> SUFFICES ASSUME NEW i \in 1 .. Len(Tail(s)), NEW j \in 1 .. Len(Tail(s)),
                      Tail(s)[i] = Tail(s)[j]
               PROVE  i = j
    BY DEF NoRepeats
  <2>1. i + 1 = j + 1
    BY <1>1 DEF NoRepeats
  <2> QED BY <2>1
<1>4. ~In(Head(s), Tail(s))
  <2> SUFFICES ASSUME NEW i \in 1 .. Len(Tail(s)), Tail(s)[i] = Head(s) PROVE FALSE
    BY DEF In
  <2>1. i + 1 = 1
    BY <1>1 DEF NoRepeats
  <2> QED BY <2>1
<1> QED BY <1>2, <1>3, <1>4

(* No task is on its way at the start.                                     *)
LEMMA InitFlow == Init => Flow
  BY DEF Init, Flow, NoRepeats, In, NoReply

(* The flow of tasks: the handlers' steps.                                 *)
LEMMA HandlerFlow ==
  ASSUME TypeOK, Flow, NEW t \in Tasks, Handler(t)
  PROVE  Flow'
<1> USE DEF TypeOK, Flow
<1>1. ASSUME NEW v \in AnswersTo(t), JudgeAnswers(t, v) PROVE Flow'
  BY <1>1 DEF JudgeAnswers, Finish
<1>2. CASE JudgeFails(t)
  BY <1>2 DEF JudgeFails, Finish
<1>3. CASE Enqueue(t)
  <2>1. /\ \A u : In(u, queue') <=> In(u, queue) \/ u = t
        /\ NoRepeats(queue) /\ ~In(t, queue) => NoRepeats(queue')
    BY <1>3, AppendIn DEF Enqueue
  <2> QED BY <1>3, <2>1 DEF Enqueue
<1>4. CASE Receive(t)
  BY <1>4 DEF Receive, Finish
<1>5. CASE Abandon(t)
  BY <1>5 DEF Abandon
<1>6. CASE JudgeUnparsable(t)
  BY <1>6 DEF JudgeUnparsable
<1> QED BY <1>1, <1>2, <1>3, <1>4, <1>5, <1>6 DEF Handler

(* What a response does, whatever it says.                                 *)
LEMMA RespondFlow ==
  ASSUME TypeOK, Flow, cur # NoTask, NEW kind \in Methods, NEW o, Respond(kind, o),
         UNCHANGED <<handlerVars, queue, sent>>
  PROVE  Flow'
<1> USE DEF TypeOK, Flow
<1>1. cur \in Tasks /\ cur' = NoTask /\ In(cur, sent)
  BY DEF Respond, TaskOrNone, In
<1>2. [kind |-> kind, out |-> o] # NoReply
  BY DEF NoReply, Methods, Matching, Listing
<1>3. \A t \in Tasks : reply'[t] # NoReply => reply[t] # NoReply \/ t = cur
  BY <1>1 DEF Respond
<1>4. \A t \in Tasks : caller[t] = "waiting" /\ (t = cur \/ reply[t] # NoReply) => reply'[t] # NoReply
  BY <1>1, <1>2 DEF Respond
<1> QED BY <1>1, <1>3, <1>4, MarksAssumption

(* The flow of tasks: the dispatcher's steps.                              *)
LEMMA DispatcherFlow ==
  ASSUME TypeOK, Flow, Dispatch \/ Collect \/ DeadlinePasses
  PROVE  Flow'
<1>1. CASE Dispatch
  <2> USE <1>1 DEF Dispatch, TypeOK, Flow
  <2>1. /\ \A u : In(u, queue) <=> u = Head(queue) \/ In(u, queue')
        /\ NoRepeats(queue') /\ ~In(Head(queue), queue')
    BY TailIn
  <2>2. Head(queue) \in Tasks
    BY HeadTailProperties
  <2>3. /\ \A u : In(u, sent') <=> In(u, sent) \/ u = Head(queue)
        /\ NoRepeats(sent) /\ ~In(Head(queue), sent) => NoRepeats(sent')
    BY <2>2, AppendIn
  <2>4. sent' # <<>> /\ sent'[Len(sent')] = cur'
    <3>1. sent' = Append(sent, Head(queue)) /\ cur' = Head(queue) /\ sent \in Seq(Tasks)
      OBVIOUS
    <3> HIDE <1>1 DEF Dispatch, TypeOK, Flow
    <3>2. Len(sent') = Len(sent) + 1 /\ sent'[Len(sent) + 1] = cur'
      BY <2>2, <3>1, AppendProperties
    <3> QED BY <2>2, <3>1, <3>2, AppendProperties
  <2>5. cur = NoTask /\ UNCHANGED <<caller, reply>> /\ cur' = Head(queue)
    OBVIOUS
  <2> HIDE <1>1 DEF Dispatch, TypeOK
  <2> QED BY <2>1, <2>2, <2>3, <2>4, <2>5, MarksAssumption
<1>2. CASE CollectError
  <2>1. ErrorKind(cur) \in Methods
    BY <1>2, MethodAssumption DEF TypeOK, TaskOrNone, CollectError, ErrorKind, Methods
  <2> QED BY <1>2, <2>1, RespondFlow DEF CollectError
<1>3. CASE CollectAnswer
  <2>1. cur # NoTask /\ Method[cur] \in Methods
    BY <1>3, MethodAssumption DEF TypeOK, TaskOrNone, CollectAnswer
  <2>2. CASE UNCHANGED <<handlerVars, queue, sent, cur, reply>>
    BY <2>2 DEF Flow
  <2>3. CASE \E o : Respond(Method[cur], o)
    BY <1>3, <2>1, <2>3, RespondFlow DEF CollectAnswer
  <2> QED BY <1>3, <2>2, <2>3 DEF CollectAnswer
<1>4. CASE DeadlinePasses
  BY <1>4 DEF DeadlinePasses, Flow
<1> QED BY <1>1, <1>2, <1>3, <1>4 DEF Collect

(* Every step keeps the flow of tasks in order.                            *)
LEMMA NextFlow == TypeOK /\ Flow /\ [Next]_vars => Flow'
<1> SUFFICES ASSUME TypeOK, Flow, [Next]_vars PROVE Flow'
  OBVIOUS
<1>1. CASE \E t \in Tasks : Handler(t)
  BY <1>1, HandlerFlow
<1>2. CASE Dispatch \/ Collect \/ DeadlinePasses
  BY <1>2, DispatcherFlow
<1>3. ASSUME NEW w \in Rpcs, Worker(w) PROVE Flow'
  BY <1>3 DEF Worker, Finishes, Take, Lag, Retry, Succeed, GiveUp, Flow
<1>4. CASE UNCHANGED vars
  BY <1>4 DEF vars, Flow
<1> QED BY <1>1, <1>2, <1>3, <1>4 DEF Next, Quiet

(* No ballot is cast at the start.                                         *)
LEMMA InitBallots == Init => Ballots
  BY DEF Init, Ballots, NothingHeard, Counted, Underway

(* The ballots: nothing a handler does touches them.                       *)
LEMMA HandlerBallots ==
  ASSUME Ballots, NEW t \in Tasks, Handler(t)
  PROVE  Ballots'
  BY DEF Handler, JudgeAnswers, JudgeUnparsable, JudgeFails, Enqueue, Receive, Abandon,
         Ballots, Counted, Underway

(* The ballots: the dispatcher's steps.                                    *)
LEMMA DispatcherBallots ==
  ASSUME TypeOK, Flow, Ballots, Dispatch \/ Collect \/ DeadlinePasses
  PROVE  Ballots'
<1>1. CASE Dispatch
  <2> USE <1>1 DEF Dispatch
  <2>1. /\ Len(sent) \in Nat /\ Len(sent') = Len(sent) + 1
        /\ \A i \in 1 .. Len(sent) : sent'[i] = sent[i]
    <3>1. Head(queue) \in Tasks /\ sent \in Seq(Tasks)
      BY HeadTailProperties DEF TypeOK
    <3> QED BY <3>1, AppendProperties, LenProperties
  <2>2. inner = <<>> /\ heard = NothingHeard /\ UNCHANGED <<inner, heard, pos, job>>
    BY DEF Ballots
  <2>3. \A w \in Rpcs : ~Counted(w)' /\ ~Underway(w)'
    BY <2>2 DEF Counted, Underway, NothingHeard
  <2>4. \A w \in Rpcs : pos[w] \in Nat /\ pos[w] <= Len(sent)
    BY DEF TypeOK, Ballots
  <2>5. \A w \in Rpcs : pos'[w] <= Len(sent') /\ pos'[w] # Len(sent')
    BY <2>1, <2>2, <2>4
  <2>6. \A w \in Rpcs : job'[w] # NoTask => pos'[w] >= 1 /\ sent'[pos'[w]] = job'[w]
    BY <2>1, <2>2, <2>4 DEF Ballots
  <2>7. cur' # NoTask
    BY HeadTailProperties, MarksAssumption DEF TypeOK
  <2> HIDE <1>1 DEF Dispatch
  <2> QED BY <2>2, <2>3, <2>5, <2>6, <2>7 DEF Ballots
<1>2. ASSUME NEW kind, NEW o, Respond(kind, o), UNCHANGED <<sent, workerVars>>
      PROVE  Ballots'
  <2>1. cur' = NoTask /\ inner' = <<>> /\ heard' = NothingHeard'
    BY <1>2 DEF Respond, NothingHeard
  <2>2. \A w \in Rpcs : ~Counted(w)' /\ ~Underway(w)'
    BY <2>1 DEF Counted, Underway, NothingHeard
  <2> QED BY <1>2, <2>1, <2>2 DEF Ballots
<1>3. CASE CollectError
  BY <1>2, <1>3 DEF CollectError
<1>4. CASE CollectAnswer
  <2> DEFINE m == Head(inner)
             res == [heard EXCEPT ![m.from] = m.answer]
  <2>1. CASE \E o : Respond(Method[cur], o)
    BY <1>2, <1>4, <2>1 DEF CollectAnswer
  <2>2. CASE heard' = res /\ inner' = Tail(inner) /\ UNCHANGED <<cur, late, reply>>
    <3>1. inner \in Seq(Messages) /\ inner # <<>>
      BY <1>4 DEF CollectAnswer, TypeOK
    <3>2. m \in Messages /\ m.answer # Failed
      BY <1>4, <3>1, HeadTailProperties DEF CollectAnswer
    <3>3. m.from \in Rpcs /\ m.answer # NoAnswer
      BY <1>4, <3>2, MarksAssumption, MethodAssumption
         DEF CollectAnswer, Messages, Current, AnswersTo, TypeOK, TaskOrNone
    <3>4. /\ Len(inner) \in Nat /\ Len(inner') = Len(inner) - 1
          /\ \A i \in 1 .. Len(inner') : i + 1 \in 1 .. Len(inner) /\ inner'[i] = inner[i + 1]
          /\ 1 \in 1 .. Len(inner) /\ m = inner[1]
          /\ DOMAIN inner = 1 .. Len(inner) /\ DOMAIN inner' = 1 .. Len(inner')
      BY <2>2, <3>1, HeadTailProperties, EmptySeq, LenProperties
    <3>5. \A i, j \in 1 .. Len(inner) : inner[i].from = inner[j].from => i = j
      BY DEF Ballots
    <3>6. \A i, j \in 1 .. Len(inner') : inner'[i].from = inner'[j].from => i = j
      <4> SUFFICES ASSUME NEW i \in 1 .. Len(inner'), NEW j \in 1 .. Len(inner'),
                          inner'[i].from = inner'[j].from
                   PROVE  i = j
        OBVIOUS
      <4>1. i + 1 = j + 1
        BY <3>4, <3>5
      <4> QED BY <4>1
    <3>7. ASSUME NEW w \in Rpcs
          PROVE  /\ Underway(w) <=> w = m.from \/ Underway(w)'
                 /\ w = m.from => ~Underway(w)'
      <4>1. ASSUME NEW i \in 1 .. Len(inner), inner[i].from = w, w # m.from PROVE Underway(w)'
        <5>1. i - 1 \in 1 .. Len(inner') /\ inner'[i - 1] = inner[i]
          BY <3>4, <4>1
        <5> QED BY <3>4, <4>1, <5>1 DEF Underway
      <4>2. Underway(w)' => Underway(w)
        BY <3>4 DEF Underway
      <4>3. ASSUME NEW i \in 1 .. Len(inner'), inner'[i].from = w, w = m.from PROVE FALSE
        <5>1. i + 1 = 1
          BY <3>4, <3>5, <4>3
        <5> QED BY <5>1
      <4> QED BY <3>4, <4>1, <4>2, <4>3 DEF Underway
    <3>8. \A w \in Rpcs : Counted(w)' <=> Counted(w) \/ w = m.from
      BY <2>2, <3>3 DEF Counted, TypeOK
    <3>9. UNCHANGED <<cur, sent, pos, job>> /\ cur # NoTask
      BY <1>4, <2>2 DEF CollectAnswer
    <3> QED BY <3>6, <3>7, <3>8, <3>9 DEF Ballots
  <2> QED BY <1>4, <2>1, <2>2 DEF CollectAnswer
<1>5. CASE DeadlinePasses
  BY <1>5 DEF DeadlinePasses, Ballots, Counted, Underway
<1> QED BY <1>1, <1>3, <1>4, <1>5 DEF Collect

(* The ballots: the workers' steps.                                        *)
LEMMA WorkerBallots ==
  ASSUME TypeOK, Flow, Ballots, NEW w \in Rpcs, Worker(w)
  PROVE  Ballots'
<1>0. /\ Len(sent) \in Nat
      /\ \A i \in 1 .. Len(sent) : sent[i] \in Tasks
      /\ \A v \in Rpcs : pos[v] \in Nat /\ pos[v] <= Len(sent)
  BY ElementOfSeq, LenProperties DEF TypeOK, Ballots
<1>1. CASE Take(w)
  <2> USE <1>1 DEF Take
  <2>1. /\ pos' = [pos EXCEPT ![w] = pos[w] + 1] /\ pos[w] + 1 \in 1 .. Len(sent)
        /\ job' = [job EXCEPT ![w] = sent[pos[w] + 1]] /\ job[w] = NoTask
        /\ UNCHANGED <<sent, cur, inner, heard>>
    BY <1>0
  <2>2. sent[pos[w] + 1] # NoTask
    BY <1>0, <2>1, MarksAssumption
  <2>3. pos[w] # Len(sent)
    BY <1>0
  <2>4. pos \in [Rpcs -> Nat] /\ job \in [Rpcs -> TaskOrNone]
    BY DEF TypeOK
  <2> HIDE <1>1 DEF Take
  <2> QED BY <1>0, <2>1, <2>2, <2>3, <2>4 DEF Ballots, Counted, Underway
<1>2. CASE Lag(w)
  <2>1. Overwritten \in Nat /\ (Overwritten > pos[w] => Overwritten < Len(sent))
    BY <1>0, CapsAssumption DEF Overwritten
  <2>2. /\ pos' = [pos EXCEPT ![w] = Overwritten] /\ pos[w] < Overwritten
        /\ job[w] = NoTask /\ UNCHANGED <<job, sent, cur, inner, heard>>
    BY <1>2 DEF Lag
  <2>3. pos \in [Rpcs -> Nat]
    BY DEF TypeOK
  <2> QED BY <1>0, <2>1, <2>2, <2>3 DEF Ballots, Counted, Underway
<1>3. CASE Retry(w)
  BY <1>3 DEF Retry, Ballots, Counted, Underway
<1>4. ASSUME job[w] # NoTask, NEW a \in AnswersTo(job[w]) \cup {Failed}, Send(w, a),
             UNCHANGED <<handlerVars, queue, dispatcherVars, sent, pos, tries, reply>>
      PROVE  Ballots'
  <2>1. job' = [job EXCEPT ![w] = NoTask] /\ UNCHANGED <<cur, heard, sent, pos>>
    BY <1>4 DEF Send
  <2>2. job \in [Rpcs -> TaskOrNone]
    BY DEF TypeOK
  <2>3. pos[w] >= 1 /\ sent[pos[w]] = job[w] /\ pos[w] \in 1 .. Len(sent)
    BY <1>0, <1>4 DEF Ballots
  <2>4. \A v \in Rpcs : Counted(v)' <=> Counted(v)
    BY <2>1 DEF Counted
  <2>5. CASE job[w] = cur
    <3> DEFINE m == [from |-> w, answer |-> a]
    <3>1. job[w] \in Tasks
      BY <1>4, <2>2 DEF TaskOrNone
    <3>2. inner \in Seq(Messages) /\ m \in Messages /\ inner' = Append(inner, m)
      BY <1>4, <2>5, <3>1 DEF Send, TypeOK, Messages, Current
    <3>3. /\ Len(inner) \in Nat /\ Len(inner') = Len(inner) + 1
          /\ \A i \in 1 .. Len(inner) : inner'[i] = inner[i]
          /\ inner'[Len(inner) + 1] = m
          /\ DOMAIN inner = 1 .. Len(inner) /\ DOMAIN inner' = 1 .. Len(inner')
      BY <3>2, AppendProperties, LenProperties
    <3>4. \A i \in 1 .. Len(inner') : i \in 1 .. Len(inner) \/ i = Len(inner) + 1
      BY <3>3
    <3>5. ~Counted(w) /\ ~Underway(w)
      BY <1>4, <2>5 DEF Ballots
    <3>6. \A v \in Rpcs : Underway(v)' <=> Underway(v) \/ v = w
      <4> SUFFICES ASSUME NEW v \in Rpcs PROVE Underway(v)' <=> Underway(v) \/ v = w
        OBVIOUS
      <4>1. Underway(v) => Underway(v)'
        BY <3>3 DEF Underway
      <4>2. Len(inner) + 1 \in DOMAIN inner'
        BY <3>3
      <4>3. Underway(v)' => Underway(v) \/ v = w
        BY <3>3, <3>4 DEF Underway
      <4> QED BY <3>3, <4>1, <4>2, <4>3 DEF Underway
    <3>7. \A i, j \in 1 .. Len(inner') : inner'[i].from = inner'[j].from => i = j
      <4>1. \A i \in 1 .. Len(inner) : inner[i].from # w
        BY <3>3, <3>5 DEF Underway
      <4> QED BY <3>3, <3>4, <4>1 DEF Ballots
    <3>8. pos[w] = Len(sent)
      BY <1>0, <1>4, <2>3, <2>5 DEF Flow, NoRepeats
    <3>9. cur # NoTask
      BY <1>4, <2>5
    <3> HIDE DEF m
    <3> QED BY <2>1, <2>2, <2>4, <3>5, <3>6, <3>7, <3>8, <3>9 DEF Ballots
  <2>6. CASE job[w] # cur
    <3>1. UNCHANGED inner
      BY <1>4, <2>6 DEF Send
    <3>2. \A v \in Rpcs : Underway(v)' <=> Underway(v)
      BY <3>1 DEF Underway
    <3>3. cur # NoTask => pos[w] # Len(sent)
      BY <2>3, <2>6 DEF Flow
    <3> QED BY <1>4, <2>1, <2>2, <2>4, <3>1, <3>2, <3>3 DEF Ballots, NothingHeard
  <2> QED BY <2>5, <2>6
<1>5. CASE Finishes(w)
  BY <1>4, <1>5 DEF Finishes, Succeed, GiveUp
<1> QED BY <1>1, <1>2, <1>3, <1>5 DEF Worker

(* Every step keeps the ballots in order.                                  *)
LEMMA NextBallots == TypeOK /\ Flow /\ Ballots /\ [Next]_vars => Ballots'
<1> SUFFICES ASSUME TypeOK, Flow, Ballots, [Next]_vars PROVE Ballots'
  OBVIOUS
<1>1. CASE \E t \in Tasks : Handler(t)
  BY <1>1, HandlerBallots
<1>2. CASE Dispatch \/ Collect \/ DeadlinePasses
  BY <1>2, DispatcherBallots
<1>3. CASE \E w \in Rpcs : Worker(w)
  BY <1>3, WorkerBallots
<1>4. CASE UNCHANGED vars
  BY <1>4 DEF vars, Ballots, Counted, Underway
<1> QED BY <1>1, <1>2, <1>3, <1>4 DEF Next, Quiet

(* The inductive invariant holds of every behaviour.                       *)
THEOREM Inductive == Spec => []IInv
<1>1. Init => IInv
  BY InitType, InitFlow, InitBallots DEF IInv
<1>2. IInv /\ [Next]_vars => IInv'
  BY NextType, NextFlow, NextBallots DEF IInv
<1> QED BY <1>1, <1>2, PTL DEF Spec

------------------------------------------------------------------------------
(* What the invariant is for.                                              *)

(* A handler that waits has its task in exactly one place on the way to    *)
(* its reply, for any number of handlers.                                  *)
THEOREM RequestsKept == Spec => []NoLostRequest
<1>1. TypeOK /\ Flow => NoLostRequest
  <2> SUFFICES ASSUME TypeOK, Flow PROVE NoLostRequest
    OBVIOUS
  <2>1. DOMAIN queue = 1 .. Len(queue)
    BY LenProperties DEF TypeOK
  <2>2. \A t \in Tasks : Queued(t) <=> In(t, queue)
    BY <2>1 DEF Queued, In
  <2>3. cur # NoTask => In(cur, sent)
    <3>1. sent # <<>> => Len(sent) \in 1 .. Len(sent)
      BY EmptySeq DEF TypeOK
    <3> QED BY <3>1 DEF Flow, In
  <2>4. \A i, j \in DOMAIN queue : queue[i] = queue[j] => i = j
    BY <2>1 DEF Flow, NoRepeats
  <2> QED BY <2>2, <2>3, <2>4, MarksAssumption DEF NoLostRequest, Flow
<1> QED BY <1>1, Inductive, PTL DEF IInv

(* Each worker's answer to the task being served is in exactly one of its  *)
(* four stages: no lag of a worker loses an answer the dispatcher waits    *)
(* for.                                                                    *)
THEOREM VotesKept == Spec => []NoLostVote
<1>1. IInv => NoLostVote
  <2> SUFFICES ASSUME IInv, cur # NoTask, NEW w \in Rpcs
               PROVE  /\ Counted(w) \/ Underway(w) \/ Fetching(w) \/ Ahead(w)
                      /\ Counted(w)  => ~Underway(w) /\ ~Fetching(w) /\ ~Ahead(w)
                      /\ Underway(w) => ~Fetching(w) /\ ~Ahead(w)
                      /\ Fetching(w) => ~Ahead(w)
    BY DEF NoLostVote
  <2> USE DEF IInv
  <2>1. /\ Len(sent) \in 1 .. Len(sent) /\ DOMAIN sent = 1 .. Len(sent)
        /\ sent[Len(sent)] = cur
        /\ \A i \in DOMAIN sent : sent[i] = cur => i = Len(sent)
    <3>1. sent # <<>> /\ sent \in Seq(Tasks)
      BY DEF Flow, TypeOK
    <3>2. Len(sent) \in Nat \ {0} /\ DOMAIN sent = 1 .. Len(sent)
      BY <3>1, EmptySeq, LenProperties
    <3> QED BY <3>2 DEF Flow, NoRepeats
  <2>2. Overwritten < Len(sent)
    BY <2>1, CapsAssumption DEF Overwritten
  <2>3. pos[w] \in Nat /\ pos[w] <= Len(sent)
    BY DEF TypeOK, Ballots
  <2>4. Ahead(w) <=> pos[w] # Len(sent)
    BY <2>1, <2>2, <2>3 DEF Ahead
  <2>5. Fetching(w) => pos[w] = Len(sent)
    BY <2>1, <2>3 DEF Fetching, Ballots
  <2>6. pos[w] = Len(sent) => job[w] = NoTask \/ Fetching(w)
    BY <2>1 DEF Fetching, Ballots
  <2>7. Fetching(w) => job[w] # NoTask
    BY DEF Fetching
  <2> QED BY <2>4, <2>5, <2>6, <2>7 DEF Ballots
<1> QED BY <1>1, Inductive, PTL

(* A worker that answers the task being served finds a free place: the     *)
(* messages in the inner channel come from different workers, all of them  *)
(* others.                                                                 *)
THEOREM NeverBlocked == Spec => []SendNeverBlocks
<1>1. IInv => SendNeverBlocks
  <2> SUFFICES ASSUME IInv, NEW w \in Rpcs, job[w] # NoTask, job[w] = cur
               PROVE  Len(inner) < RpcNum
    BY DEF SendNeverBlocks
  <2> USE DEF IInv
  <2>1. /\ Len(inner) \in Nat /\ DOMAIN inner = 1 .. Len(inner)
        /\ \A i \in 1 .. Len(inner) : inner[i] \in Messages
    BY LenProperties, ElementOfSeq DEF TypeOK
  <2>2. \A i \in 1 .. Len(inner) : inner[i].from \in Rpcs \ {w}
    BY <2>1 DEF Ballots, Underway, Messages
  <2> DEFINE from == [i \in 1 .. Len(inner) |-> inner[i].from]
  <2>3. from \in [1 .. Len(inner) -> Rpcs \ {w}]
    BY <2>2
  <2>4. /\ IsFiniteSet(Rpcs \ {w}) /\ Cardinality(Rpcs \ {w}) = RpcNum - 1
        /\ RpcNum \in Nat
    BY RpcsAssumption, FS_RemoveElement, FS_CardinalityType DEF RpcNum
  <2>5. IsFiniteSet(1 .. Len(inner)) /\ Cardinality(1 .. Len(inner)) = Len(inner)
    BY <2>1, FS_Interval
  <2>6. ASSUME Len(inner) >= RpcNum PROVE FALSE
    <3>1. Cardinality(Rpcs \ {w}) < Cardinality(1 .. Len(inner))
      BY <2>1, <2>4, <2>5, <2>6
    <3>2. \E i, j \in 1 .. Len(inner) : i # j /\ from[i] = from[j]
      <4> HIDE DEF from
      <4> QED BY <2>3, <2>4, <2>5, <3>1, FS_PigeonHole
    <3> QED BY <3>2 DEF Ballots
  <2> QED BY <2>1, <2>4, <2>6
<1> QED BY <1>1, Inductive, PTL

(* An answer counted for a task is what that worker's RPC said about that  *)
(* very task.                                                              *)
THEOREM VotesAuthentic == Spec => []AuthenticVotes
<1>1. Init => AuthenticVotes
  BY DEF Init, AuthenticVotes, NothingHeard
<1>2. IInv /\ AuthenticVotes /\ [Next]_vars => AuthenticVotes'
  <2> SUFFICES ASSUME IInv, AuthenticVotes, [Next]_vars PROVE AuthenticVotes'
    OBVIOUS
  <2> USE DEF IInv
  <2>1. ASSUME NEW t \in Tasks, Handler(t) PROVE AuthenticVotes'
    BY <2>1 DEF Handler, JudgeAnswers, JudgeUnparsable, JudgeFails, Enqueue, Receive, Abandon, AuthenticVotes
  <2>2. CASE Dispatch
    BY <2>2 DEF Dispatch, Ballots, NothingHeard, AuthenticVotes
  <2>3. ASSUME NEW kind, NEW o, Respond(kind, o) PROVE AuthenticVotes'
    BY <2>3 DEF Respond, NothingHeard, AuthenticVotes
  <2>4. CASE CollectError
    BY <2>3, <2>4 DEF CollectError
  <2>5. CASE CollectAnswer
    <3> DEFINE m == Head(inner)
               res == [heard EXCEPT ![m.from] = m.answer]
    <3>1. CASE \E o : Respond(Method[cur], o)
      BY <2>3, <3>1
    <3>2. CASE heard' = res /\ inner' = Tail(inner) /\ UNCHANGED <<cur, late, reply>>
      <4>1. inner \in Seq(Messages) /\ inner # <<>>
        BY <2>5 DEF CollectAnswer, TypeOK
      <4>2. /\ DOMAIN inner = 1 .. Len(inner) /\ DOMAIN inner' = 1 .. Len(inner')
            /\ \A i \in 1 .. Len(inner') : i + 1 \in 1 .. Len(inner) /\ inner'[i] = inner[i + 1]
            /\ 1 \in 1 .. Len(inner) /\ m = inner[1]
        BY <3>2, <4>1, HeadTailProperties, EmptySeq, LenProperties
      <4>3. m.answer = said[cur][m.from]
        BY <4>2 DEF AuthenticVotes
      <4>4. UNCHANGED <<cur, said>>
        BY <2>5, <3>2 DEF CollectAnswer
      <4>5. \A w \in Rpcs : heard'[w] # NoAnswer => heard'[w] = said[cur][w]
        BY <3>2, <4>3 DEF AuthenticVotes, TypeOK
      <4> QED BY <4>2, <4>4, <4>5 DEF AuthenticVotes
    <3> QED BY <2>5, <3>1, <3>2 DEF CollectAnswer
  <2>6. CASE DeadlinePasses
    BY <2>6 DEF DeadlinePasses, AuthenticVotes
  <2>7. ASSUME NEW w \in Rpcs, Take(w) \/ Lag(w) \/ Retry(w) PROVE AuthenticVotes'
    BY <2>7 DEF Take, Lag, Retry, AuthenticVotes
  <2>8. ASSUME NEW w \in Rpcs, job[w] # NoTask, NEW a, Send(w, a),
               UNCHANGED <<handlerVars, queue, dispatcherVars, sent, pos, tries, reply>>
        PROVE  AuthenticVotes'
    <3>1. job[w] \in Tasks /\ UNCHANGED <<cur, heard>>
      BY <2>8 DEF TypeOK, TaskOrNone
    <3>2. /\ \A v \in Rpcs : said'[job[w]][v] = IF v = w THEN a ELSE said[job[w]][v]
          /\ \A t \in Tasks : t # job[w] => said'[t] = said[t]
      BY <2>8, <3>1 DEF Send, TypeOK
    <3>3. \A i \in DOMAIN inner : inner[i].from \in Rpcs
      <4>1. inner \in Seq(Messages)
        BY DEF TypeOK
      <4>2. \A i \in DOMAIN inner : inner[i] \in Messages
        BY <4>1, LenProperties, ElementOfSeq
      <4> QED BY <4>2 DEF Messages
    <3>4. CASE job[w] = cur
      <4>1. ~Counted(w) /\ ~Underway(w)
        BY <2>8, <3>4 DEF Ballots
      <4>2. \A v \in Rpcs : heard'[v] # NoAnswer => heard'[v] = said'[cur'][v]
        BY <3>1, <3>2, <3>4, <4>1 DEF Counted, AuthenticVotes
      <4>3. inner' = Append(inner, [from |-> w, answer |-> a]) /\ inner \in Seq(Messages)
        BY <2>8, <3>4 DEF Send, TypeOK
      <4>4. \A i \in DOMAIN inner' : inner'[i].answer = said'[cur'][inner'[i].from]
        <5>1. /\ \A i \in DOMAIN inner' : i \in DOMAIN inner \/ i = Len(inner) + 1
              /\ \A i \in DOMAIN inner : inner'[i] = inner[i]
              /\ inner'[Len(inner) + 1] = [from |-> w, answer |-> a]
          BY <4>3
        <5>2. \A i \in DOMAIN inner : inner[i].from # w
          BY <4>1 DEF Underway
        <5> QED BY <3>1, <3>2, <3>3, <3>4, <5>1, <5>2 DEF AuthenticVotes
      <4> QED BY <4>2, <4>4 DEF AuthenticVotes
    <3>5. CASE job[w] # cur
      <4>1. UNCHANGED inner
        BY <2>8, <3>5 DEF Send
      <4>2. CASE cur \in Tasks
        BY <3>1, <3>2, <3>5, <4>1, <4>2 DEF AuthenticVotes
      <4>3. CASE cur = NoTask
        BY <3>1, <4>1, <4>3 DEF AuthenticVotes, Ballots, NothingHeard
      <4> QED BY <4>2, <4>3 DEF TypeOK, TaskOrNone
    <3> QED BY <3>4, <3>5
  <2>9. CASE UNCHANGED vars
    BY <2>9 DEF vars, AuthenticVotes
  <2> QED BY <2>1, <2>2, <2>4, <2>5, <2>6, <2>7, <2>8, <2>9
          DEF Next, Collect, Worker, Finishes, Succeed, GiveUp, Quiet
<1> QED BY <1>1, <1>2, Inductive, PTL DEF Spec
=============================================================================
