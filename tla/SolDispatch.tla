----------------------------- MODULE SolDispatch -----------------------------
(***************************************************************************)
(* The Solana light client (chains/sol.rs): concurrent HTTP handlers, one  *)
(* dispatcher and one worker per extra RPC.                                *)
(*                                                                         *)
(*   handler --task queue (mpsc, QueueCap)--> dispatcher                   *)
(*   dispatcher --broadcast ring (RingCap)--> every worker                 *)
(*   worker --inner channel of the task (mpsc, one slot per RPC)-->        *)
(*   dispatcher --response channel of the task (mpsc, 1)--> handler        *)
(*                                                                         *)
(* A handler first asks the judge RPC, then queues its task.  The          *)
(* dispatcher serves one task at a time: it broadcasts the task with the   *)
(* sending end of a fresh inner channel, collects one answer per extra RPC *)
(* and responds.  It leaves a task at the first error a worker reports, so *)
(* slow workers may still be busy with, or not even have received, tasks   *)
(* that were answered long ago; what they send then meets a closed channel.*)
(***************************************************************************)
EXTENDS SolVote

CONSTANTS
    Tasks,      \* requests; each is made once, by a handler of its own
    Rpcs,       \* the extra RPCs, one worker each
    Method,     \* Method[t]: the method task t calls
    Answers,    \* Answers[m]: what an RPC may answer to method m
    QueueCap,   \* capacity of the task queue (1024 in the code)
    RingCap,    \* capacity of the broadcast ring (1024 in the code)
    MaxTries,   \* attempts of a worker at one task (3 in the code)
    NoTask, NoAnswer, Failed

ASSUME RpcsAssumption    == IsFiniteSet(Rpcs) /\ Rpcs # {}
ASSUME MethodAssumption  == Method \in [Tasks -> Methods]
ASSUME CapsAssumption    == /\ QueueCap \in Nat \ {0}
                            /\ RingCap \in Nat \ {0}
                            /\ MaxTries \in Nat \ {0}
ASSUME MarksAssumption   == /\ NoTask \notin Tasks
                            /\ NoAnswer # Failed
                            /\ \A m \in Methods : {NoAnswer, Failed} \cap Answers[m] = {}

(* What is listed is a sequence; nobody checks it for repeated entries.    *)
ASSUME ListsAssumption ==
    \A m \in Listing : \A s \in Answers[m] : s \in Seq(Entries(s))

RpcNum == Cardinality(Rpcs)

VARIABLES
    caller,     \* where the handler of each task stands
    judge,      \* the judge's answer a handler keeps across its waits
    result,     \* what the handler returned
    queue,      \* the task queue
    cur,        \* the task the dispatcher is serving, or NoTask
    late,       \* 60 s have passed since cur was broadcast
    sent,       \* every task broadcast so far; the ring retains the last RingCap
    pos,        \* how many broadcasts each worker has received or lost
    job,        \* the task a worker is asking its RPC about, or NoTask
    tries,      \* attempts that already failed for job
    inner,      \* unread messages of the inner channel of cur
    heard,      \* heard[w]: w's answer to cur in the dispatcher's res
    reply,      \* the event in the response channel of each task
    said        \* history: what the RPC of w answered when asked for task t

handlerVars    == <<caller, judge, result>>
dispatcherVars == <<cur, late, heard>>
workerVars     == <<pos, job, tries>>
vars == <<handlerVars, queue, dispatcherVars, sent, workerVars, inner, reply, said>>

AnswersTo(t) == Answers[Method[t]]

NothingHeard == [w \in Rpcs |-> NoAnswer]

NoReply == [kind |-> "none", out |-> Err]
NoResult == [made |-> FALSE, out |-> Err]
Returned(o) == [made |-> TRUE, out |-> o]

Init ==
    /\ caller = [t \in Tasks |-> "judging"]
    /\ judge  = [t \in Tasks |-> NoAnswer]
    /\ result = [t \in Tasks |-> NoResult]
    /\ queue  = <<>>
    /\ cur    = NoTask
    /\ late   = FALSE
    /\ sent   = <<>>
    /\ pos    = [w \in Rpcs |-> 0]
    /\ job    = [w \in Rpcs |-> NoTask]
    /\ tries  = [w \in Rpcs |-> 0]
    /\ inner  = <<>>
    /\ heard  = NothingHeard
    /\ reply  = [t \in Tasks |-> NoReply]
    /\ said   = [t \in Tasks |-> [w \in Rpcs |-> NoAnswer]]

------------------------------------------------------------------------------
(* The handler of a task.                                                  *)

Finish(t, o) == /\ caller' = [caller EXCEPT ![t] = "done"]
                /\ result' = [result EXCEPT ![t] = Returned(o)]

(* The judge has no signature at all: nothing is left to be confirmed.     *)
NothingToConfirm(t, v) == Method[t] = "signatures" /\ v = <<>>

(* The blocking query of the judge RPC comes back.                         *)
JudgeAnswers(t, v) ==
    /\ caller[t] = "judging"
    /\ judge' = [judge EXCEPT ![t] = v]
    /\ IF NothingToConfirm(t, v)
       THEN Finish(t, Ok(v))
       ELSE caller' = [caller EXCEPT ![t] = "queueing"] /\ UNCHANGED result
    /\ UNCHANGED <<queue, dispatcherVars, sent, workerVars, inner, reply, said>>

(* The first signature the judge lists cannot be parsed: unwrap() panics   *)
(* the handler.                                                            *)
JudgeUnparsable(t) ==
    /\ caller[t] = "judging"
    /\ Method[t] = "signatures"
    /\ caller' = [caller EXCEPT ![t] = "panicked"]
    /\ UNCHANGED <<judge, result, queue, dispatcherVars, sent, workerVars, inner, reply, said>>

(* The judge fails: the handler returns before any task is queued.         *)
JudgeFails(t) ==
    /\ caller[t] = "judging"
    /\ Finish(t, Err)
    /\ UNCHANGED <<judge, queue, dispatcherVars, sent, workerVars, inner, reply, said>>

(* task_sender.send(..).await gets a place in the queue.                   *)
Enqueue(t) ==
    /\ caller[t] = "queueing"
    /\ Len(queue) < QueueCap
    /\ queue'  = Append(queue, t)
    /\ caller' = [caller EXCEPT ![t] = "waiting"]
    /\ UNCHANGED <<judge, result, dispatcherVars, sent, workerVars, inner, reply, said>>

(* response_receiver.recv() yields.  An event of another method than the   *)
(* one called for reaches unreachable!() and panics the handler.           *)
Receive(t) ==
    /\ caller[t] = "waiting"
    /\ reply[t] # NoReply
    /\ IF reply[t].kind # Method[t]
       THEN caller' = [caller EXCEPT ![t] = "panicked"] /\ UNCHANGED result
       ELSE Finish(t, IF reply[t].out.ok
                      THEN Conclude(Method[t], judge[t], reply[t].out.val)
                      ELSE Err)
    /\ reply' = [reply EXCEPT ![t] = NoReply]
    /\ UNCHANGED <<judge, queue, dispatcherVars, sent, workerVars, inner, said>>

(* The client goes away and the server drops the handler at an await; a    *)
(* task already queued stays queued.                                       *)
Abandon(t) ==
    /\ caller[t] \in {"queueing", "waiting"}
    /\ caller' = [caller EXCEPT ![t] = "gone"]
    /\ UNCHANGED <<judge, result, queue, dispatcherVars, sent, workerVars, inner, reply, said>>

------------------------------------------------------------------------------
(* The dispatcher.                                                         *)

(* Takes the next task and broadcasts it with a fresh inner channel.       *)
Dispatch ==
    /\ cur = NoTask
    /\ queue # <<>>
    /\ cur'   = Head(queue)
    /\ queue' = Tail(queue)
    /\ sent'  = Append(sent, Head(queue))
    /\ UNCHANGED <<handlerVars, late, heard, workerVars, inner, reply, said>>

(* The 60 s of the task pass; the code looks at them only after a message. *)
DeadlinePasses ==
    /\ cur # NoTask
    /\ ~late
    /\ late' = TRUE
    /\ UNCHANGED <<handlerVars, queue, cur, sent, heard, workerVars, inner, reply, said>>

(* The dispatcher responds and drops its locals and the receiver of the    *)
(* inner channel with what is unread in it; a handler that is gone gets    *)
(* nothing.                                                                *)
Respond(kind, o) ==
    /\ reply' = IF caller[cur] = "waiting"
                THEN [reply EXCEPT ![cur] = [kind |-> kind, out |-> o]]
                ELSE reply
    /\ cur'   = NoTask
    /\ inner' = <<>>
    /\ heard' = NothingHeard
    /\ late'  = FALSE

(* deal_get_account_info wraps a worker's error in the event of getSlot.   *)
ErrorKind(t) == IF Method[t] = "account" THEN "slot" ELSE Method[t]

(* Mutant of CollectError: the task ends without a response.               *)
CollectErrorSilently ==
    /\ cur # NoTask
    /\ inner # <<>>
    /\ Head(inner).answer = Failed
    /\ cur' = NoTask /\ inner' = <<>> /\ heard' = NothingHeard /\ late' = FALSE
    /\ UNCHANGED <<handlerVars, queue, sent, workerVars, reply, said>>

(* The first error of a worker ends the task.                              *)
CollectError ==
    /\ cur # NoTask
    /\ inner # <<>>
    /\ Head(inner).answer = Failed
    /\ Respond(ErrorKind(cur), Err)
    /\ UNCHANGED <<handlerVars, queue, sent, workerVars, said>>

Reporters(h) == {w \in Rpcs : h[w] # NoAnswer}

(* Mutant of CollectAnswer: the last RPC is not waited for.                *)
CollectAnswerEarly ==
    /\ cur # NoTask
    /\ inner # <<>>
    /\ Head(inner).answer # Failed
    /\ LET res == [heard EXCEPT ![Head(inner).from] = Head(inner).answer]
           ballot == [w \in Reporters(res) |-> res[w]]
       IN  \/ /\ Cardinality(Reporters(res)) >= RpcNum - 1
              /\ Respond(Method[cur], Decide(Method[cur], ballot))
           \/ /\ Cardinality(Reporters(res)) < RpcNum - 1
              /\ heard' = res
              /\ inner' = Tail(inner)
              /\ UNCHANGED <<cur, late, reply>>
    /\ UNCHANGED <<handlerVars, queue, sent, workerVars, said>>

(* An answer is counted.  The last one decides the task, however late it   *)
(* is; any other one is followed by the look at the clock.                 *)
CollectAnswer ==
    /\ cur # NoTask
    /\ inner # <<>>
    /\ Head(inner).answer # Failed
    /\ LET res == [heard EXCEPT ![Head(inner).from] = Head(inner).answer]
           complete == Cardinality(Reporters(res)) = RpcNum
       IN  \/ complete /\ Respond(Method[cur], Decide(Method[cur], res))
           \/ ~complete /\ late /\ Respond(Method[cur], Err)
           \/ /\ ~complete /\ ~late
              /\ heard' = res
              /\ inner' = Tail(inner)
              /\ UNCHANGED <<cur, late, reply>>
    /\ UNCHANGED <<handlerVars, queue, sent, workerVars, said>>

------------------------------------------------------------------------------
(* The worker of the extra RPC w.                                          *)

(* How many broadcasts have been overwritten in the ring.                  *)
Overwritten == IF Len(sent) > RingCap THEN Len(sent) - RingCap ELSE 0

(* recv() yields the oldest task the worker has not seen.                  *)
Take(w) ==
    /\ job[w] = NoTask
    /\ pos[w] < Len(sent)
    /\ Overwritten <= pos[w]
    /\ job'   = [job EXCEPT ![w] = sent[pos[w] + 1]]
    /\ pos'   = [pos EXCEPT ![w] = @ + 1]
    /\ tries' = [tries EXCEPT ![w] = 0]
    /\ UNCHANGED <<handlerVars, queue, dispatcherVars, sent, inner, reply, said>>

(* Mutant of Lag: a worker that lagged resumes after the newest task.      *)
LagToEnd(w) ==
    /\ job[w] = NoTask
    /\ pos[w] < Overwritten
    /\ pos' = [pos EXCEPT ![w] = Len(sent)]
    /\ UNCHANGED <<handlerVars, queue, dispatcherVars, sent, job, tries, inner, reply, said>>

(* recv() yields Lagged: the overwritten tasks are skipped without a word. *)
Lag(w) ==
    /\ job[w] = NoTask
    /\ pos[w] < Overwritten
    /\ pos' = [pos EXCEPT ![w] = Overwritten]
    /\ UNCHANGED <<handlerVars, queue, dispatcherVars, sent, job, tries, inner, reply, said>>

(* Mutant of Send: the workers share one channel for all tasks.            *)
SendShared(w, a) ==
    /\ said' = [said EXCEPT ![job[w]][w] = a]
    /\ job'  = [job EXCEPT ![w] = NoTask]
    /\ IF cur # NoTask
       THEN /\ Len(inner) < RpcNum
            /\ inner' = Append(inner, [from |-> w, answer |-> a])
       ELSE UNCHANGED inner

(* Mutant of Send: the loop of attempts is not left after a success.       *)
SendAgain(w, a) ==
    /\ said' = [said EXCEPT ![job[w]][w] = a]
    /\ UNCHANGED job
    /\ IF job[w] = cur
       THEN /\ Len(inner) < RpcNum
            /\ inner' = Append(inner, [from |-> w, answer |-> a])
       ELSE UNCHANGED inner

(* inner_sender.send(..).await: waits while the channel is full, fails     *)
(* when the dispatcher has dropped the receiver.                           *)
Send(w, a) ==
    /\ said' = [said EXCEPT ![job[w]][w] = a]
    /\ job'  = [job EXCEPT ![w] = NoTask]
    /\ IF job[w] = cur
       THEN /\ Len(inner) < RpcNum
            /\ inner' = Append(inner, [from |-> w, answer |-> a])
       ELSE UNCHANGED inner

(* The RPC answers.                                                        *)
Succeed(w, v) ==
    /\ job[w] # NoTask
    /\ Send(w, v)
    /\ UNCHANGED <<handlerVars, queue, dispatcherVars, sent, pos, tries, reply>>

(* Mutant of Retry: the attempts are not counted against their limit.      *)
RetryForever(w) ==
    /\ job[w] # NoTask
    /\ tries' = [tries EXCEPT ![w] = @ + 1]
    /\ UNCHANGED <<handlerVars, queue, dispatcherVars, sent, pos, job, inner, reply, said>>

(* An attempt fails and another one is left.                               *)
Retry(w) ==
    /\ job[w] # NoTask
    /\ tries[w] + 1 < MaxTries
    /\ tries' = [tries EXCEPT ![w] = @ + 1]
    /\ UNCHANGED <<handlerVars, queue, dispatcherVars, sent, pos, job, inner, reply, said>>

(* Mutant of GiveUp: the worker leaves the task without reporting.         *)
GiveUpSilently(w) ==
    /\ job[w] # NoTask
    /\ tries[w] + 1 = MaxTries
    /\ job' = [job EXCEPT ![w] = NoTask]
    /\ said' = [said EXCEPT ![job[w]][w] = Failed]
    /\ UNCHANGED <<handlerVars, queue, dispatcherVars, sent, pos, tries, inner, reply>>

(* The last attempt fails.                                                 *)
GiveUp(w) ==
    /\ job[w] # NoTask
    /\ tries[w] + 1 = MaxTries
    /\ Send(w, Failed)
    /\ UNCHANGED <<handlerVars, queue, dispatcherVars, sent, pos, tries, reply>>

------------------------------------------------------------------------------
Handler(t) ==
    \/ \E v \in AnswersTo(t) : JudgeAnswers(t, v)
    \/ JudgeUnparsable(t)
    \/ JudgeFails(t)
    \/ Enqueue(t)
    \/ Receive(t)
    \/ Abandon(t)

Collect == CollectError \/ CollectAnswer

Finishes(w) == \/ job[w] # NoTask /\ \E v \in AnswersTo(job[w]) : Succeed(w, v)
               \/ GiveUp(w)

Worker(w) == Take(w) \/ Lag(w) \/ Finishes(w) \/ Retry(w)

(* Every request is over, every channel is empty and every worker has seen *)
(* everything: the service waits for requests this model does not make.    *)
Quiet ==
    /\ \A t \in Tasks : caller[t] \in {"done", "panicked", "gone"}
    /\ queue = <<>> /\ cur = NoTask
    /\ \A w \in Rpcs : job[w] = NoTask /\ pos[w] = Len(sent)
    /\ UNCHANGED vars

Next ==
    \/ \E t \in Tasks : Handler(t)
    \/ Dispatch
    \/ Collect
    \/ DeadlinePasses
    \/ \E w \in Rpcs : Worker(w)
    \/ Quiet

Spec == Init /\ [][Next]_vars

(* The runtime polls every ready future and the queue's semaphore is fair, *)
(* so handlers, dispatcher and workers that can move eventually do.  An    *)
(* RPC call ends, by its own timeout at the latest, so a worker that keeps *)
(* retrying reaches its last attempt.  Nothing makes a client go away or a *)
(* task last longer than its deadline.                                     *)
Fairness ==
    /\ \A t \in Tasks : SF_vars(Enqueue(t)) /\ WF_vars(Receive(t))
    /\ WF_vars(Dispatch)
    /\ WF_vars(Collect)
    /\ \A w \in Rpcs : WF_vars(Worker(w))

FairSpec == Spec /\ Fairness

------------------------------------------------------------------------------
(* Properties.                                                             *)

TaskOrNone == Tasks \cup {NoTask}

(* What may be answered to the task being served.                          *)
Current == IF cur = NoTask THEN {} ELSE AnswersTo(cur)

(* What workers send about it.                                             *)
Messages == [from : Rpcs, answer : Current \cup {Failed}]

CallerStates == {"judging", "queueing", "waiting", "done", "panicked", "gone"}

(* The types of the variables: every channel holds only what its sending   *)
(* side may send.                                                          *)
TypeOK ==
    /\ caller \in [Tasks -> CallerStates]
    /\ DOMAIN judge = Tasks /\ DOMAIN result = Tasks /\ DOMAIN reply = Tasks
    /\ \A t \in Tasks : judge[t] \in AnswersTo(t) \cup {NoAnswer}
    /\ \A t \in Tasks : reply[t].kind \in Methods \cup {"none"}
    /\ queue \in Seq(Tasks)
    /\ cur \in TaskOrNone
    /\ late \in BOOLEAN
    /\ sent \in Seq(Tasks)
    /\ pos \in [Rpcs -> Nat]
    /\ job \in [Rpcs -> TaskOrNone]
    /\ tries \in [Rpcs -> 0 .. MaxTries - 1]
    /\ inner \in Seq(Messages)
    /\ heard \in [Rpcs -> Current \cup {NoAnswer}]
    /\ DOMAIN said = Tasks
    /\ \A t \in Tasks : said[t] \in [Rpcs -> AnswersTo(t) \cup {NoAnswer, Failed}]

Queued(t) == \E i \in DOMAIN queue : queue[i] = t

(* A handler that waits has its task in exactly one place: once in the     *)
(* queue, or served by the dispatcher, or answered in its response channel.*)
(* No exit of a deal_* function leaves it without an event.                *)
NoLostRequest ==
    \A t \in Tasks : caller[t] = "waiting" =>
        /\ Queued(t) \/ cur = t \/ reply[t] # NoReply
        /\ reply[t] # NoReply => ~Queued(t) /\ cur # t
        /\ cur = t => ~Queued(t)
        /\ \A i, j \in DOMAIN queue : queue[i] = t /\ queue[j] = t => i = j

(* The answer of w to the current task has been counted, is in the inner   *)
(* channel, is being fetched, or the task is still in the ring, ahead of w.*)
Counted(w)  == heard[w] # NoAnswer
Underway(w) == \E i \in DOMAIN inner : inner[i].from = w
Fetching(w) == job[w] = cur
Ahead(w)    == \E i \in DOMAIN sent : /\ sent[i] = cur
                                      /\ pos[w] < i /\ Overwritten < i

(* While a task is served no worker's answer to it can get lost, not even  *)
(* when the ring overwrites tasks a slow worker never received: each       *)
(* worker's answer is in exactly one of its four stages, so the dispatcher *)
(* never waits on a channel nobody will send to, which it would do without *)
(* end.                                                                    *)
NoLostVote ==
    cur # NoTask =>
        \A w \in Rpcs :
            /\ Counted(w) \/ Underway(w) \/ Fetching(w) \/ Ahead(w)
            /\ Counted(w)  => ~Underway(w) /\ ~Fetching(w) /\ ~Ahead(w)
            /\ Underway(w) => ~Fetching(w) /\ ~Ahead(w)
            /\ Fetching(w) => ~Ahead(w)

(* An answer counted for a task is what that worker's RPC said about that  *)
(* very task: the answer a slow worker gives to an earlier task is never   *)
(* counted for a later one.                                                *)
AuthenticVotes ==
    /\ \A w \in Rpcs : heard[w] # NoAnswer => heard[w] = said[cur][w]
    /\ \A i \in DOMAIN inner : inner[i].answer = said[cur][inner[i].from]

(* One slot per RPC is enough: a worker never waits for a place in the     *)
(* inner channel, so no worker is ever blocked by the dispatcher.          *)
SendNeverBlocks ==
    \A w \in Rpcs : job[w] # NoTask /\ job[w] = cur => Len(inner) < RpcNum

Unanimous(t) == \A w \in Rpcs : said[t][w] \in AnswersTo(t)

(* The list s of the judge has x, and so have all the extra RPCs' lists if *)
(* none of them repeats it.                                                *)
ListedByAll(t, s, x) ==
    /\ x \in Entries(s)
    /\ Unrepeated(said[t], s, x) => \A w \in Rpcs : x \in Entries(said[t][w])

(* A value is returned as verified only after every extra RPC has answered *)
(* this very request, and it agrees with them and with the judge: the      *)
(* judge's value is the single most frequent answer; for a slot, the most  *)
(* frequent answer is no older; an entry of a list, the first signature    *)
(* excepted, was listed by the judge, and by every extra RPC unless one of *)
(* them, or the judge, lists it repeatedly: the code counts mentions, so a *)
(* repeat in one list makes up for an entry missing in another one.        *)
VerifiedAnswer ==
    \A t \in Tasks :
        LET m == Method[t]
            r == result[t].out
        IN  result[t].made /\ r.ok /\ ~NothingToConfirm(t, judge[t]) =>
              /\ Unanimous(t)
              /\ m \in Matching =>
                    /\ r.val = judge[t]
                    /\ Leaders(said[t]) = {judge[t]}
              /\ m = "slot" =>
                    /\ r.val = judge[t]
                    /\ \E v \in Candidates(said[t]) : Leaders(said[t]) = {v} /\ judge[t] <= v
              /\ m = "programs" =>
                    \A x \in r.val : ListedByAll(t, judge[t], x)
              /\ m = "signatures" =>
                    /\ r.val[1] = judge[t][1]
                    /\ \A i \in 2 .. Len(r.val) : ListedByAll(t, Tail(judge[t]), r.val[i])

(* The event in a handler's response channel is that of the method called  *)
(* for: the handler's match calls the other four unreachable.              *)
EventsMatch == \A t \in Tasks : reply[t] # NoReply => reply[t].kind = Method[t]

(* The client as its callers see it: SolService.                           *)
Phase == [t \in Tasks |-> CASE caller[t] = "done"               -> "answered"
                            [] caller[t] \in {"panicked", "gone"} -> "lost"
                            [] OTHER                              -> "open"]

Service == INSTANCE SolService WITH phase <- Phase, outcome <- result

(* Queue, ring, channels, retries and slow workers implement that promise: *)
(* every request ends at most once, and when it ends with a value, then    *)
(* with what the judge and all extra RPCs said about that request: nothing *)
(* unsupported is returned and nothing supported is left out, up to list   *)
(* entries that somebody repeats.                                          *)
ImplementsService == Service!Spec

(* Every handler that got past its judge is answered, whatever the extra   *)
(* RPCs answer and however slow they are.                                  *)
EveryRequestEnds ==
    \A t \in Tasks : caller[t] \in {"queueing", "waiting"} ~>
                        caller[t] \in {"done", "panicked", "gone"}
==============================================================================
