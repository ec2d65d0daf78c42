----------------------------- MODULE SolService ------------------------------
(***************************************************************************)
(* What the Solana client promises its callers, without saying how: a      *)
(* request is open until it ends, once and for all, with an error, with a  *)
(* value that the judge RPC and all the extra RPCs support, or with its    *)
(* handler lost.  There are no queues, channels, workers or retries here;  *)
(* SolDispatch is shown to implement this.                                 *)
(***************************************************************************)
EXTENDS SolVote

CONSTANTS
    Tasks, Rpcs, Method, Answers, NoAnswer, Failed      \* as in SolDispatch

VARIABLES
    phase,      \* "open", "answered" or "lost"
    judge,      \* what the judge said about each request, or NoAnswer
    said,       \* said[t][w]: what the extra RPC w said about request t
    outcome     \* what each request was answered

vars == <<phase, judge, said, outcome>>

Init ==
    /\ phase   = [t \in Tasks |-> "open"]
    /\ judge   = [t \in Tasks |-> NoAnswer]
    /\ said    = [t \in Tasks |-> [w \in Rpcs |-> NoAnswer]]
    /\ outcome = [t \in Tasks |-> [made |-> FALSE, out |-> Err]]

(* Every extra RPC has answered this very request.                         *)
Heard(t) == \A w \in Rpcs : said[t][w] \in Answers[Method[t]]

(* What may be kept of a list s: of the entries nobody repeats exactly     *)
(* those nobody misses; nothing is promised about the other ones.          *)
Kept(t, s) ==
    {X \in SUBSET Entries(s) :
        \A x \in Entries(s) : Unrepeated(said[t], s, x) =>
            (x \in X <=> \A w \in Rpcs : x \in Entries(said[t][w]))}

(* The values the RPCs support for t, method by method: the judge's when   *)
(* it is more frequent than all others; a slot of the judge no newer than  *)
(* the most frequent one; what may be kept of the judge's list, signatures *)
(* in the judge's order behind its first.                                  *)
Supported(t) ==
    LET m == Method[t]
        j == judge[t]
    IN  CASE m \in Matching   -> {v \in {j} : Leaders(said[t]) = {v}}
          [] m = "slot"       -> {v \in {j} : \E c \in Candidates(said[t]) :
                                                 Leaders(said[t]) = {c} /\ v <= c}
          [] m = "programs"   -> Kept(t, j)
          [] m = "signatures" -> {<<Head(j)>> \o InOrder(Tail(j), X) : X \in Kept(t, Tail(j))}

(* A list of signatures the judge finds empty needs no support.            *)
NothingAsked(t) == Method[t] = "signatures" /\ judge[t] = <<>>

End(t, o) == /\ phase'   = [phase EXCEPT ![t] = "answered"]
             /\ outcome' = [outcome EXCEPT ![t] = [made |-> TRUE, out |-> o]]

JudgeSays(t) ==
    /\ phase[t] = "open" /\ judge[t] = NoAnswer
    /\ \E v \in Answers[Method[t]] : judge' = [judge EXCEPT ![t] = v]
    /\ UNCHANGED said
    /\ IF NothingAsked(t)' THEN End(t, Ok(<<>>)) ELSE UNCHANGED <<phase, outcome>>

(* The handler of a request the judge has answered is dropped or panics;   *)
(* that of a list of signatures may panic over the judge's answer itself.  *)
Lose(t) ==
    /\ phase[t] = "open"
    /\ judge[t] # NoAnswer \/ Method[t] = "signatures"
    /\ phase' = [phase EXCEPT ![t] = "lost"]
    /\ UNCHANGED <<judge, said, outcome>>

(* An RPC speaks once, only when it is asked, maybe after the request has  *)
(* ended without it.                                                       *)
RpcSays(t, w) ==
    /\ judge[t] # NoAnswer
    /\ said[t][w] = NoAnswer
    /\ \E a \in Answers[Method[t]] \cup {Failed} : said' = [said EXCEPT ![t][w] = a]
    /\ UNCHANGED <<phase, judge, outcome>>

(* An error needs no reason: the time may be up at any moment.             *)
Answer(t) ==
    /\ phase[t] = "open"
    /\ \/ End(t, Err)
       \/ /\ judge[t] # NoAnswer /\ Heard(t)
          /\ \E v \in Supported(t) : End(t, Ok(v))
    /\ UNCHANGED <<judge, said>>

Next == \E t \in Tasks : \/ JudgeSays(t) \/ Answer(t) \/ Lose(t)
                         \/ \E w \in Rpcs : RpcSays(t, w)

Spec == Init /\ [][Next]_vars
==============================================================================
