---------------------------- MODULE Gateway_proofs ----------------------------
(***************************************************************************)
(* Proofs about the process as a whole: type correctness, and that the     *)
(* middleware, the handlers and main agree on the clients the route of a   *)
(* service needs, for every set of command lines and any number of lost    *)
(* clients.                                                                *)
(***************************************************************************)
EXTENDS Gateway, TLAPS

(* What main starts, spelled out.                                          *)
LEMMA StageFacts ==
  /\ Len(Stages) = 9
  /\ \A k \in 1 .. 9 : Stages[k] \in InStages
  /\ InStages = {"registration", "eth", "op", "btc_p2p", "doge_p2p", "btc_node", "doge_node",
                 "sol", "store"}
<1>1. /\ Len(Stages) = 9
      /\ Stages[1] = "registration" /\ Stages[2] = "eth" /\ Stages[3] = "op"
      /\ Stages[4] = "btc_p2p" /\ Stages[5] = "doge_p2p" /\ Stages[6] = "btc_node"
      /\ Stages[7] = "doge_node" /\ Stages[8] = "sol" /\ Stages[9] = "store"
  BY DEF Stages
<1>2. \A k \in 1 .. 9 : k \in {1, 2, 3, 4, 5, 6, 7, 8, 9}
  OBVIOUS
<1>3. \A k \in {1, 2, 3, 4, 5, 6, 7, 8, 9} : k \in 1 .. 9
  OBVIOUS
<1>4. InStages = {Stages[k] : k \in {1, 2, 3, 4, 5, 6, 7, 8, 9}}
  BY <1>1, <1>2, <1>3 DEF InStages
<1> QED BY <1>1, <1>2, <1>4

(* The stages before the k-th that were asked for.                         *)
WantedBefore(k) == {Stages[i] : i \in {j \in 1 .. k - 1 : Wanted(Stages[j])}}

(* main starts what is wanted, in order, and serves once it has everything;*)
(* before it serves nobody was answered, and after it nothing is left.     *)
Progress ==
    /\ pc \in {"down", "returned"} => step = 1
    /\ started = WantedBefore(step)
    /\ pc = "serving" => step = 10
    /\ pc # "serving" => answer = Unasked
    /\ pc \in {"down", "returned"} => watch = Off

IInv == TypeOK /\ Progress

(* The process starts with nothing.                                        *)
LEMMA InitIInv == Init => IInv
<1> SUFFICES ASSUME Init PROVE IInv
  OBVIOUS
<1>1. WantedBefore(1) = {}
  BY DEF WantedBefore
<1>2. TypeOK
  BY FlagAssumption, StageFacts DEF Init, TypeOK, Off
<1>3. Progress
  BY <1>1 DEF Init, Progress
<1> QED BY <1>2, <1>3 DEF IInv

(* Nothing is left of a process that is gone.                              *)
LEMMA GoneIInv ==
  ASSUME IInv, NEW how \in {"down", "returned"}, Gone(how), flags' = flags,
         losses' \in 0 .. MaxLosses
  PROVE  IInv'
<1>1. WantedBefore(1)' = {}
  BY DEF WantedBefore
<1>2. TypeOK'
  BY StageFacts DEF IInv, TypeOK, Gone, Off
<1>3. Progress'
  BY <1>1 DEF Progress, Gone, Off
<1> QED BY <1>2, <1>3 DEF IInv

(* main's steps from stage to stage.                                       *)
LEMMA StageIInv ==
  ASSUME IInv, NEW s \in InStages, Skip(s) \/ Start(s)
  PROVE  IInv'
<1>1. /\ pc = "starting" /\ pc' = pc /\ flags' = flags /\ answer' = answer /\ losses' = losses
      /\ step \in 1 .. 9 /\ Stages[step] = s /\ step' = step + 1
  BY StageFacts DEF IInv, TypeOK, Skip, Start, At
<1>2. \A u : Wanted(u)' <=> Wanted(u)
  BY <1>1 DEF Wanted
<1>3. WantedBefore(step)' = WantedBefore(step) \cup {u \in {s} : Wanted(u)}
  <2>1. \A j \in 1 .. step' - 1 : j \in 1 .. step - 1 \/ j = step
    BY <1>1
  <2>2. \A j \in 1 .. step - 1 : j \in 1 .. step' - 1
    BY <1>1
  <2>3. step \in 1 .. step' - 1
    BY <1>1
  <2> QED BY <1>1, <1>2, <2>1, <2>2, <2>3 DEF WantedBefore
<1>4. CASE Skip(s)
  <2>1. UNCHANGED <<started, alive, watch>> /\ ~Wanted(s)
    BY <1>4 DEF Skip
  <2>2. TypeOK'
    BY <1>1, <2>1, StageFacts DEF IInv, TypeOK
  <2>3. Progress'
    BY <1>1, <1>3, <2>1 DEF IInv, Progress
  <2> QED BY <2>2, <2>3 DEF IInv
<1>5. CASE Start(s)
  <2>1. /\ started' = started \cup {s} /\ alive' = alive \cup ({s} \cap P2P) /\ Wanted(s)
        /\ watch' = IF s \in P2P THEN [watch EXCEPT ![s] = "asleep"] ELSE watch
    BY <1>5 DEF Start
  <2>2. TypeOK'
    <3>1. watch' \in [P2P -> {"off", "asleep", "watching"}]
      BY <2>1 DEF IInv, TypeOK
    <3>2. alive' \subseteq started' \cap P2P /\ started' \subseteq InStages
      BY <2>1 DEF IInv, TypeOK
    <3> QED BY <1>1, <3>1, <3>2, StageFacts DEF IInv, TypeOK
  <2>3. Progress'
    BY <1>1, <1>3, <2>1 DEF IInv, Progress
  <2> QED BY <2>2, <2>3 DEF IInv
<1> QED BY <1>4, <1>5

(* Every step keeps the invariant.                                         *)
LEMMA NextIInv == IInv /\ [Next]_vars => IInv'
<1> SUFFICES ASSUME IInv, [Next]_vars PROVE IInv'
  OBVIOUS
<1>0. ASSUME flags' = flags, step' = step PROVE WantedBefore(step)' = WantedBefore(step)
  BY <1>0 DEF WantedBefore, Wanted
<1>1. CASE Restart
  BY <1>0, <1>1 DEF Restart, IInv, TypeOK, Progress
<1>2. ASSUME NEW s \in InStages, Skip(s) \/ Start(s) PROVE IInv'
  BY <1>2, StageIInv
<1>3. ASSUME NEW s \in InStages, StartFails(s) PROVE IInv'
  BY <1>3, GoneIInv DEF StartFails, IInv, TypeOK
<1>4. CASE Serve
  <2>1. CASE flags.electrs \/ flags.onlyP2P
    <3>1. pc' = "serving" /\ pc = "starting" /\ UNCHANGED <<flags, step, started, alive, watch, answer, losses>>
      BY <1>4, <2>1 DEF Serve
    <3>2. step = 10
      BY <1>4, StageFacts DEF Serve, IInv, TypeOK
    <3> QED BY <1>0, <3>1, <3>2 DEF IInv, TypeOK, Progress
  <2>2. CASE ~(flags.electrs \/ flags.onlyP2P)
    BY <1>4, <2>2, GoneIInv DEF Serve, IInv, TypeOK
  <2> QED BY <2>1, <2>2
<1>5. CASE BindFails
  BY <1>5, GoneIInv DEF BindFails, IInv, TypeOK
<1>6. ASSUME NEW n \in P2P, ClientDies(n) PROVE IInv'
  <2>1. losses' \in 0 .. MaxLosses
    BY <1>6, FlagAssumption DEF ClientDies, IInv, TypeOK
  <2> QED BY <1>0, <1>6, <2>1 DEF ClientDies, IInv, TypeOK, Progress
<1>7. ASSUME NEW n \in P2P, Wake(n) PROVE IInv'
  <2>1. pc \notin {"down", "returned"}
    BY <1>7 DEF Wake, IInv, Progress, Off
  <2> QED BY <1>0, <1>7, <2>1 DEF Wake, IInv, TypeOK, Progress
<1>8. ASSUME NEW n \in P2P, Exit(n) PROVE IInv'
  BY <1>8, GoneIInv DEF Exit, IInv, TypeOK
<1>9. ASSUME NEW n \in P2P, ExitAnyway(n) PROVE IInv'
  <2>1. losses' \in 0 .. MaxLosses
    BY <1>9, FlagAssumption DEF ExitAnyway, IInv, TypeOK
  <2> QED BY <1>9, <2>1, GoneIInv DEF ExitAnyway
<1>10. ASSUME NEW r \in Routes, Request(r) PROVE IInv'
  <2>1. Outcomes(r) \subseteq {"refused", "served", "error", "panicked"}
    BY DEF Outcomes
  <2> QED BY <1>0, <1>10, <2>1 DEF Request, IInv, TypeOK, Progress
<1>11. CASE UNCHANGED vars
  BY <1>0, <1>11 DEF vars, process, IInv, TypeOK, Progress
<1> QED BY <1>1, <1>2, <1>3, <1>4, <1>5, <1>6, <1>7, <1>8, <1>9, <1>10, <1>11 DEF Next

(* main starts what was asked for, in order, or nothing stays.             *)
THEOREM StartsInOrder == Spec => []IInv
  BY InitIInv, NextIInv, PTL DEF Spec

(* Type correctness.                                                       *)
THEOREM TypeCorrect == Spec => []TypeOK
  BY StartsInOrder, PTL DEF IInv

------------------------------------------------------------------------------
(* Routes and clients.                                                     *)

(* A server that serves has exactly the clients that were asked for.       *)
LEMMA ServingAll ==
  ASSUME IInv, pc = "serving"
  PROVE  started = {s \in InStages : Wanted(s)}
<1>1. started = WantedBefore(10)
  BY DEF IInv, Progress
<1>2. \A j : j \in 1 .. 10 - 1 <=> j \in 1 .. Len(Stages)
  BY StageFacts
<1> QED BY <1>1, <1>2 DEF WantedBefore, InStages

(* The middleware lets the route of a service pass exactly when its        *)
(* clients are started.                                                    *)
LEMMA EnabledIffStarted ==
  ASSUME IInv, pc = "serving", NEW r \in Routes \ Pings
  PROVE  Enabled(r) <=> Uses(r) \subseteq started
<1>1. \A s \in InStages : s \in started <=> Wanted(s)
  BY ServingAll
<1>2. /\ "btc_p2p" \in InStages /\ "doge_p2p" \in InStages /\ "btc_node" \in InStages
      /\ "doge_node" \in InStages /\ "eth" \in InStages /\ "op" \in InStages /\ "sol" \in InStages
  BY StageFacts
<1>3. /\ "btc_p2p" \in started <=> "btc" \in flags.filter
      /\ "btc_node" \in started <=> "btc" \in flags.filter
      /\ "doge_p2p" \in started <=> "doge" \in flags.filter
      /\ "doge_node" \in started <=> "doge" \in flags.filter
      /\ "eth" \in started <=> "eth" \in flags.filter
      /\ "op" \in started <=> "op" \in flags.filter
      /\ "sol" \in started <=> "sol" \in flags.filter
  BY <1>1, <1>2 DEF Wanted, ServiceOf
<1>4. CASE r = "/status"
  <2>1. Uses(r) \subseteq started
    BY <1>1, <1>2, <1>4 DEF Uses, P2P
  <2> QED BY <1>4, <2>1 DEF Enabled
<1>5. CASE r \in {"/verify_tx", "/btc"}
  BY <1>3, <1>5 DEF Enabled, Uses
<1>6. CASE r \in {"/verify_tx_doge", "/doge"}
  BY <1>3, <1>6 DEF Enabled, Uses
<1>7. CASE r \in {"/eth", "/eth2"}
  BY <1>3, <1>7 DEF Enabled, Uses
<1>8. CASE r \in {"/optimism", "/sol"}
  BY <1>3, <1>8 DEF Enabled, Uses
<1> QED BY <1>4, <1>5, <1>6, <1>7, <1>8 DEF Routes, Pings

(* On the routes a service is named for, no request that is let through    *)
(* meets a client that was not started, and none is refused whose clients  *)
(* were; what panics is ping, for a P2P client that is missing or dead.    *)
THEOREM RoutesMatch == Spec => []ServiceRoutesMatch
<1>1. Init => ServiceRoutesMatch
  BY DEF Init, ServiceRoutesMatch, Unasked, Routes, Pings
<1>2. IInv /\ IInv' /\ ServiceRoutesMatch /\ [Next]_vars => ServiceRoutesMatch'
  <2> SUFFICES ASSUME IInv, IInv', ServiceRoutesMatch, [Next]_vars PROVE ServiceRoutesMatch'
    OBVIOUS
  <2>1. CASE alive' \subseteq alive /\ UNCHANGED <<answer, started, flags>>
    <3>1. \A r : Uses(r)' = Uses(r)
      BY <2>1 DEF Uses, Wanted
    <3> QED BY <2>1, <3>1 DEF ServiceRoutesMatch
  <2>2. CASE answer' = Unasked
    BY <2>2 DEF ServiceRoutesMatch, Unasked, Routes, Pings
  <2>3. ASSUME NEW r \in Routes, Request(r) PROVE ServiceRoutesMatch'
    <3>1. PICK o \in Outcomes(r) : answer' = [route |-> r, how |-> o]
      BY <2>3 DEF Request
    <3>2. pc = "serving" /\ UNCHANGED <<started, alive, flags>>
      BY <2>3 DEF Request
    <3>3. Uses(r)' = Uses(r)
      BY <3>2 DEF Uses, Wanted
    <3>4. r \notin Pings => /\ o # "panicked"
                            /\ o = "refused" => ~(Uses(r) \subseteq started)
      BY <3>2, EnabledIffStarted DEF Outcomes
    <3>5. r \in Pings /\ o = "panicked" => ~(P2P \subseteq alive)
      BY DEF Outcomes, Uses, IInv, TypeOK, Pings
    <3> QED BY <3>1, <3>2, <3>3, <3>4, <3>5 DEF ServiceRoutesMatch
  <2>4. ASSUME NEW s \in InStages, Skip(s) \/ Start(s) PROVE answer' = Unasked
    BY <2>4 DEF Skip, Start, At, IInv, Progress
  <2>5. ASSUME NEW s \in InStages, StartFails(s) PROVE answer' = Unasked
    BY <2>5 DEF StartFails, Gone
  <2>6. Serve \/ BindFails => answer' = Unasked
    BY DEF Serve, BindFails, Gone, IInv, Progress
  <2>7. ASSUME NEW n \in P2P, Exit(n) \/ ExitAnyway(n) PROVE answer' = Unasked
    BY <2>7 DEF Exit, ExitAnyway, Gone
  <2>8. ASSUME NEW n \in P2P, ClientDies(n) \/ Wake(n) 
        PROVE alive' \subseteq alive /\ UNCHANGED <<answer, started, flags>>
    BY <2>8 DEF ClientDies, Wake
  <2>9. Restart \/ UNCHANGED vars => UNCHANGED <<answer, started, alive, flags>>
    BY DEF Restart, vars, process
  <2> QED BY <2>1, <2>2, <2>3, <2>4, <2>5, <2>6, <2>7, <2>8, <2>9 DEF Next
<1> QED BY <1>1, <1>2, StartsInOrder, PTL DEF Spec
===============================================================================
