------------------------------- MODULE Gateway -------------------------------
(***************************************************************************)
(* The process as a whole (main.rs, config.rs, server.rs, chains/): main   *)
(* starts the clients of the services that were asked for one after the    *)
(* other, each unwrapped, then the HTTP server.  A panic of main, a return *)
(* from it and the exit of a watchdog all end the process with everything  *)
(* in it; the container runtime starts it again.  The thread of a P2P      *)
(* client may die on its own: its handle stays, and its watchdog, which    *)
(* sleeps five minutes first, is to notice.                                *)
(*                                                                         *)
(* Requests pass a middleware that looks at the path and at the services   *)
(* asked for; the handler behind it unwraps the clients it uses.           *)
(***************************************************************************)
EXTENDS Integers, Sequences, FiniteSets

CONSTANTS
    Flags,      \* the command lines the process may have been started with
    MaxLosses   \* how often P2P clients die or fail to answer their watchdog

Services == {"btc", "doge", "eth", "op", "sol"}

(* What main starts, in its order.                                         *)
Stages == <<"registration", "eth", "op", "btc_p2p", "doge_p2p", "btc_node", "doge_node",
            "sol", "store">>

P2P == {"btc_p2p", "doge_p2p"}

Clients == P2P \cup {"eth", "op", "btc_node", "doge_node", "sol"}

(* The command line: start_filter; electrs_support; btc_only_p2p; and the  *)
(* clients whose own options are missing or wrong: a network whose name    *)
(* the client does not know, no cookie for a node, too few Solana URLs.    *)
FlagType == [filter : SUBSET Services, electrs : BOOLEAN, onlyP2P : BOOLEAN, wrong : SUBSET Clients]

ASSUME FlagAssumption == Flags \subseteq FlagType /\ MaxLosses \in Nat

VARIABLES
    flags,      \* the command line, the same after every restart
    pc,         \* "down", "starting", "serving" or "returned"
    step,       \* which of Stages main is at
    started,    \* the clients that are in ChainsState, not None
    alive,      \* the P2P clients whose thread still runs
    watch,      \* the watchdog of each P2P client
    answer,     \* how the last request went
    losses

process == <<pc, step, started, alive, watch, answer>>
vars == <<flags, process, losses>>

(* The service a stage is for; registration and store are for all.         *)
ServiceOf(s) == CASE s \in {"btc_p2p", "btc_node"}   -> {"btc"}
                  [] s \in {"doge_p2p", "doge_node"} -> {"doge"}
                  [] s \in {"eth", "op", "sol"}      -> {s}
                  [] s \in {"registration", "store"} -> {}

Wanted(s) == ServiceOf(s) \subseteq flags.filter

(* A wrong option is unwrapped at every start: no retry can mend it.       *)
Possible(s) == s \notin flags.wrong

(* The node is asked for its tip once, unless it is electrs that needs us; *)
(* building the Optimism client contacts nobody.                           *)
MayFail(s) == s # "op" /\ ~(s \in {"btc_node", "doge_node"} /\ flags.electrs)

(* The paths of the ping handler: one ends in any word, the others in a    *)
(* word that begins as a route of its own does.                            *)
Pings == {"/ping", "/ping/verify_tx", "/ping/verify_tx_doge"}

Routes == {"/status", "/verify_tx", "/verify_tx_doge",
           "/btc", "/doge", "/eth", "/eth2", "/optimism", "/sol"} \cup Pings

Unasked == [route |-> "none", how |-> "none"]
Off     == [n \in P2P |-> "off"]

Init ==
    /\ flags \in Flags
    /\ pc = "down" /\ step = 1
    /\ started = {} /\ alive = {} /\ watch = Off
    /\ answer = Unasked
    /\ losses = 0

(* Mutant of Gone: the P2P threads outlive main.                           *)
GoneButP2P(how) ==
    /\ pc' = how /\ step' = 1
    /\ started' = {} /\ alive' = alive /\ watch' = Off
    /\ answer' = Unasked

(* The process is gone, and with it all it had in memory.                  *)
Gone(how) ==
    /\ pc' = how /\ step' = 1
    /\ started' = {} /\ alive' = {} /\ watch' = Off
    /\ answer' = Unasked

------------------------------------------------------------------------------
(* main.                                                                   *)

(* The container runtime starts what has stopped, however it stopped.      *)
Restart ==
    /\ pc \in {"down", "returned"}
    /\ pc' = "starting"
    /\ UNCHANGED <<flags, step, started, alive, watch, answer, losses>>

At(s) == pc = "starting" /\ step <= Len(Stages) /\ Stages[step] = s

Skip(s) ==
    /\ At(s) /\ ~Wanted(s)
    /\ step' = step + 1
    /\ UNCHANGED <<flags, pc, started, alive, watch, answer, losses>>

(* A client is started, and for Ethereum has synchronised; a P2P client    *)
(* comes with its thread and its watchdog's.                               *)
Start(s) ==
    /\ At(s) /\ Wanted(s) /\ Possible(s)
    /\ step' = step + 1
    /\ started' = started \cup {s}
    /\ alive' = alive \cup ({s} \cap P2P)
    /\ watch' = IF s \in P2P THEN [watch EXCEPT ![s] = "asleep"] ELSE watch
    /\ UNCHANGED <<flags, pc, answer, losses>>

(* Mutant of StartFails: a service that cannot be started is left out.     *)
StartFailsQuietly(s) ==
    /\ At(s) /\ Wanted(s)
    /\ MayFail(s) \/ ~Possible(s)
    /\ step' = step + 1
    /\ UNCHANGED <<flags, pc, started, alive, watch, answer, losses>>

(* Every failure is unwrapped in main.                                     *)
StartFails(s) ==
    /\ At(s) /\ Wanted(s)
    /\ MayFail(s) \/ ~Possible(s)
    /\ Gone("down")
    /\ UNCHANGED <<flags, losses>>

(* start_server: without either flag main just returns.                    *)
Serve ==
    /\ pc = "starting" /\ step > Len(Stages)
    /\ IF flags.electrs \/ flags.onlyP2P
       THEN pc' = "serving" /\ UNCHANGED <<step, started, alive, watch, answer>>
       ELSE Gone("returned")
    /\ UNCHANGED <<flags, losses>>

(* The address cannot be bound.                                            *)
BindFails ==
    /\ pc = "starting" /\ step > Len(Stages)
    /\ flags.electrs \/ flags.onlyP2P
    /\ Gone("down")
    /\ UNCHANGED <<flags, losses>>

------------------------------------------------------------------------------
(* P2P clients and their watchdogs.                                        *)

(* client.run ends: its thread panics, which ends nothing else.            *)
ClientDies(n) ==
    /\ n \in alive
    /\ losses < MaxLosses
    /\ alive' = alive \ {n}
    /\ losses' = losses + 1
    /\ UNCHANGED <<flags, pc, step, started, watch, answer>>

(* Five minutes are over.                                                  *)
Wake(n) ==
    /\ watch[n] = "asleep"
    /\ watch' = [watch EXCEPT ![n] = "watching"]
    /\ UNCHANGED <<flags, pc, step, started, alive, answer, losses>>

(* Mutant of Exit: the watchdog panics, as a line left in the code would.  *)
ExitThread(n) ==
    /\ watch[n] = "watching"
    /\ n \notin alive
    /\ watch' = [watch EXCEPT ![n] = "off"]
    /\ UNCHANGED <<flags, pc, step, started, alive, answer, losses>>

(* get_tip fails as the client is no more.                                 *)
Exit(n) ==
    /\ watch[n] = "watching"
    /\ n \notin alive
    /\ Gone("down")
    /\ UNCHANGED <<flags, losses>>

(* get_tip fails once although the client lives, which is as fatal.        *)
ExitAnyway(n) ==
    /\ watch[n] = "watching"
    /\ n \in alive
    /\ losses < MaxLosses
    /\ losses' = losses + 1
    /\ Gone("down")
    /\ UNCHANGED flags

------------------------------------------------------------------------------
(* Requests.                                                               *)

(* is_service_enabled, on the path of a request for route r: a path that   *)
(* contains one of the verify routes counts as it, wherever it does.       *)
Enabled(r) ==
    CASE r \in {"/verify_tx_doge", "/ping/verify_tx_doge", "/doge"} -> "doge" \in flags.filter
      [] r \in {"/verify_tx", "/ping/verify_tx", "/btc"}            -> "btc" \in flags.filter
      [] r \in {"/eth", "/eth2"}            -> "eth" \in flags.filter
      [] r = "/optimism"                    -> "op" \in flags.filter
      [] r = "/sol"                         -> "sol" \in flags.filter
      [] r = "/status"                      -> TRUE
      [] OTHER                              -> FALSE

(* The clients the handler of r unwraps.                                   *)
Uses(r) ==
    CASE r = "/status"         -> {s \in P2P \cup {"eth", "op"} : Wanted(s)}
      [] r = "/verify_tx"      -> {"btc_p2p", "btc_node"}
      [] r = "/verify_tx_doge" -> {"doge_p2p", "doge_node"}
      [] r \in Pings           -> P2P
      [] r = "/btc"            -> {"btc_p2p"}
      [] r = "/doge"           -> {"doge_p2p"}
      [] r \in {"/eth", "/eth2"} -> {"eth"}
      [] r = "/optimism"       -> {"op"}
      [] r = "/sol"            -> {"sol"}

(* A dead P2P client is an error or no height for its handlers, unless     *)
(* the cache has the answer; ping unwraps what the client says.            *)
Outcomes(r) ==
    IF ~Enabled(r) THEN {"refused"}
    ELSE IF ~(Uses(r) \subseteq started) THEN {"panicked"}
    ELSE IF r \in Pings /\ ~(P2P \subseteq alive) THEN {"panicked"}
    ELSE {"served", "error"}

Request(r) ==
    /\ pc = "serving"
    /\ \E o \in Outcomes(r) : answer' = [route |-> r, how |-> o]
    /\ UNCHANGED <<flags, pc, step, started, alive, watch, losses>>

------------------------------------------------------------------------------
InStages == {Stages[k] : k \in 1 .. Len(Stages)}

Next ==
    \/ Restart
    \/ \E s \in InStages : Skip(s) \/ Start(s) \/ StartFails(s)
    \/ Serve
    \/ BindFails
    \/ \E n \in P2P : ClientDies(n) \/ Wake(n) \/ Exit(n) \/ ExitAnyway(n)
    \/ \E r \in Routes : Request(r)

Spec == Init /\ [][Next]_vars

(* The runtime restarts the container (--restart=unless-stopped); main and *)
(* the watchdogs are ordinary threads; an upstream that is tried at every  *)
(* start answers at some start, and for Ethereum gets synchronised.        *)
Fairness ==
    /\ WF_vars(Restart)
    /\ \A s \in InStages : WF_vars(Skip(s)) /\ SF_vars(Start(s))
    /\ SF_vars(Serve)
    /\ \A n \in P2P : WF_vars(Wake(n)) /\ WF_vars(Exit(n))

FairSpec == Spec /\ Fairness

------------------------------------------------------------------------------
(* Properties.                                                             *)

TypeOK ==
    /\ flags \in Flags
    /\ pc \in {"down", "starting", "serving", "returned"}
    /\ step \in 1 .. Len(Stages) + 1
    /\ started \subseteq InStages
    /\ alive \subseteq started \cap P2P
    /\ watch \in [P2P -> {"off", "asleep", "watching"}]
    /\ answer \in [route : Routes, how : {"refused", "served", "error", "panicked"}] \cup {Unasked}
    /\ losses \in 0 .. MaxLosses

(* On the routes a service is named for, the middleware, the handlers and  *)
(* main agree on what the service needs: no request that is let through    *)
(* meets a client that was not started, and none is refused whose clients  *)
(* were.  They do not agree on the paths of ping: there a handler may      *)
(* panic, though only for a P2P client that was not started or has died,   *)
(* and a request may be refused whose clients are there.                   *)
ServiceRoutesMatch ==
    /\ answer.how = "panicked" => answer.route \in Pings /\ ~(P2P \subseteq alive)
    /\ answer.how = "refused" /\ answer.route \notin Pings =>
           ~(Uses(answer.route) \subseteq started)

(* The command line lets the server run.                                   *)
CanServe == /\ flags.electrs \/ flags.onlyP2P
            /\ \A s \in InStages : Wanted(s) => Possible(s)

(* However often P2P clients die, fail to answer their watchdog or cannot  *)
(* be started, the process comes back and in the end serves with all its   *)
(* P2P clients alive: no dead client stays behind a server that runs on.   *)
ServesAgain == CanServe => <>[](pc = "serving" /\ started \cap P2P = alive)
==============================================================================
