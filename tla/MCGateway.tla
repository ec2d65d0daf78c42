------------------------------ MODULE MCGateway ------------------------------
(***************************************************************************)
(* An instance of Gateway for TLC.                                         *)
(***************************************************************************)
EXTENDS Gateway

CommandLine(filter, electrs, onlyP2P, wrong) ==
    [filter |-> filter, electrs |-> electrs, onlyP2P |-> onlyP2P, wrong |-> wrong]

(* Every choice of services; and some, with either flag and with a mistake *)
(* in the options of any one client.                                       *)
MCFlags ==
    {CommandLine(f, FALSE, TRUE, {}) : f \in SUBSET Services}
        \cup {CommandLine(f, e, o, w) :
                  f \in {{"btc", "doge"}, Services}, e, o \in BOOLEAN,
                  w \in {{}} \cup {{c} : c \in Clients}}
==============================================================================
