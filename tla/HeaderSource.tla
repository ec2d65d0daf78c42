---------------------------- MODULE HeaderSource -----------------------------
(***************************************************************************)
(* What the indexer relies on when it asks its daemon client for new       *)
(* headers: it gets exactly those its list lacks, oldest first, or nothing *)
(* at all.  This is HeaderSync's action Fetch as a specification of its    *)
(* own; HeaderDownload is shown to implement it exchange by exchange.      *)
(***************************************************************************)
EXTENDS HeaderList

VARIABLES
    state,      \* "idle", "asked", "given" or "refused"
    list,       \* the header list the caller has
    target,     \* the block the caller wants to reach
    headers     \* what it was given

vars == <<state, list, target, headers>>

Init == state = "idle" /\ list = Empty /\ target = Null /\ headers = <<>>

Ask ==
    /\ state = "idle"
    /\ state' = "asked"
    /\ target' \in Blocks
    /\ DOMAIN list' = DOMAIN Empty
    /\ UNCHANGED headers

Give ==
    /\ state = "asked"
    /\ state' = "given"
    /\ headers' = NewHeaders(list, target)
    /\ UNCHANGED <<list, target>>

Refuse ==
    /\ state = "asked"
    /\ state' = "refused"
    /\ UNCHANGED <<list, target, headers>>

(* A list that knows the target already lacks nothing.                     *)
NothingNew ==
    /\ state = "idle"
    /\ state' = "given"
    /\ target' \in Blocks
    /\ NewHeaders(list', target') = <<>>
    /\ UNCHANGED headers

Next == Ask \/ Give \/ Refuse \/ NothingNew

Spec == Init /\ [][Next]_vars
==============================================================================
