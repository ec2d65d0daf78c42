----------------------------- MODULE HeaderSync ------------------------------
(***************************************************************************)
(* Header synchronisation: the thread of start_indexer (main.rs), which    *)
(* follows the daemon's best block with Indexer::sync_headers (index.rs),  *)
(* the RocksDB store it writes (store.rs) and the header list it keeps     *)
(* (header.rs).  The process may crash between any two writes; opening the *)
(* store again rebuilds the list from the rows on disk.                    *)
(***************************************************************************)
EXTENDS HeaderList, FiniteSets

CONSTANT ChunkRows      \* rows of one write batch (50000 in the code)

ASSUME ChunkAssumption == ChunkRows \in Nat \ {0}

VARIABLES
    dtip,       \* the daemon's best block
    bRows,      \* on disk: blocks with a "b" row, which holds the header
    dRows,      \* on disk: blocks with a "D" row, which marks them done
    tRow,       \* on disk: the "t" row, Null while it was never written
    list,       \* Store.sync_headers
    synced,     \* Store.synced_blockhashes
    pc,         \* where the thread stands
    first,      \* the thread is in its first round, whose errors it unwraps
    tip,        \* the thread's tip: the best block of its last good round
    target,     \* the best block of this round
    toAdd,      \* the entries of this round that are to be added
    written     \* how many rows of toAdd have been written

disk   == <<bRows, dRows, tRow>>
memory == <<list, synced>>
locals == <<first, tip, target, toAdd, written>>
vars == <<dtip, disk, memory, pc, locals>>

(* The first block is the daemon's from the start.                         *)
Init ==
    /\ dtip \in {b \in Blocks : Prev[b] = Null}
    /\ bRows = {} /\ dRows = {} /\ tRow = Null
    /\ list = Empty /\ synced = {}
    /\ pc = "down"
    /\ first = TRUE /\ tip = Null /\ target = Null /\ toAdd = <<>> /\ written = 0

(* The daemon adopts a chain with more work, which may be a reorganisation.*)
DaemonMoves ==
    /\ \E b \in Blocks : Work[b] > Work[dtip] /\ dtip' = b
    /\ UNCHANGED <<disk, memory, pc, locals>>

------------------------------------------------------------------------------
(* Store::open, which also starts the thread; a store whose headers do not *)
(* reach the first block cannot be opened.                                 *)
Open ==
    /\ pc = "down"
    /\ IF Walkable(bRows, tRow)
       THEN /\ list' = Loaded(tRow)
            /\ synced' = dRows
            /\ pc' = "best"
       ELSE /\ pc' = "unopenable"
            /\ UNCHANGED memory
    /\ first' = TRUE /\ tip' = Null /\ target' = Null /\ toAdd' = <<>> /\ written' = 0
    /\ UNCHANGED <<dtip, disk>>

(* Power, enclave or process is lost: what was written stays.              *)
Crash ==
    /\ pc # "down"
    /\ pc' = "down"
    /\ list' = Empty /\ synced' = {}
    /\ first' = TRUE /\ tip' = Null /\ target' = Null /\ toAdd' = <<>> /\ written' = 0
    /\ UNCHANGED <<dtip, disk>>

(* An error ends the first round and with it the thread; a later round is  *)
(* tried again.                                                            *)
RoundFails == pc' = IF first THEN "dead" ELSE "best"

(* getbestblockhash: a round starts when the best block is a new one.      *)
GetBest ==
    /\ pc = "best"
    /\ first \/ dtip # tip
    /\ target' = dtip
    /\ pc' = "fetch"
    /\ UNCHANGED <<dtip, disk, memory, first, tip, toAdd, written>>

GetBestFails ==
    /\ pc = "best"
    /\ RoundFails
    /\ UNCHANGED <<dtip, disk, memory, locals>>

------------------------------------------------------------------------------
(* Indexer::sync_headers.                                                  *)

(* get_all_headers, for an empty list, goes by height: the heights are     *)
(* those of the daemon's chain of the moment, and its assertions fail when *)
(* that chain no longer goes through the target.                           *)
Misfetched == list.headers = <<>> /\ target \notin On(dtip)

(* sync_headers_to_add: the entries that are not done yet, in their order. *)
NotDone(es) ==
    LET left == {i \in 1 .. Len(es) : es[i].hash \notin synced}
    IN  [k \in 1 .. Cardinality(left) |->
            es[CHOOSE i \in left : Cardinality({j \in left : j <= i}) = k]]

(* Mutant of Fetch: the rows of the last round count as written.           *)
FetchWithoutReset ==
    /\ pc = "fetch"
    /\ LET new == NewHeaders(list, target)
           entries == IF new = <<>> THEN <<>> ELSE Ordered(list, new)
       IN  toAdd' = NotDone(entries)
    /\ pc' = "write"
    /\ UNCHANGED <<dtip, disk, memory, first, tip, target, written>>

Fetch ==
    /\ pc = "fetch"
    /\ IF Misfetched
       THEN pc' = "dead" /\ UNCHANGED <<toAdd, written>>
       ELSE LET new == NewHeaders(list, target)
                entries == IF new = <<>> THEN <<>> ELSE Ordered(list, new)
            IN  /\ toAdd' = NotDone(entries)
                /\ written' = 0
                /\ pc' = "write"
    /\ UNCHANGED <<dtip, disk, memory, first, tip, target>>

FetchFails ==
    /\ pc = "fetch"
    /\ RoundFails
    /\ UNCHANGED <<dtip, disk, memory, locals>>

(* A reply with no result in it, or headers that are not linked up to the  *)
(* target, meet an assertion, which ends the thread in a later round too.  *)
AskPanics ==
    /\ pc \in {"best", "fetch"}
    /\ pc' = "dead"
    /\ UNCHANGED <<dtip, disk, memory, locals>>

(* Mutant of RowOf: the newest header comes first.                         *)
RowOfReversed(i) == toAdd[Len(toAdd) + 1 - (i + 1) \div 2].hash

(* Rows are laid out header by header, the "b" row before the "D" row.     *)
RowOf(i) == toAdd[(i + 1) \div 2].hash
Until(i) == IF i < 2 * Len(toAdd) THEN i ELSE 2 * Len(toAdd)
Chunk    == written + 1 .. Until(written + ChunkRows)

(* One batch of rows, written atomically and synced.                       *)
WriteChunk ==
    /\ pc = "write"
    /\ written < 2 * Len(toAdd)
    /\ bRows' = bRows \cup {RowOf(i) : i \in {j \in Chunk : j % 2 = 1}}
    /\ dRows' = dRows \cup {RowOf(i) : i \in {j \in Chunk : j % 2 = 0}}
    /\ written' = Until(written + ChunkRows)
    /\ UNCHANGED <<dtip, tRow, memory, pc, first, tip, target, toAdd>>

(* Mutant of PutTip: the tip row is written with the first batch of rows.  *)
PutTipEarly ==
    /\ pc = "write"
    /\ synced' = synced \cup {toAdd[k].hash : k \in 1 .. Len(toAdd)}
    /\ tRow' = target
    /\ pc' = "apply"
    /\ UNCHANGED <<dtip, bRows, dRows, list, first, tip, target, toAdd, written>>

(* All rows are written: the set of synced hashes grows and the tip row is *)
(* written, whether or not the list will take the headers.                 *)
PutTip ==
    /\ pc = "write"
    /\ written = 2 * Len(toAdd)
    /\ synced' = synced \cup {toAdd[k].hash : k \in 1 .. Len(toAdd)}
    /\ tRow' = target
    /\ pc' = "apply"
    /\ UNCHANGED <<dtip, bRows, dRows, list, first, tip, target, toAdd, written>>

(* Mutant of Apply: a list that did not take the batch is not reloaded.    *)
ApplyWithoutReload ==
    /\ pc = "apply"
    /\ IF ~Linked(toAdd) \/ ~InBounds(list, toAdd)
       THEN pc' = "dead" /\ UNCHANGED <<list, first, tip>>
       ELSE /\ list' = Applied(list, toAdd)
            /\ IF Tip(list') = target
               THEN pc' = "best" /\ first' = FALSE /\ tip' = target
               ELSE RoundFails /\ UNCHANGED <<first, tip>>
    /\ UNCHANGED <<dtip, disk, synced, target, toAdd, written>>

(* apply under the write lock, then the comparison of the tips.  A failing *)
(* assertion or an index beyond the list kills the thread, lock in hand.   *)
Apply ==
    /\ pc = "apply"
    /\ IF ~Linked(toAdd) \/ ~InBounds(list, toAdd)
       THEN pc' = "dead" /\ UNCHANGED <<list, first, tip>>
       ELSE /\ list' = Applied(list, toAdd)
            /\ IF Tip(list') = target
               THEN pc' = "best" /\ first' = FALSE /\ tip' = target
               ELSE pc' = "reload" /\ UNCHANGED <<first, tip>>
    /\ UNCHANGED <<dtip, disk, synced, target, toAdd, written>>

(* Mutant of Reload: the set is read back, the list is not rebuilt.        *)
ReloadSetOnly ==
    /\ pc = "reload"
    /\ IF Walkable(bRows, tRow)
       THEN synced' = dRows /\ RoundFails /\ UNCHANGED list
       ELSE pc' = "dead" /\ UNCHANGED memory
    /\ UNCHANGED <<dtip, disk, locals>>

(* reload_store: list and set are read back from disk; the round still     *)
(* counts as failed.                                                       *)
Reload ==
    /\ pc = "reload"
    /\ IF Walkable(bRows, tRow)
       THEN list' = Loaded(tRow) /\ synced' = dRows /\ RoundFails
       ELSE pc' = "dead" /\ UNCHANGED memory
    /\ UNCHANGED <<dtip, disk, locals>>

------------------------------------------------------------------------------
Next ==
    \/ DaemonMoves
    \/ Open
    \/ Crash
    \/ GetBest
    \/ GetBestFails
    \/ Fetch
    \/ FetchFails
    \/ AskPanics
    \/ WriteChunk
    \/ PutTip
    \/ Apply
    \/ Reload

Spec == Init /\ [][Next]_vars

(* The thread is an ordinary thread of a running process; a daemon that is *)
(* asked again and again answers at some time.  Crashes are never due, and *)
(* neither is a restart, which is the container runtime's affair.          *)
Fairness ==
    /\ SF_vars(GetBest)
    /\ SF_vars(Fetch)
    /\ WF_vars(WriteChunk)
    /\ WF_vars(PutTip)
    /\ WF_vars(Apply)
    /\ WF_vars(Reload)

FairSpec == Spec /\ Fairness

------------------------------------------------------------------------------
(* Properties.                                                             *)

Entry == [hash : Blocks, height : Nat]

TypeOK ==
    /\ dtip \in Blocks
    /\ bRows \subseteq Blocks
    /\ dRows \subseteq Blocks
    /\ tRow \in Blocks \cup {Null}
    /\ list \in [headers : Seq(Blocks), heights : [Blocks -> Nat \cup {Absent}]]
    /\ synced \subseteq Blocks
    /\ pc \in {"down", "best", "fetch", "write", "apply", "reload", "dead", "unopenable"}
    /\ first \in BOOLEAN
    /\ tip \in Blocks \cup {Null}
    /\ target \in Blocks \cup {Null}
    /\ toAdd \in Seq(Entry)
    /\ written \in 0 .. 2 * Len(toAdd)

(* The store can be opened whenever the process dies: all headers from the *)
(* tip row down to the first block are on disk, so HeaderList::new never   *)
(* panics, be it in Store::open or in reload_store.                        *)
Recoverable == Walkable(bRows, tRow)

(* A block that is marked done has its own header and those of all its     *)
(* ancestors on disk and marked done: skipping done blocks leaves no gap.  *)
DoneIsClosed == \A b \in dRows : b \in bRows /\ On(b) \subseteq dRows

(* The list is the chain of its last header, whatever was reorganised, and *)
(* a lookup by hash finds exactly the headers that are in it, although the *)
(* map keeps the heights of headers that were cut off.                     *)
ListIsChain ==
    /\ list.headers # <<>> => list.headers = Chain[Tip(list)]
    /\ \A b \in Blocks : Known(list, b) <=> b \in {list.headers[i] : i \in 1 .. Len(list.headers)}

(* The assertions apply makes of its batch hold: what is left of the new   *)
(* headers once the done ones are skipped is linked without a gap.         *)
BatchIsLinked == pc \in {"write", "apply"} => Linked(toAdd)

(* When a round ends, however it ended, list and set in memory are those a *)
(* restart would load, and a round that only reads leaves them so.         *)
MemoryMatchesDisk == pc \in {"best", "fetch"} => Tip(list) = tRow /\ synced = dRows

(* After its first round the thread survives what it does with headers it  *)
(* has fetched and written: the list takes them, or the round fails, which *)
(* is said to be retried in 30 seconds.                                    *)
LoopSurvives == [][~first /\ pc = "apply" => pc' # "dead"]_vars

(* If the process stays up and the thread alive, the list ends up at the   *)
(* daemon's best block and stays there.                                    *)
CatchesUp == <>[](pc \notin {"down", "dead"}) => <>[](Tip(list) = dtip)
==============================================================================
