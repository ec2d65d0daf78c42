----------------------------- MODULE HeaderList ------------------------------
(***************************************************************************)
(* The in-memory header list (header.rs): the headers by height, a map     *)
(* from hashes to heights that is never cleaned, and the operations that   *)
(* look a hash up, give heights to new headers and splice them in.         *)
(* The entry at height k of the list is headers[k + 1].                    *)
(***************************************************************************)
EXTENDS BlockTree

Absent == -1        \* a hash the map has never seen

Empty == [headers |-> <<>>, heights |-> [b \in Blocks |-> Absent]]

Tip(l) == IF l.headers = <<>> THEN Null ELSE l.headers[Len(l.headers)]

(* Mutant of Known: the height of the map is trusted.                      *)
KnownByMap(l, b) == l.heights[b] # Absent /\ l.heights[b] < Len(l.headers)

(* header_by_blockhash: the map may still name a height another block has  *)
(* taken over since, so the header found there is compared.                *)
Known(l, b) ==
    /\ l.heights[b] # Absent
    /\ l.heights[b] < Len(l.headers)
    /\ l.headers[l.heights[b] + 1] = b

(* What Daemon::get_new_headers is asked for: the headers of the chain of  *)
(* b that come after the last one the list knows.                          *)
KnownUpTo(l, b) == {i \in 1 .. Len(Chain[b]) : Known(l, Chain[b][i])}

NewHeaders(l, b) ==
    IF KnownUpTo(l, b) = {} THEN Chain[b]
    ELSE LET k == CHOOSE i \in KnownUpTo(l, b) : \A j \in KnownUpTo(l, b) : j <= i
         IN  SubSeq(Chain[b], k + 1, Len(Chain[b]))

(* order: heights for a linked batch, counted from its known predecessor.  *)
Ordered(l, batch) ==
    LET prev == Prev[batch[1]]
        base == IF prev = Null THEN 0 ELSE l.heights[prev] + 1
    IN  [k \in 1 .. Len(batch) |-> [hash |-> batch[k], height |-> base + k - 1]]

(* The assertions apply makes of its batch before it looks at the list.    *)
Linked(es) ==
    \A i \in 2 .. Len(es) : /\ es[i - 1].height + 1 = es[i].height
                            /\ es[i - 1].hash = Prev[es[i].hash]

(* The list is long enough for apply to index the predecessor's height.    *)
InBounds(l, es) == es # <<>> => es[1].height <= Len(l.headers)

Attaches(l, es) ==
    /\ es # <<>>
    /\ Prev[es[1].hash] = IF es[1].height > 0 THEN l.headers[es[1].height] ELSE Null

(* apply: cut the list at the batch's first height and push the batch; a   *)
(* batch that does not attach leaves the list alone, without a word.       *)
Applied(l, es) ==
    IF ~Attaches(l, es) THEN l
    ELSE [headers |-> SubSeq(l.headers, 1, es[1].height) \o [k \in 1 .. Len(es) |-> es[k].hash],
          heights |-> [b \in Blocks |->
                          IF \E k \in 1 .. Len(es) : es[k].hash = b
                          THEN es[CHOOSE k \in 1 .. Len(es) : es[k].hash = b].height
                          ELSE l.heights[b]]]

(* HeaderList::new: walk from the stored tip back to the all-zero hash,    *)
(* then build the list in one batch.  The walk panics when it meets a hash *)
(* that is not among the stored headers.                                   *)
Walkable(stored, tip) == tip # Null => On(tip) \subseteq stored

Loaded(tip) == IF tip = Null THEN Empty ELSE Applied(Empty, Ordered(Empty, Chain[tip]))
==============================================================================
