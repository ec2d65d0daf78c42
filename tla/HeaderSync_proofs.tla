-------------------------- MODULE HeaderSync_proofs ---------------------------
(***************************************************************************)
(* What header synchronisation guarantees, whatever the tree of blocks and *)
(* the size of a write batch, and wherever the process dies.  The          *)
(* inductive invariant describes the disk, which a crash leaves as it is,  *)
(* the list in memory, and what is left to do of a round: its batch is the *)
(* part of the target's chain after the headers that are done, and its     *)
(* rows are on disk as far as they were written.                           *)
(***************************************************************************)
EXTENDS HeaderSync, HeaderList_proofs

USE DEF disk, memory, locals, vars

(* What is done has its header and its ancestors, and so has the tip row.  *)
Disk ==
    /\ dRows \subseteq bRows /\ bRows \subseteq Blocks
    /\ \A b \in dRows : On(b) \subseteq dRows
    /\ tRow \in dRows \cup {Null}

(* The first m headers of the target's chain are done, the others to add.  *)
Batch(m) ==
    /\ toAdd = Part(target, m)
    /\ \A i \in 1 .. m : Chain[target][i] \in dRows

(* The headers whose second row has been written.                          *)
WrittenTo(n) == {toAdd[k].hash : k \in {j \in 1 .. Len(toAdd) : 2 * j <= n}}

Round ==
    /\ pc \in {"fetch", "write", "apply", "reload"} => target \in Blocks
    /\ pc \in {"write", "apply"} => \E m \in 0 .. Len(Chain[target]) : Batch(m)
    /\ pc = "write" =>
          /\ Tip(list) = tRow
          /\ dRows = synced \cup WrittenTo(written)
          /\ \A k \in 1 .. Len(toAdd) : 2 * k - 1 <= written => toAdd[k].hash \in bRows
    /\ pc \in {"apply", "reload"} => synced = dRows /\ tRow = target
    /\ pc \in {"best", "fetch"} => synced = dRows /\ Tip(list) = tRow

Types ==
    /\ dtip \in Blocks
    /\ synced \subseteq Blocks
    /\ pc \in {"down", "best", "fetch", "write", "apply", "reload", "dead", "unopenable"}
    /\ first \in BOOLEAN
    /\ tip \in Blocks \cup {Null}
    /\ target \in Blocks \cup {Null}
    /\ toAdd \in Seq(Entry)
    /\ written \in 0 .. 2 * Len(toAdd)

SyncInv == Types /\ Disk /\ GoodList(list) /\ Round

(* The thread's locals, as a restart sets them.                            *)
LEMMA NoRows ==
  <<>> \in Seq(Entry) /\ Len(<<>>) = 0 /\ 0 \in 0 .. 2 * Len(<<>>)
<1>1. <<>> \in Seq(Entry) /\ Len(<<>>) = 0
  BY EmptySeq
<1> QED BY <1>1

(* The tip row leads down to the first block.                              *)
LEMMA DiskRecovers == ASSUME Disk PROVE Recoverable /\ DoneIsClosed
<1>1. tRow # Null => On(tRow) \subseteq bRows
  BY DEF Disk
<1> QED BY <1>1 DEF Disk, Recoverable, Walkable, DoneIsClosed

(* Of a list of entries of which exactly the first j are done, the rest is *)
(* to be added.                                                            *)
LEMMA RestIsLeft ==
  ASSUME NEW es, Len(es) \in Nat, NEW j \in 0 .. Len(es),
         \A i \in 1 .. Len(es) : es[i].hash \in synced <=> i <= j
  PROVE  NotDone(es) = [k \in 1 .. Len(es) - j |-> es[j + k]]
<1> DEFINE n == Len(es)
           left == {i \in 1 .. n : es[i].hash \notin synced}
           upTo(i) == {x \in left : x <= i}
           pick(k) == CHOOSE i \in left : Cardinality(upTo(i)) = k
<1>1. left = j + 1 .. n
  OBVIOUS
<1>2. Cardinality(left) = n - j
  <2>1. j + 1 \in Int /\ n \in Int
    OBVIOUS
  <2>2. Cardinality(j + 1 .. n) = IF j + 1 > n THEN 0 ELSE n - (j + 1) + 1
    BY <2>1, FS_Interval
  <2> HIDE DEF left
  <2> QED BY <1>1, <2>2
<1>3. ASSUME NEW i \in left PROVE Cardinality(upTo(i)) = i - j
  <2>1. i \in j + 1 .. n
    BY <1>1
  <2>2. upTo(i) = j + 1 .. i
    <3> HIDE DEF left
    <3> QED BY <1>1, <2>1
  <2>3. Cardinality(j + 1 .. i) = IF j + 1 > i THEN 0 ELSE i - (j + 1) + 1
    BY <2>1, FS_Interval
  <2> HIDE DEF upTo
  <2> QED BY <2>1, <2>2, <2>3
<1>4. ASSUME NEW k \in 1 .. n - j PROVE pick(k) = j + k
  <2> HIDE DEF upTo, left
  <2>1. j + k \in left
    BY <1>1
  <2>2. \A i \in left : Cardinality(upTo(i)) = k <=> i = j + k
    BY <1>1, <1>3
  <2> QED BY <2>1, <2>2
<1>5. NotDone(es) = [k \in 1 .. Cardinality(left) |-> es[pick(k)]]
  BY DEF NotDone
<1> HIDE DEF pick, left
<1> QED BY <1>2, <1>4, <1>5

(* What a round is to add is the part of the chain after the done headers. *)
LEMMA FetchedBatch ==
  ASSUME Disk, GoodList(list), target \in Blocks, synced = dRows, Tip(list) = tRow
  PROVE  \E m \in 0 .. Len(Chain[target]) :
            /\ NotDone(IF NewHeaders(list, target) = <<>> THEN <<>> ELSE Ordered(list, NewHeaders(list, target)))
                  = Part(target, m)
            /\ \A i \in 1 .. m : Chain[target][i] \in dRows
<1> DEFINE c == Chain[target]
           n == Len(c)
           es == IF NewHeaders(list, target) = <<>> THEN <<>> ELSE Ordered(list, NewHeaders(list, target))
<1>1. PICK k \in 0 .. n : (k > 0 => Known(list, c[k])) /\ es = Part(target, k)
  BY NewIsPart
<1>2. /\ n \in Nat \ {0} /\ c[n] = target
      /\ \A i \in 1 .. n : c[i] \in Blocks /\ c[i] \in On(target)
  BY ChainEnds DEF On
<1>3. ASSUME NEW i \in 1 .. n, c[i] \in dRows, NEW h \in 1 .. i PROVE c[h] \in dRows
  <2>1. Chain[c[i]] = SubSeq(c, 1, i) /\ Len(Chain[c[i]]) = i
    BY ChainPrefix
  <2>2. Chain[c[i]][h] = c[h]
    BY <1>2, <2>1
  <2>3. c[h] \in On(c[i])
    BY <2>1, <2>2 DEF On
  <2> QED BY <1>3, <2>3 DEF Disk
<1>4. k > 0 => c[k] \in dRows
  <2> SUFFICES ASSUME k > 0 PROVE c[k] \in dRows
    OBVIOUS
  <2>1. c[k] \in Blocks /\ Known(list, c[k])
    BY <1>1, <1>2
  <2>2. c[k] \in {list.headers[i] : i \in 1 .. Len(list.headers)}
    <3> HIDE DEF c
    <3> QED BY <2>1, KnownInList
  <2>3. tRow # Null /\ c[k] \in On(tRow)
    <3>1. list.headers # <<>>
      BY <2>2, EmptySeq
    <3> QED BY <2>2, <3>1, ListOnTip
  <2> QED BY <2>3 DEF Disk
<1> DEFINE T == {i \in 0 .. n : i = 0 \/ c[i] \in dRows}
<1>5. PICK m \in T : \A y \in T : y <= m
  <2>1. T \in SUBSET (0 .. n) /\ T # {} /\ n \in Nat
    BY <1>2
  <2> HIDE DEF T, n
  <2> QED BY <2>1, Greatest
<1>6. m \in k .. n /\ \A i \in 1 .. n : c[i] \in dRows <=> i <= m
  <2>1. k \in T
    BY <1>1, <1>4
  <2>2. m \in k .. n
    BY <1>2, <1>5, <2>1
  <2>3. ASSUME NEW i \in 1 .. n, i <= m PROVE c[i] \in dRows
    <3>1. m \in 1 .. n /\ c[m] \in dRows /\ i \in 1 .. m
      BY <1>5, <2>2, <2>3
    <3> QED BY <1>3, <3>1
  <2>4. ASSUME NEW i \in 1 .. n, c[i] \in dRows PROVE i <= m
    BY <1>5, <2>4
  <2> QED BY <2>2, <2>3, <2>4
<1>7. /\ Len(es) = n - k /\ n - k \in Nat
      /\ \A i \in 1 .. n - k : /\ k + i \in 1 .. n /\ es[i].hash = c[k + i]
                               /\ es[i] = [hash |-> c[k + i], height |-> k + i - 1]
  <2>1. es = [i \in 1 .. n - k |-> [hash |-> c[k + i], height |-> k + i - 1]]
    BY <1>1 DEF Part
  <2>2. Len(es) = n - k /\ n - k \in Nat
    BY <1>1, PartFacts
  <2> HIDE DEF es
  <2> QED BY <1>2, <2>1, <2>2
<1> HIDE DEF es, T
<1>8. m - k \in 0 .. Len(es) /\ \A i \in 1 .. Len(es) : es[i].hash \in synced <=> i <= m - k
  <2>1. k \in Nat /\ m \in Nat /\ n \in Nat /\ k <= m /\ m <= n
    BY <1>2, <1>6
  <2> HIDE DEF n
  <2>2. m - k \in 0 .. n - k
    BY <2>1
  <2>3. ASSUME NEW i \in 1 .. n - k PROVE es[i].hash \in synced <=> i <= m - k
    <3>1. es[i].hash = c[k + i] /\ k + i \in 1 .. n
      BY <1>7, <2>1
    <3>2. k + i <= m <=> i <= m - k
      BY <2>1
    <3> QED BY <1>6, <3>1, <3>2
  <2> QED BY <1>7, <2>2, <2>3
<1>9. NotDone(es) = [i \in 1 .. Len(es) - (m - k) |-> es[(m - k) + i]]
  <2> DEFINE j == m - k
  <2> HIDE DEF j
  <2>1. Len(es) \in Nat /\ j \in 0 .. Len(es) /\ \A i \in 1 .. Len(es) : es[i].hash \in synced <=> i <= j
    BY <1>7, <1>8 DEF j
  <2>2. NotDone(es) = [i \in 1 .. Len(es) - j |-> es[j + i]]
    BY <2>1, RestIsLeft
  <2> QED BY <2>2 DEF j
<1>10. NotDone(es) = Part(target, m)
  <2>1. Len(es) - (m - k) = n - m /\ n - m \in Nat
    BY <1>2, <1>6, <1>7
  <2>2. ASSUME NEW i \in 1 .. n - m PROVE es[(m - k) + i] = [hash |-> c[m + i], height |-> m + i - 1]
    <3> DEFINE j == (m - k) + i
    <3>1. j \in 1 .. n - k /\ k + j = m + i
      <4>1. k \in Nat /\ m \in Nat /\ n \in Nat /\ k <= m /\ m <= n
        BY <1>2, <1>6
      <4> HIDE DEF n
      <4> QED BY <4>1
    <3> HIDE DEF j
    <3>2. es[j] = [hash |-> c[k + j], height |-> k + j - 1]
      BY <1>7, <3>1
    <3>3. es[j] = [hash |-> c[m + i], height |-> m + i - 1]
      <4>1. k + j - 1 = m + i - 1
        <5>1. k \in Int /\ j \in Int /\ m \in Int /\ i \in Int
          BY <1>2, <1>6, <3>1
        <5> QED BY <3>1, <5>1
      <4> QED BY <3>1, <3>2, <4>1
    <3> QED BY <3>3 DEF j
  <2>3. Part(target, m) = [i \in 1 .. n - m |-> [hash |-> c[m + i], height |-> m + i - 1]]
    BY DEF Part
  <2> HIDE DEF c, n
  <2> QED BY <1>9, <2>1, <2>2, <2>3
<1>11. m \in 0 .. n /\ \A i \in 1 .. m : c[i] \in dRows
  BY <1>1, <1>2, <1>6
<1> QED BY <1>10, <1>11 DEF es

------------------------------------------------------------------------------
(* The steps.                                                              *)

(* At the start nothing is on disk and the process is not running.         *)
LEMMA InitSync == ASSUME Init PROVE SyncInv
  BY NoRows, GoodEmpty DEF Init, SyncInv, Types, Disk, Round

(* Opening the store loads the chain of the tip row, and never finds a     *)
(* header missing.                                                         *)
LEMMA OpenSync == ASSUME SyncInv, Open PROVE SyncInv'
<1>1. Walkable(bRows, tRow) /\ tRow \in Blocks \cup {Null} /\ dRows \subseteq Blocks
  BY DiskRecovers DEF SyncInv, Disk, Recoverable
<1>2. /\ list' = Loaded(tRow) /\ synced' = dRows /\ pc' = "best"
      /\ first' = TRUE /\ tip' = Null /\ target' = Null /\ toAdd' = <<>> /\ written' = 0
      /\ UNCHANGED <<dtip, disk>>
  BY <1>1 DEF Open
<1>3. GoodList(list') /\ Tip(list') = tRow
  BY <1>1, <1>2, LoadedIsChain
<1>4. Types' /\ Disk'
  BY <1>1, <1>2, NoRows DEF SyncInv, Types, Disk
<1>5. Round'
  BY <1>2, <1>3 DEF Round
<1> QED BY <1>3, <1>4, <1>5 DEF SyncInv

(* A crash leaves the disk as it is.                                       *)
LEMMA CrashSync == ASSUME SyncInv, Crash PROVE SyncInv'
<1>1. Types' /\ Disk' /\ GoodList(list')
  BY NoRows, GoodEmpty DEF SyncInv, Types, Disk, Crash
<1>2. Round'
  BY DEF Round, Crash
<1> QED BY <1>1, <1>2 DEF SyncInv

(* The daemon's moves and the steps that ask for the best block, or fail   *)
(* to, change neither disk nor memory.                                     *)
LEMMA AskSync ==
  ASSUME SyncInv, DaemonMoves \/ GetBest \/ GetBestFails \/ FetchFails \/ AskPanics
  PROVE  SyncInv'
<1>1. UNCHANGED <<disk, memory, first, tip, toAdd, written>>
  BY DEF DaemonMoves, GetBest, GetBestFails, FetchFails, AskPanics
<1>2. Disk' /\ GoodList(list')
  BY <1>1 DEF SyncInv, Disk
<1>3. CASE DaemonMoves
  <2>1. dtip' \in Blocks /\ UNCHANGED <<pc, target>>
    BY <1>3 DEF DaemonMoves
  <2>2. Types' /\ Round'
    BY <1>1, <2>1 DEF SyncInv, Types, Round, Batch, WrittenTo
  <2> QED BY <1>2, <2>2 DEF SyncInv
<1>4. CASE GetBest
  <2>1. pc = "best" /\ pc' = "fetch" /\ target' = dtip /\ UNCHANGED dtip
    BY <1>4 DEF GetBest
  <2>2. Types' /\ Round'
    BY <1>1, <2>1 DEF SyncInv, Types, Round
  <2> QED BY <1>2, <2>2 DEF SyncInv
<1>5. CASE GetBestFails \/ FetchFails \/ AskPanics
  <2>1. pc \in {"best", "fetch"} /\ pc' \in {"best", "dead"} /\ UNCHANGED <<dtip, target>>
    BY <1>5 DEF GetBestFails, FetchFails, RoundFails, AskPanics
  <2>2. Types' /\ Round'
    BY <1>1, <2>1 DEF SyncInv, Types, Round
  <2> QED BY <1>2, <2>2 DEF SyncInv
<1> QED BY <1>3, <1>4, <1>5

(* Fetching leaves the part of the chain to write that is not done.        *)
LEMMA FetchSync == ASSUME SyncInv, Fetch PROVE SyncInv'
<1>1. /\ pc = "fetch" /\ target \in Blocks /\ synced = dRows /\ Tip(list) = tRow
      /\ UNCHANGED <<dtip, disk, memory, first, tip, target>>
  BY DEF SyncInv, Round, Fetch
<1>2. Disk' /\ GoodList(list')
  BY <1>1 DEF SyncInv, Disk
<1>3. CASE Misfetched
  <2>1. pc' = "dead" /\ UNCHANGED <<toAdd, written>>
    BY <1>3 DEF Fetch
  <2>2. Types' /\ Round'
    BY <1>1, <2>1 DEF SyncInv, Types, Round
  <2> QED BY <1>2, <2>2 DEF SyncInv
<1>4. CASE ~Misfetched
  <2>1. /\ toAdd' = NotDone(IF NewHeaders(list, target) = <<>> THEN <<>>
                            ELSE Ordered(list, NewHeaders(list, target)))
        /\ written' = 0 /\ pc' = "write"
    BY <1>4 DEF Fetch
  <2>2. PICK m \in 0 .. Len(Chain[target]) : /\ toAdd' = Part(target, m)
                                             /\ \A i \in 1 .. m : Chain[target][i] \in dRows
    BY <1>1, <2>1, FetchedBatch DEF SyncInv
  <2>3. toAdd' \in Seq(Entry) /\ Len(toAdd') \in Nat
    BY <1>1, <2>2, PartFacts DEF Entry
  <2>4. Types'
    BY <1>1, <2>1, <2>3 DEF SyncInv, Types
  <2>5. Batch(m)'
    BY <1>1, <2>2 DEF Batch
  <2>6. WrittenTo(written)' = {}
    BY <2>1, <2>3 DEF WrittenTo
  <2>7. \A k \in 1 .. Len(toAdd') : ~(2 * k - 1 <= written')
    BY <2>1, <2>3
  <2>8. \E j \in 0 .. Len(Chain[target']) : Batch(j)'
    BY <1>1, <2>5
  <2>9. Round'
    BY <1>1, <2>1, <2>6, <2>7, <2>8 DEF Round
  <2> QED BY <1>2, <2>4, <2>9 DEF SyncInv
<1> QED BY <1>3, <1>4

(* Row by row: the k-th entry has the rows 2 k - 1 and 2 k.                *)
LEMMA RowsOfEntries ==
  ASSUME NEW i \in Nat \ {0}
  PROVE  /\ i % 2 = 1 => \E k \in Nat \ {0} : i = 2 * k - 1 /\ (i + 1) \div 2 = k
         /\ i % 2 = 0 => \E k \in Nat \ {0} : i = 2 * k /\ (i + 1) \div 2 = k
<1>1. i % 2 = 1 => (i + 1) \div 2 \in Nat \ {0} /\ i = 2 * ((i + 1) \div 2) - 1
  OBVIOUS
<1>2. i % 2 = 0 => (i + 1) \div 2 \in Nat \ {0} /\ i = 2 * ((i + 1) \div 2)
  OBVIOUS
<1> QED BY <1>1, <1>2

(* The other way round: the entries at 2k - 1 and at 2k are the two rows   *)
(* of the header k.                                                        *)
LEMMA EntriesOfRows ==
  ASSUME NEW k \in Nat \ {0}
  PROVE  /\ (2 * k - 1) % 2 = 1 /\ (2 * k - 1 + 1) \div 2 = k
         /\ (2 * k) % 2 = 0 /\ (2 * k + 1) \div 2 = k
  OBVIOUS

(* A batch of rows completes the headers it reaches, in the order of their *)
(* heights: whatever is done stays closed.                                 *)
LEMMA WriteSync == ASSUME SyncInv, WriteChunk PROVE SyncInv'
<1> DEFINE n == Len(toAdd)
           w == written'
<1>1. /\ pc = "write" /\ target \in Blocks /\ Tip(list) = tRow
      /\ dRows = synced \cup WrittenTo(written)
      /\ \A k \in 1 .. n : 2 * k - 1 <= written => toAdd[k].hash \in bRows
      /\ UNCHANGED <<dtip, tRow, memory, pc, first, tip, target, toAdd>>
  BY DEF SyncInv, Round, WriteChunk
<1>2. PICK m \in 0 .. Len(Chain[target]) : Batch(m)
  BY <1>1 DEF SyncInv, Round
<1>3. /\ n \in Nat /\ n = Len(Chain[target]) - m
      /\ \A k \in 1 .. n : /\ m + k \in 1 .. Len(Chain[target]) /\ toAdd[k].hash = Chain[target][m + k]
                           /\ toAdd[k].hash \in Blocks
  BY <1>1, <1>2, PartFacts DEF Batch
<1>4. written \in Nat /\ written <= 2 * n /\ w \in Nat /\ written <= w /\ w <= 2 * n
      /\ Until(written + ChunkRows) = w
  BY <1>3, ChunkAssumption DEF SyncInv, Types, WriteChunk, Until
<1>5. bRows' = bRows \cup {toAdd[k].hash : k \in {j \in 1 .. n : written < 2 * j - 1 /\ 2 * j - 1 <= w}}
  <2> DEFINE odd == {j \in Chunk : j % 2 = 1}
             new == {j \in 1 .. n : written < 2 * j - 1 /\ 2 * j - 1 <= w}
  <2>1. bRows' = bRows \cup {RowOf(i) : i \in odd}
    BY DEF WriteChunk
  <2>2. ASSUME NEW i \in odd PROVE \E k \in new : RowOf(i) = toAdd[k].hash
    <3>1. i \in Nat \ {0} /\ written < i /\ i <= w /\ i % 2 = 1
      BY <1>4 DEF Chunk
    <3>2. PICK k \in Nat \ {0} : i = 2 * k - 1 /\ (i + 1) \div 2 = k
      BY <3>1, RowsOfEntries
    <3>3. k \in new
      BY <1>3, <1>4, <3>1, <3>2
    <3> QED BY <3>2, <3>3 DEF RowOf
  <2>3. ASSUME NEW k \in new PROVE \E i \in odd : RowOf(i) = toAdd[k].hash
    <3> DEFINE i == 2 * k - 1
    <3>1. k \in Nat \ {0} /\ i \in Nat /\ written < i /\ i <= w
      BY <1>3
    <3>2. i % 2 = 1 /\ (i + 1) \div 2 = k
      BY <3>1, EntriesOfRows
    <3> HIDE DEF i
    <3>3. i \in Chunk
      BY <1>4, <3>1 DEF Chunk
    <3> QED BY <3>2, <3>3 DEF RowOf
  <2> HIDE DEF odd, new
  <2>4. {RowOf(i) : i \in odd} = {toAdd[k].hash : k \in new}
    BY <2>2, <2>3
  <2> QED BY <2>1, <2>4 DEF new
<1>6. dRows' = dRows \cup {toAdd[k].hash : k \in {j \in 1 .. n : written < 2 * j /\ 2 * j <= w}}
  <2> DEFINE even == {j \in Chunk : j % 2 = 0}
             new == {j \in 1 .. n : written < 2 * j /\ 2 * j <= w}
  <2>1. dRows' = dRows \cup {RowOf(i) : i \in even}
    BY DEF WriteChunk
  <2>2. ASSUME NEW i \in even PROVE \E k \in new : RowOf(i) = toAdd[k].hash
    <3>1. i \in Nat \ {0} /\ written < i /\ i <= w /\ i % 2 = 0
      BY <1>4 DEF Chunk
    <3>2. PICK k \in Nat \ {0} : i = 2 * k /\ (i + 1) \div 2 = k
      BY <3>1, RowsOfEntries
    <3>3. k \in new
      BY <1>3, <1>4, <3>1, <3>2
    <3> QED BY <3>2, <3>3 DEF RowOf
  <2>3. ASSUME NEW k \in new PROVE \E i \in even : RowOf(i) = toAdd[k].hash
    <3> DEFINE i == 2 * k
    <3>1. k \in Nat \ {0} /\ i \in Nat /\ written < i /\ i <= w
      BY <1>3
    <3>2. i % 2 = 0 /\ (i + 1) \div 2 = k
      BY <3>1, EntriesOfRows
    <3> HIDE DEF i
    <3>3. i \in Chunk
      BY <1>4, <3>1 DEF Chunk
    <3> QED BY <3>2, <3>3 DEF RowOf
  <2> HIDE DEF even, new
  <2>4. {RowOf(i) : i \in even} = {toAdd[k].hash : k \in new}
    BY <2>2, <2>3
  <2> QED BY <2>1, <2>4 DEF new
<1>7. dRows' = synced \cup {toAdd[k].hash : k \in {j \in 1 .. n : 2 * j <= w}}
  BY <1>1, <1>3, <1>4, <1>6 DEF WrittenTo
<1>8. \A k \in 1 .. n : 2 * k - 1 <= w => toAdd[k].hash \in bRows'
  <2> SUFFICES ASSUME NEW k \in 1 .. n, 2 * k - 1 <= w PROVE toAdd[k].hash \in bRows'
    OBVIOUS
  <2>1. CASE 2 * k - 1 <= written
    BY <1>1, <1>5, <2>1
  <2>2. CASE written < 2 * k - 1
    BY <1>5, <2>2
  <2> QED BY <1>3, <1>4, <2>1, <2>2
<1>9. Disk'
  <2>1. dRows' \subseteq bRows'
    <3>1. ASSUME NEW k \in 1 .. n, 2 * k <= w PROVE toAdd[k].hash \in bRows'
      <4>1. 2 * k - 1 <= w
        BY <1>3, <1>4, <3>1
      <4> QED BY <1>8, <4>1
    <3>2. dRows \subseteq bRows /\ bRows \subseteq bRows'
      BY <1>5 DEF SyncInv, Disk
    <3> QED BY <1>1, <1>7, <3>1, <3>2
  <2>2. bRows' \subseteq Blocks
    BY <1>3, <1>5 DEF SyncInv, Disk
  <2>3. ASSUME NEW b \in dRows' PROVE On(b) \subseteq dRows'
    <3>1. CASE b \in dRows
      BY <1>6, <3>1 DEF SyncInv, Disk
    <3>2. ASSUME NEW k \in 1 .. n, 2 * k <= w, b = toAdd[k].hash PROVE On(b) \subseteq dRows'
      <4>1. m + k \in 1 .. Len(Chain[target]) /\ b = Chain[target][m + k]
        BY <1>3, <3>2
      <4>2. Chain[b] = SubSeq(Chain[target], 1, m + k) /\ Len(Chain[b]) = m + k
        BY <1>1, <4>1, ChainPrefix
      <4>3. ASSUME NEW h \in 1 .. m + k PROVE Chain[target][h] \in dRows'
        <5>1. CASE h <= m
          <6>1. Chain[target][h] \in dRows
            BY <1>2, <5>1 DEF Batch
          <6> QED BY <1>6, <6>1
        <5>2. CASE m < h
          <6> DEFINE j == h - m
          <6>1. j \in 1 .. n /\ m + j = h /\ 2 * j <= w
            <7>1. m \in Int /\ h \in Int /\ k \in Int /\ h <= m + k /\ n \in Nat /\ w \in Nat /\ k <= n
              BY <1>3, <1>4
            <7>2. j \in Nat \ {0} /\ m + j = h /\ j <= k
              BY <5>2, <7>1
            <7> HIDE DEF j, n
            <7> QED BY <3>2, <7>1, <7>2
          <6> HIDE DEF j
          <6>2. toAdd[j].hash = Chain[target][h]
            BY <1>3, <6>1
          <6> QED BY <1>7, <6>1, <6>2
        <5> QED BY <5>1, <5>2
      <4>4. \A h \in 1 .. m + k : Chain[b][h] = Chain[target][h]
        BY <1>1, <4>1, <4>2, ChainEnds
      <4> QED BY <4>2, <4>3, <4>4 DEF On
    <3> QED BY <1>1, <1>7, <3>1, <3>2
  <2> QED BY <1>1, <1>6, <2>1, <2>2, <2>3 DEF SyncInv, Disk
<1>10. Types' /\ GoodList(list')
  BY <1>1, <1>4 DEF SyncInv, Types
<1>11. Batch(m)'
  BY <1>1, <1>2, <1>6 DEF Batch
<1>12. dRows' = synced' \cup WrittenTo(written)'
  BY <1>1, <1>7 DEF WrittenTo
<1>13. \E j \in 0 .. Len(Chain[target']) : Batch(j)'
  BY <1>1, <1>11
<1>14. Round'
  BY <1>1, <1>8, <1>12, <1>13 DEF Round
<1> QED BY <1>9, <1>10, <1>14 DEF SyncInv

(* Once all rows are written the target is done, and becomes the tip row.  *)
LEMMA TipSync == ASSUME SyncInv, PutTip PROVE SyncInv'
<1> DEFINE n == Len(toAdd)
<1>1. /\ pc = "write" /\ target \in Blocks /\ written = 2 * n
      /\ dRows = synced \cup WrittenTo(written)
      /\ synced' = synced \cup {toAdd[k].hash : k \in 1 .. n}
      /\ tRow' = target /\ pc' = "apply"
      /\ UNCHANGED <<dtip, bRows, dRows, list, first, tip, target, toAdd, written>>
  BY DEF SyncInv, Round, PutTip
<1>2. PICK m \in 0 .. Len(Chain[target]) : Batch(m)
  BY <1>1 DEF SyncInv, Round
<1>3. /\ n \in Nat /\ n = Len(Chain[target]) - m
      /\ \A k \in 1 .. n : toAdd[k].hash = Chain[target][m + k]
  BY <1>1, <1>2, PartFacts DEF Batch
<1>4. {j \in 1 .. n : 2 * j <= written} = 1 .. n
  BY <1>1, <1>3
<1>5. WrittenTo(written) = {toAdd[k].hash : k \in 1 .. n}
  BY <1>4 DEF WrittenTo
<1>6. synced' = dRows
  BY <1>1, <1>5
<1>7. target \in dRows
  <2>1. Len(Chain[target]) \in Nat \ {0} /\ Chain[target][Len(Chain[target])] = target
    BY <1>1, ChainEnds
  <2>2. CASE m = Len(Chain[target])
    BY <1>2, <2>1, <2>2 DEF Batch
  <2>3. CASE m # Len(Chain[target])
    <3>1. n \in 1 .. n /\ m + n = Len(Chain[target])
      BY <1>3, <2>1, <2>3
    <3>2. toAdd[n].hash = target
      BY <1>3, <2>1, <3>1
    <3> QED BY <1>1, <1>5, <3>1, <3>2
  <2> QED BY <2>2, <2>3
<1>8. Types' /\ Disk' /\ GoodList(list')
  BY <1>1, <1>6, <1>7 DEF SyncInv, Types, Disk
<1>9. \E j \in 0 .. Len(Chain[target']) : Batch(j)'
  BY <1>1, <1>2 DEF Batch
<1>10. Round'
  BY <1>1, <1>6, <1>9 DEF Round
<1> QED BY <1>8, <1>10 DEF SyncInv

(* A list that takes the batch is the chain of the target; one that does   *)
(* not is the chain it was.                                                *)
LEMMA ApplySync == ASSUME SyncInv, Apply PROVE SyncInv'
<1>1. /\ pc = "apply" /\ target \in Blocks /\ synced = dRows /\ tRow = target
      /\ UNCHANGED <<dtip, disk, synced, target, toAdd, written>>
  BY DEF SyncInv, Round, Apply
<1>2. PICK m \in 0 .. Len(Chain[target]) : Batch(m)
  BY <1>1 DEF SyncInv, Round
<1>3. Linked(toAdd)
  BY <1>1, <1>2, PartFacts DEF Batch
<1>4. Disk'
  BY <1>1 DEF SyncInv, Disk
<1>5. CASE ~InBounds(list, toAdd)
  <2>1. pc' = "dead" /\ UNCHANGED <<list, first, tip>>
    BY <1>5 DEF Apply
  <2>2. Types' /\ Round' /\ GoodList(list')
    BY <1>1, <2>1 DEF SyncInv, Types, Round
  <2> QED BY <1>4, <2>2 DEF SyncInv
<1>6. CASE InBounds(list, toAdd)
  <2>1. /\ list' = Applied(list, toAdd)
        /\ IF Tip(list') = target
           THEN pc' = "best" /\ first' = FALSE /\ tip' = target
           ELSE pc' = "reload" /\ UNCHANGED <<first, tip>>
    BY <1>3, <1>6 DEF Apply
  <2>2. GoodList(list')
    BY <1>1, <1>2, <1>6, <2>1, AppliedIsChain DEF Batch, SyncInv
  <2>3. Types'
    BY <1>1, <2>1 DEF SyncInv, Types
  <2>4. Round'
    BY <1>1, <2>1 DEF Round
  <2> QED BY <1>4, <2>2, <2>3, <2>4 DEF SyncInv
<1> QED BY <1>5, <1>6

(* reload_store finds every header it walks to.                            *)
LEMMA ReloadSync == ASSUME SyncInv, Reload PROVE SyncInv'
<1>1. Walkable(bRows, tRow) /\ tRow \in Blocks \cup {Null} /\ dRows \subseteq Blocks
  BY DiskRecovers DEF SyncInv, Disk, Recoverable
<1>2. /\ list' = Loaded(tRow) /\ synced' = dRows /\ pc' \in {"dead", "best"}
      /\ UNCHANGED <<dtip, disk, locals>>
  BY <1>1 DEF Reload, RoundFails
<1>3. GoodList(list') /\ Tip(list') = tRow
  BY <1>1, <1>2, LoadedIsChain
<1>4. Types' /\ Disk'
  BY <1>1, <1>2 DEF SyncInv, Types, Disk
<1>5. Round'
  BY <1>2, <1>3 DEF Round
<1> QED BY <1>3, <1>4, <1>5 DEF SyncInv

(* Every step, and no step.                                                *)
LEMMA NextSync == ASSUME SyncInv, [Next]_vars PROVE SyncInv'
<1>1. CASE UNCHANGED vars
  BY <1>1 DEF SyncInv, Types, Disk, Round, Batch, WrittenTo
<1> QED BY <1>1, OpenSync, CrashSync, AskSync, FetchSync, WriteSync, TipSync, ApplySync, ReloadSync DEF Next

(* The invariant implies each of the properties.                           *)
LEMMA SyncImplies ==
  ASSUME SyncInv
  PROVE  TypeOK /\ Recoverable /\ DoneIsClosed /\ ListIsChain /\ BatchIsLinked /\ MemoryMatchesDisk
<1>1. TypeOK
  BY DEF SyncInv, Types, Disk, GoodList, TypeOK
<1>2. Recoverable /\ DoneIsClosed
  BY DiskRecovers DEF SyncInv
<1>3. ListIsChain
  BY KnownInList DEF SyncInv, GoodList, ListIsChain
<1>4. BatchIsLinked
  BY PartFacts DEF SyncInv, Round, Batch, BatchIsLinked
<1>5. MemoryMatchesDisk
  BY DEF SyncInv, Round, MemoryMatchesDisk
<1> QED BY <1>1, <1>2, <1>3, <1>4, <1>5

(* The invariant holds of every behaviour, crashes and reorganisations     *)
(* included.                                                               *)
THEOREM SyncInvHolds == Spec => []SyncInv
<1>1. Init => SyncInv
  BY InitSync
<1>2. SyncInv /\ [Next]_vars => SyncInv'
  BY NextSync
<1> QED BY <1>1, <1>2, PTL DEF Spec

(* Every variable keeps its type: the map never gives a negative height,   *)
(* and no more rows are written than a round has.                          *)
THEOREM TypeCorrect == Spec => []TypeOK
<1>1. SyncInv => TypeOK
  BY SyncImplies
<1> QED BY <1>1, SyncInvHolds, PTL

(* Wherever the process dies, HeaderList::new finds the headers from the   *)
(* tip row down to the first block.                                        *)
THEOREM AlwaysRecoverable == Spec => []Recoverable
<1>1. SyncInv => Recoverable
  BY SyncImplies
<1> QED BY <1>1, SyncInvHolds, PTL

(* A "D" row is never on disk without the header and the "D" rows of all   *)
(* ancestors, so that sync_headers_to_add may skip what is marked.         *)
THEOREM DoneStaysClosed == Spec => []DoneIsClosed
<1>1. SyncInv => DoneIsClosed
  BY SyncImplies
<1> QED BY <1>1, SyncInvHolds, PTL

(* The list is a chain, and header_by_blockhash finds what is in it,       *)
(* although the map is never cleaned.                                      *)
THEOREM ListStaysChain == Spec => []ListIsChain
<1>1. SyncInv => ListIsChain
  BY SyncImplies
<1> QED BY <1>1, SyncInvHolds, PTL

(* The assertions in HeaderList::apply on its batch never fail.            *)
THEOREM BatchStaysLinked == Spec => []BatchIsLinked
<1>1. SyncInv => BatchIsLinked
  BY SyncImplies
<1> QED BY <1>1, SyncInvHolds, PTL

(* Between two rounds, the memory is what opening the store would load.    *)
THEOREM MemoryStaysDisk == Spec => []MemoryMatchesDisk
<1>1. SyncInv => MemoryMatchesDisk
  BY SyncImplies
<1> QED BY <1>1, SyncInvHolds, PTL
===============================================================================
