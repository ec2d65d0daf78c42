# A TLA+ verification of sxn-spv

`sxn-spv` serves light-client ("SPV") queries for Bitcoin, Dogecoin, Ethereum,
Optimism and Solana from inside an enclave. It trusts no single upstream: block
headers come from P2P networks or a full node, Merkle proofs are compared with
P2P headers, Ethereum and Optimism go through helios, and Solana answers are put
to a vote of several RPC providers. This directory models that logic in TLA+,
checks it with TLC on small instances and, but for liveness, proves with TLAPS
what the runs check for every value of the constants. Paths are below `src/src/` unless they say otherwise.

## Inventory

| Component | Source | State it keeps | Operations | Talks to |
|---|---|---|---|---|
| Solana client | `chains/sol.rs` | task queue, broadcast ring, one inner and one response channel per task; the dispatcher's ballot and clock; each worker's place in the ring and attempts | `get_*` callers, dispatcher (`deal_*`), workers (`client_worker_do_*`), decisions (`deal_*_res`) | handlers call it; it calls a judge RPC and the extra RPCs |
| Header list | `header.rs` | headers by height, map hash -> height, tip | `new`, `order`, `apply`, `header_by_blockhash` | indexer, store |
| Header indexer and store | `index.rs`, `store.rs`, `start_indexer` in `main.rs` | RocksDB rows `b` (header), `D` (done), `t` (tip); set of synced hashes; header list behind locks | open, one round of synchronisation, reload | full node (JSON-RPC) |
| Daemon client | `daemon.rs`, `request` in `utils.rs` | a counter of message ids | batched JSON-RPC, header download by height or by walking back, proofs | full nodes; indexer and handlers share it |
| Response cache | `utils.rs` | a bounded ordered map | `insert`, `get`, `remove` | all handlers |
| Bitcoin/Dogecoin endpoints | `btcrpc/`, `chainstate.rs` | none besides the cache | `getblockheader`, `getblockhash`, `getbestblockhash`, `verify_tx` | P2P client, full node, cache |
| Ethereum/Optimism endpoints | `ethrpc/mod.rs` | receipts in the cache | receipts, logs and blocks; batches at `/eth` | helios, cache |
| Solana endpoint | `solrpc/mod.rs` | none besides the cache | five RPC methods; transactions are cached, and dropped when they do not decode | Solana client, cache |
| P2P clients | `chains/btc_p2p.rs`, `chains/doge_p2p.rs` | the nakamoto client's | start, watchdog that ends the process | P2P networks |
| Startup and gateway | `main.rs`, `config.rs`, `server.rs`, `chains/eth.rs`, `chains/optimism.rs` | service flags; the clients, each started or `None` | start what is asked for, route, refuse other services | everything |

What is hard about it: the Solana dispatcher leaves a task at the first error
while slow workers are still at it, and the broadcast ring silently drops what
slow workers have not received; the header store is written in several steps
that a crash may separate, and a reorganisation leaves rows, marks and map
entries of the abandoned branch behind; headers are downloaded in many exchanges
with a node that may reorganise between any two, and replies are told apart by
one id per call; handlers of all networks and methods share one cache without
agreeing on keys and forms; P2P clients follow reorganisations between two steps
of a handler, and die behind handles that stay. `PROJECT.json` lists each of
these hazards at its line with the properties that watch it.

What makes each part correct:

- Solana client: every request is answered; an answer counted for a task was
  given to that task; what is returned as verified is what the judge and the
  vote agree on; no worker and not the dispatcher waits for ever.
- Header synchronisation: the store opens after any crash; nothing is marked
  done before it is stored with its ancestors; list, set and disk agree between
  rounds; the list is a chain; it reaches the daemon's best block. A download
  gives exactly the headers the list lacks, or fails, and it ends.
- Cache and endpoints: bounded; an entry is about its key, of whatever kind; a
  header or a hash is one of the network that was asked; a confirmation rests on
  a P2P header; a receipt is what helios said; its absence is never remembered.
- The process: requests meet only clients that were started; a P2P client that
  has died does not stay behind a server that runs on.

## Modules

| Module | Models |
|---|---|
| `SolVote` | the pure decisions: counting, plurality, common entries, the comparison with the judge |
| `SolService` (extends `SolVote`) | abstract: what the Solana client promises its callers |
| `SolDispatch` (extends `SolVote`, instantiates `SolService`) | callers, dispatcher and workers with all channels between them |
| `BlockTree` | the blocks an upstream may report (external) |
| `HeaderList` (extends `BlockTree`) | `HeaderList` as a value and its operations; which headers it lacks |
| `HeaderSync` (extends `HeaderList`) | `start_indexer`, `Indexer::sync_headers`, the store, crashes and restarts |
| `HeaderSource` (extends `HeaderList`) | abstract: what the indexer relies on when it asks for headers, `HeaderSync`'s step `Fetch` on its own |
| `HeaderDownload` (extends `HeaderList`, instantiates `HeaderSource`) | the daemon client, exchange by exchange |
| `SimpleCache` | the cache as a value and its operations |
| `SpvRpc` (extends `BlockTree`, `SimpleCache`) | the Bitcoin/Dogecoin handlers over cache, P2P clients and full node |
| `ChainRpc` (extends `SimpleCache`) | the Ethereum, Optimism and Solana handlers over cache, helios and Solana client |
| `Endpoints` (extends `SpvRpc`, instantiates `ChainRpc`) | all handlers over the one cache |
| `Gateway` | start, routes, watchdogs and restart of the process |
| `SolDispatch_proofs`, `SolService_proofs`, `HeaderList_proofs`, `HeaderSync_proofs`, `HeaderDownload_proofs`, `SpvRpc_proofs`, `Endpoints_proofs`, `Gateway_proofs` | the theorems about these modules and their TLAPS proofs |
| `MCSolDispatch`, `MCHeaderSync`, `MCHeaderDownload`, `MCSpvRpc`, `MCEndpoints`, `MCGateway` | instances for TLC |

Definitions called a *mutant* in their comment are deliberate mistakes: put in
the place of the definition they precede, each makes TLC report the property it
is listed with in `PROJECT.json`. No specification uses them.

### SolDispatch and SolService

One handler per task: `caller[t]` says where it stands, `judge[t]` is the
judge's answer it keeps across its awaits. `queue` is the mpsc queue, `sent`
all broadcasts so far, of which the ring retains the last `RingCap`; `pos[w]`
is a worker's position in it. `cur`, `heard`, `late` are the dispatcher's
locals: the task, `res`, and whether its 60 seconds are over. `inner` is the
inner channel of `cur`; those of earlier tasks are closed, so only `cur`'s is
kept. `job[w]` and `tries[w]` are a worker's. `said` is a history variable.

The five methods are one piece of control with five instances; what differs is
kept: the decision (`Decide`), the comparison (`Conclude`), the caller that has
nothing to confirm when the judge's list of signatures is empty, and the wrong
response event of `deal_get_account_info` (`ErrorKind`). Answers are abstract
values or lists of abstract entries, which may be repeated: the code counts how
often an entry is mentioned, and a repeat counts again. An RPC that repeats an
entry thereby makes up for one that lacks it. Nothing in the repository says what
should happen then, so what is promised of a list is that its entries are the
judge's, and that those nobody repeats (`Unrepeated`) are everybody's. A first
signature of the judge's that does not parse panics the handler (`JudgeUnparsable`).
Calls that can only fail when the process ends (a send to a dropped dispatcher)
are left out. `Abandon` is axum dropping a handler whose client has gone.

`SolService` has no queue, channel, worker or attempt: a request is open until
it ends once, with an error, with a value in `Supported`, or lost. `Supported`
is stated without the code's counters - a value no other value reaches; of the
entries nobody repeats those nobody misses, the others being open (`Kept`) - and
only once every extra RPC has answered this very request. `ImplementsService` maps the callers' states to phases.

### HeaderSync

The disk is `bRows`, `dRows`, `tRow`, memory is `list` and `synced`, the rest
are locals of the thread. One round is `GetBest`, `Fetch` (download, `order`,
skip done headers; `HeaderDownload` has its exchanges), `WriteChunk` for each
batch of rows, `PutTip`, `Apply`, and `Reload` when the list's tip is not the
target. `Crash` is enabled in every step, `Open` is the restart; an `unwrap`, a
failing assertion or an index beyond a vector ends the thread (`pc = "dead"`),
as do the assertions on what the daemon replies, in any round (`AskPanics`),
where an error is retried. A batch of rows is atomic and synced, as `DB::write`
asks of RocksDB. The daemon only moves to chains with more work.
At this commit `main` does not call `start_indexer`, which is kept with
`#[allow(dead_code)]`; the module models what the thread does when it runs.

### HeaderDownload and HeaderSource

`Callers` are the indexer's thread and the handlers of `verify_tx`, which share
the client and its counter `last`. A call (`Call`) takes one id for all its
requests `ask`, which go out in exchanges of `BatchSize`; `got` are the results
so far. `Exchange` is `handle_request_batch` for one exchange: replies may come
in another order, one may be missing or be an error - with a code, or without
one, which `parse_jsonrpc_reply` looks past - or the whole batch may be one the
node sent for an earlier exchange (`past`). The code compares neither the number
of replies with that of requests nor a header with the hash asked for; what
catches this are the final assertions of `get_all_headers` (`IsChainTo`), the
count of a chunk (`Chunk`), and the ids. `StepBack` is one step of
`get_new_headers`, `HeightKnown`, `HashesKnown`, `HeadersKnown` are the steps of
`get_all_headers` by chunks of `HeightChunk`. Assertions and `expect`s that fail
end the thread ("panicked"), errors end the call ("failed").

`HeaderSource` is what `HeaderSync` takes for one atomic step: the headers the
list lacks, oldest first, or a refusal. `ImplementsSource` says that the
exchanges amount to that, from any list that has been through a reorganisation
(`Reorganised`) and therefore still has hashes of a branch it left in its map.

### SpvRpc, ChainRpc and Endpoints

A handler of `SpvRpc` goes through `lookup`, `query`, `store` (and `prove` before
that for `verify_tx`); between these steps others run and `P2PMoves` happens. A
cached value is the block it is about and its form, because `getblockheader`
stores an object or a hex string and `verify_tx` decodes only objects. Block
hashes and heights are keys without the network, as in the code. `getblockheader`
may be asked for any hash (`OtherHashes` are those of no block). The Merkle block
a full node returns is arbitrary: any block of any network, any root, any
transactions; a reply without a result panics the handler (`ProvePanics`). The requests of a batch run at once (`join_all`) and are requests
of their own here.

A handler of `ChainRpc` is sent a body (`Post`) and answers its calls one after
the other (`sofar`), as the loop of `eth` does; the other routes take a single
call and reject a list. `block` is where a transaction is included according to
helios, which `HeliosMoves` changes; `vouched` and `decided` are history: what
helios and the Solana client ever said. A receipt that helios does not know is
answered as null and not stored. A cached Solana transaction that does not decode
is removed (`Drop`) and asked for again, in a step of its own.

`Endpoints` runs both kinds over one `cache`. Its keys are byte strings: heights
and signatures cannot be mistaken for anything else, but block hashes and
transaction hashes are equally long, and an instance asks for a receipt by the
hash of a block and for a header by the hash of a transaction. Such a request may
be answered with what another handler has cached there - a lookup does not look
at the form - which `AnswersGenuine` and `HeaderOrReceipt` state as the one
exception, and `KeysApart` that it leaves nothing wrong behind. Whether what an
RPC calls a transaction decodes is decided at each fetch, so a good entry may be
put over a bad one before the bad one's reader removes it. That takes three
handlers, one more than the run has; `EvictsWhenFull` allows for it (`Dropped`)
and is proved for any number.

### Gateway

`flags` is the command line, the same after each restart. `main` goes through
`Stages` in its order; a stage nobody asked for is skipped, any failure is
unwrapped and ends the process with all it has started (`Gone`). A P2P client
has a thread, which may die behind its handle (`ClientDies`), and a watchdog that
sleeps five minutes first and ends the process at the first `get_tip` that fails,
also when the client lives (`ExitAnyway`). `flags.wrong` are the clients whose own
options do not do: a network's name the client does not know (`chains/eth.rs:52`,
`chains/optimism.rs:41`, `chains/btc_p2p.rs:17`, `chains/doge_p2p.rs:21`), a node
without a cookie, too few Solana URLs. `Request` takes a request through the
middleware (`Enabled`) to what its handler unwraps (`Uses`). The middleware looks
for the verify routes anywhere in the path, so `/ping/verify_tx` counts as
`/verify_tx` (`Pings`); the same holds of `/verify_tx/verify_tx_doge`, which
counts as Dogecoin's but whose handler refuses the word as a txid before it
unwraps a client: it is not among the routes.

## Runs

| Run | Instance | Shows |
|---|---|---|
| `sol_values` | 3 RPCs, slot + transaction, two values, queue and ring of 1, 1 attempt; symmetric RPCs; 1.3 M states | types, `NoLostRequest`, `NoLostVote`, `AuthenticVotes`, `SendNeverBlocks`, `VerifiedAnswer`, `ImplementsService` |
| `sol_lists` | 2 RPCs, signatures + programs, two lists each, one of them with a repeat, queue and ring of 1, 2 attempts, fair; 321 k states | `VerifiedAnswer` and `ImplementsService` for the listing methods, `EveryRequestEnds` |
| `sol_events` | 2 RPCs, account + slot | counterexample to `EventsMatch` |
| `header_sync` | fork of 8 blocks, batches of 3 rows, fair; 11 k states | `Recoverable`, `DoneIsClosed`, `ListIsChain`, `BatchIsLinked`, `MemoryMatchesDisk`, `CatchesUp`, types |
| `header_sync_loop` | same tree, batches of 2 rows | counterexample to `LoopSurvives` |
| `header_download` | fork of 5 blocks, batches of 2, chunks of 3 heights, 1 proof, fair; 125 k states | `ReplyAsAsked`, `ImplementsSource`, `EveryCallEnds`, types |
| `spv_reorg` | Bitcoin with a reorganisation, 2 symmetric requests, one hash of no block, cache of 1; 55 k states | `CacheBounded`, `CacheCoherent`, `HeaderAsAsked`, `ConfirmedByP2P`, `HashOfOwnNetwork`, types |
| `spv_network` | both networks, 2 requests | counterexample to `HashOfOwnNetwork` |
| `spv_accept` | Bitcoin, 2 requests | counterexample to `CorrectProofAccepted` |
| `spv_inclusion` | Bitcoin, 1 request | counterexample to `ConfirmedIsIncluded` |
| `endpoints` | 2 Bitcoin blocks and 1 Dogecoin block, 1 request; 1 Ethereum and 2 Solana transactions, 2 Ethereum blocks, 2 symmetric handlers; cache of 2; 2.4 M states | `KeysApart`, `HeaderOrReceipt`, `AnswersGenuine`, `NullIsCurrent`, `EvictsWhenFull`, types |
| `gateway` | all subsets of services; two of them with both flags and any one client's options wrong; 2 losses, fair; 26 k states | `ServiceRoutesMatch`, `ServesAgain`, types |

The bounds, and why they are enough to meet the cases that matter: two tasks and
a ring of one place (`RingCap`) make a worker lag and answer a task that is
over; three RPCs with two values give a majority and a minority, two RPCs give a
tie; lists that have an entry, lack it or have it twice make it common, missing
or repeated; `MaxTries` 1 and 2
give the first and the last attempt; `QueueCap` 1 makes an enqueuing handler
wait. The tree of `header_sync` has a branch that is left and taken up again,
and a heavy short one; `ChunkRows` 3 cuts the rows between and inside the pairs
of headers, 2 between them. In `header_download` a chain of four headers takes
two chunks, and a chunk of three two exchanges, one with two replies that may be
swapped; the node may leave the branch the target is on for one of the same
height. A cache of one and two entries is full at once, and two handlers, one of
them with a batch of two, fill it while a third looks. `MaxLosses` 2 lets both
P2P clients die, or one die again after the restart; without a bound on losses
nothing could be promised. Each request of the endpoints is made once, so every
behaviour ends: the modules have a stuttering action `Quiet` for the state in
which everything was answered, and deadlock is checked.

## Fairness

`SolDispatch!FairSpec`: tokio polls every ready future, so the dispatcher, the
workers and a handler with a reply are weakly fair; the mpsc semaphore is fair, so
a handler that waits for a place in the queue gets it (strong fairness). An RPC
call ends by its own timeout at the latest, so a worker at a task moves on, and
its attempts are bounded. No fairness is assumed of clients, of judges or of the
deadline. `HeaderSync!FairSpec`: a thread of a running process goes on; a daemon
that is asked again and again answers at some time (strong fairness of `GetBest`
and `Fetch`). Crash and restart are never due; `CatchesUp` speaks of behaviours
in which the process is at last up and the thread alive.
`HeaderDownload!FairSpec`: the callers' threads run, and an exchange ends, well or
not, by the 30 seconds after which reqwest's blocking client gives up; that a call
begins is not assumed. `Gateway!FairSpec`: the container is started again when it
has stopped (`--restart=unless-stopped`, `src/README.md:144`); main and the
watchdogs are threads that run; a client that is started again and again is
started at some time (strong fairness of `Start` and `Serve`), which an upstream
that never answers would belie. `ServesAgain` speaks of command lines with which
the server can run at all (`CanServe`).

## Findings

1. `EventsMatch`: an extra RPC's error during `getAccountInfo` panics the handler
   (`chains/sol.rs:800` sends the event `chains/sol.rs:1442` calls unreachable).
2. `LoopSurvives`: a reorganisation to a heavier chain with fewer blocks and back
   makes `apply` index beyond the list (`header.rs:154`): the done headers were
   skipped, so the batch begins above the list's end. The thread panics with the
   write lock in hand instead of retrying.
3. `HashOfOwnNetwork` with two networks: `getblockhash` caches by height in a
   cache both networks share (`btcrpc/mod.rs:208`). With one network it holds in
   the weaker sense that the answer was on the chain at some time.
4. `CorrectProofAccepted`: a header cached as hex makes `verify_tx` refuse a
   correct proof (`chainstate.rs:122`).
5. `ConfirmedIsIncluded`: the transactions a proof marks are not compared with the
   one that was asked for (`chainstate.rs:104`).

Other disagreements the models have too, without a run of their own; where a
property comes near one, it states the exception:

- `/ping/verify_tx` is let through when Bitcoin is served, as `is_service_enabled`
  looks for `/verify_tx` anywhere in the path (`server.rs:232`); the handler unwraps
  the Dogecoin client too, and panics when that was never started (`Enabled`,
  `Uses`); `/ping/verify_tx_doge` the other way round. Any other `/ping/...` is
  refused whatever runs (`server.rs:244`). `ServiceRoutesMatch` therefore excepts
  `Pings`, and says that a handler panics nowhere else.
- `getblockheader`, asked for the hash of an Ethereum or Optimism transaction in
  Bitcoin's order of bytes, answers with the receipt cached under it
  (`btcrpc/mod.rs:162`). `HeaderAsAsked` holds while the SPV endpoints have the
  cache for themselves (`spv_reorg`); when they share it, `HeaderOrReceipt` does.
- `getblockhash` answers a height with a hash the first time (`btcrpc/mod.rs:220`),
  and from the cache with the header object (`:208`). `HashOfOwnNetwork` is about
  the block that either names.
- `verify_tx` takes a header from the cache without a look at its network, so a
  block of Dogecoin that a handler of `/doge` has cached confirms a Bitcoin
  transaction (`chainstate.rs:120`). `ConfirmedByP2P` is about any P2P client.
- An insertion into a full cache takes the first entry out even when its own key
  is there already, and leaves the cache one short (`utils.rs:102`, `Evicted`); two
  handlers that miss the same key get there. `EvictsWhenFull` speaks of the entry
  that leaves, not of the room it makes.
- Without `electrs_support` and `btc_only_p2p` `start_server` does nothing: main
  starts every client and returns (`Serve`; `main.rs:245`), also with the command
  line of `src/README.md:43`.
- `electrs_support`, "to only start the P2P service" (`src/README.md:51`), does not
  keep main from starting the other clients (`Wanted` does not look at it).
- `/eth2`, "for batch Ethereum-related operations" (`server.rs:181`), takes a single
  call, and `/eth` takes batches (`Fits`).
- Receipts are cached by hash alone: `/eth` answers with an Optimism receipt that
  `/optimism` has left in the cache, and the other way round (`Hit` does not look
  at the route). `AnswersGenuine` is about what is true: some helios client vouched
  for it.

## Proofs

Every invariant, action property and refinement that a passing run checks is also
a theorem, for every tree of blocks, every number of RPCs, tasks, handlers and
requests, and every positive capacity, size of batch or chunk. The proofs of a
module are in the module `<name>_proofs`. Hardly any of the properties is
inductive by itself; each module has one invariant that is, from which the others
follow.

| Module | Inductive invariant | Theorems |
|---|---|---|
| `SolDispatch_proofs` | `Inductive`: `IInv` | `TypeCorrect`, `RequestsKept`, `VotesKept`, `NeverBlocked`, `VotesAuthentic` |
| `SolService_proofs` | `VInvHolds`: `VInv` | `AnswersVerified`, `ServiceImplemented` |
| `HeaderSync_proofs` | `SyncInvHolds`: `SyncInv` | `TypeCorrect`, `AlwaysRecoverable`, `DoneStaysClosed`, `ListStaysChain`, `BatchStaysLinked`, `MemoryStaysDisk` |
| `HeaderDownload_proofs` | `DInvHolds`: `DInv` | `TypeCorrect`, `RepliesAsAsked`, `SourceImplemented` |
| `SpvRpc_proofs` | `SpvInvHolds`: `SpvInv /\ OwnKeys` | `TypeCorrect`, `CacheKeepsItsSize`, `CacheStaysCoherent`, `ConfirmationsFromP2P`, `HeadersAsAsked`, `HashesOfTheNetwork` |
| `Endpoints_proofs` | `AllInvHolds`: `AllInv` | `ClientTypeCorrect`, `KeysStayApart`, `HeadersOrReceipts`, `AnswersStayGenuine`, `NullsStayCurrent`, `EvictionsWhenFull` |
| `Gateway_proofs` | `StartsInOrder`: `IInv` | `TypeCorrect`, `RoutesMatch` |

`HeaderList_proofs` has lemmas only, which both header modules and `SpvRpc_proofs`
rest on.

**SolDispatch.** `IInv` is `TypeOK` with two parts. `Flow`: a task goes once from
its handler to the queue, to the ring and to its reply, and the one being served
is the last one broadcast. `Ballots`: a worker's answer to the task being served
is counted or in the inner channel exactly when the worker has received every
broadcast and is idle, and it is there once. That a lagging worker loses no vote
rests on `Flow`: as the task being served is the newest broadcast and the ring
keeps at least one, only tasks that are over can be overwritten. That a worker
never waits for a place rests on `Ballots` and a pigeonhole argument: the senders
of the messages in the channel are distinct and differ from the worker.

**SolService.** `VInv` adds `AuthenticVotes` and two parts. `Asked`: the judge has
answered every task that is on its way, and who answers a task is past its
broadcast and done with it, so that nobody answers twice. `Backed`: a response or
a result that is no error is the decision over what all extra RPCs said, which is
therefore fixed when the response is made. What remains is about the decisions
alone: a value ahead of all others in the counts of the code is ahead by the
numbers of its voters, and an entry that nobody repeats is mentioned as often as
there are RPCs that list it. Of other entries nothing is proved but that the judge
lists them; the lists themselves are arbitrary.
`ServiceImplemented` goes through the callers' and the workers' steps.

**HeaderSync.** `SyncInv` says of the disk that done rows are closed under
ancestors and have their headers (`Disk`); of the list in memory that it is the
chain of its tip and that the map, which is never cleaned, gives a hash no height
but that of its block (`GoodList`); and of the round in progress that its batch is
the part of the target's chain behind headers that are done, with as many rows on
disk as were written (`Round`). A crash may then come anywhere, since `Disk` does
not speak of memory. `GoodList` is what makes a stale map harmless: a hash that
was cut off still has its right height, and `Known` compares the header there.

**HeaderDownload.** The code compares neither a header of the walk nor a proof
with what was asked for; what it relies on are ids. `DInv` says that calls have
different ids, that every reply of every batch the node has ever sent (`past`) is
either dropped by a caller or fits its open call (`Hears`), and that a walk has
come down the target's chain without passing a block the list knows (`Passed`).
So a walk that ends has exactly what the list lacks; a download by height ends
well only after `IsChainTo`, and a linked sequence from the first block to the
target can only be its chain (`ChainUnique`).

**SpvRpc.** `SpvInv` says that the cache is within its bounds, that an entry under
a block's hash or a height is a header of that block or of a block of that height
that some P2P client, of any network, has had, and what each handler may hold at each of its steps
(`Handling`): a header found under a hash, or answered by the client, stays right
when others write and evict before it is used. `OwnKeys` is separate, as other
handlers cache other keys: with it, a header is never answered for a hash of no
block, without it a receipt may be (`Endpoints`). `HashesOfTheNetwork` has the hypothesis that there is
one network (`Nets = {n}`): with two, `spv_network` refutes the property.

**Endpoints.** `AllInv` is `SpvInv` with `ClientInv`: what is under any other key
was vouched for, and what each handler has answered and still holds. Each kind of
handler keeps the other's part because no handler writes under a key of another
kind: heights and signatures have lengths of their own, and no helios client has
a receipt for the hash of a block (`KeyAssumption`). What a handler may read under
a key of another kind is part of the invariant (`ForeignAnswers`): it is how
`getblockheader` comes to answer with a receipt. `NullsStayCurrent` and
`EvictionsWhenFull` are action properties, proved step by step from `AllInv`.

**Gateway.** `IInv` says how far `main` has come: the clients that are started
are those wanted by the stages it is past. `RoutesMatch` rests on
what a server that serves has: all clients that are wanted, and no other.

The assumptions are on constants, named, and evaluated by TLC in the runs:
finite non-empty RPCs and positive sizes; marks that are no values
(`MarksAssumption`, `CallersAssumption`); a tree whose blocks name their
predecessors (`TreeAssumption`, `ChainAssumption`); headers of one network
following headers of the same network, and keys of eight bytes that are no hashes
(`NetAssumption`); bodies that are lists of calls (`ClientAssumption`).

Induction is available only over numbers, in the form of the lemma `Counting` of
`HeaderList_proofs` and `SolService_proofs` (the library's theorems take operators as parameters, which
the provers cannot instantiate). That is enough for chains, which are
well-founded by their length, and for the lists of signatures.

Only model-checked: liveness - `EveryRequestEnds`, `CatchesUp`, `EveryCallEnds`,
`ServesAgain` - which is out of the prover's reach, and the five disagreements
under "Findings", which are counterexamples.

## Not modelled

- `types.rs`, the sealing and signing of the enclave, parameter parsing and the
  format of responses: data, formatting and external code. A parameter is good or
  not where that changes what a handler does.
- What nakamoto, helios and RocksDB do inside; the indexer's version row and the
  options of the database.
- `sync_headers_with_api_check`, `api_check`, `gettxoutproofs`, `SimpleCache::write`
  and `verify_txid`'s optional block hash, which nothing calls or gives.
- Expiry: a receipt or a height stays cached after a reorganisation, until other
  entries push it out. The models have this behaviour; no property forbids it, as
  nothing in the code or its documents does.

## Plan

No component of the inventory waits for a model, and no safety property for a
proof. What could still be done is to state more: that `HeaderSync`, with
`HeaderDownload` in the place of its atomic `Fetch`, has the same invariants, and
that `SpvRpc` answers what a specification without a cache might answer.
