# RIBS verification

TLA+ models of RIBS, a block store that fills groups of blocks on local disk,
turns each full group into a CAR file, makes Filecoin storage deals for it and
later offloads and reloads its data. The modules are written from the source in
`src/`: the Go node and the web application (JavaScript) that shows it; `PROJECT.json` maps every definition to the lines it stands for.

This file has the inventory of the system, the plan, the modules with the runs
that check them, the proofs, and what is left out.

## 1. Inventory

### Storage

| Part | Source | State | Operations | What makes it correct |
|---|---|---|---|---|
| CarLog | `carlog/carlog.go`, `idx_level.go`, `idx_bsst.go`, `mhlist.go` | append-only CAR file with a write buffer, head file (`RetiredAt`, `DataEnd`, flags, layers), LevelDB index, then BSST index or staged car | Create, Put, Commit, View, MarkReadOnly, Finalize, genTopCar, Open with truncate; LoadData, FinDataReload, Offload, OffloadData, WriteCar, HashSample | what a Commit returned for survives any crash; an index never points at other data; every crash leaves a log that opens |
| Group | `rbstor/group.go`, `group_finalize.go` | counters, state, row in `groups`, entries in the top-level index | Put, Sync, View, Finalize, GenCommP, LoadFilCar, FinDataReload, offload, offloadStaging | committed blocks are listed and readable; a group in state VRCARDone has its car; sizes stay within a sector |
| Group manager | `rbstor/rbs.go`, `group_storage.go`, `group_worker.go`, `db.go` | mutexes `lk` and `writeLk`, open and writable groups, task channel, tables `groups` and `offloads` | Batch.Put, Batch.Flush, View, Offload, LoadFilCar, ensureSpaceForGroup, createGroup, workers, resumeGroups | one writable group, bounded local groups, Flush commits, no group forgotten, no deadlock |
| Top-level index | `rbstor/index_pebble.go`, `index_metered.go` | Pebble keys block/group and sizes | AddGroup, DropGroup, GetGroups, GetSizes, Sync | a listed group has the block; a committed block is listed |
| BSST index | `bsst/bsst.go` | one file of hashed buckets | Create, Has, Get | Get returns what Create was given |
| Blockstore adapter | `integrations/blockstore/ribsbs.go` | channel of puts, flush token, `flushReq`, `flushPos`, the loop's batch | Put, PutMany, Flush, Close | Flush and Close commit what was acknowledged; no call waits for ever |

### Deals, retrieval and repair

| Part | Source | State | Operations | What makes it correct |
|---|---|---|---|---|
| Deal database | `rbdeal/deal_db.go` | rows of deals, providers, S3 cars, repairs, retrieval results | one update per event of a deal | a deal that failed stays failed, one that may exist is still tracked |
| Deal maker | `rbdeal/group_deal.go`, `deal_params.go` | a lock per group | makeMoreDeals | enough and not too many live deals, distinct providers |
| Deal tracker | `rbdeal/deal_tracker.go`, `ributil/currentdealinfo.go` | none besides the rows | one check loop | every deal reaches a final state |
| Staging storage | `rbdeal/car_offload_s3.go` | upload lock per group, rows, the bucket | upload, read, cleanup | a row names a complete car; locks are released |
| Car server | `rbdeal/car_server.go` | transfer statistics, rate counters | handleCarRequest | a provider gets the car its token names |
| Repair | `rbdeal/deal_repair.go`, `ributil/repair_car.go` | queue rows, four workers | AssignRepair, repairStep | a repaired group is reloaded once, nothing is stuck in the queue |
| Retrieval provider | `rbdeal/retr_provider.go` | promises per block | FetchBlocks, fetchOne | every waiter is answered, no promise closed twice |
| Retrieval checker | `rbdeal/retr_checker.go` | probe results | one probe per deal | results are per deal and recent |
| Rate limiter | `ributil/minratewriter.go`, `robusthttp.go` | counters per provider and in total | Get, Check, release | the counters equal the transfers at work |
| Crawler, claims, wallet | `rbdeal/sp_crawl.go`, `claim_extender.go`, `wallet.go` | rows and cached answers | periodic polls | none beyond the chain calls they make |

### Web application

Under `integrations/web/ribswebapp/src`; it talks to `integrations/web/rpc.go`
over one websocket.

| Part | Source | State | Operations | What makes it correct |
|---|---|---|---|---|
| RPC client | `helpers/rpc.js`, `routes/Root/RpcStatus.js` | current client, callbacks, timers, the status shown | get, call, callFil, onConnect, onDisconnect, autoReconnect | a lost connection is replaced, once; the status is honest; a call's report is right |
| Wallet form | `WalletInfoTile` of `routes/Status.js` | dropdown, operation type, amount | handleAddWithdrawClick, handleSubmit | what it reports is what the node did |
| Group panel and page | `routes/Groups.js`, `routes/Group.js` | `group`, `refreshing` of the live closure, its interval | fetchGroup, effect on `[groupKey]` | shows one group's row and deals, of one time, never going back, and keeps refreshing |
| Content page | `routes/Content.js`, `routes/Root.js`, `index.js` | input, list of groups, expanded entry, error | findCid, handleGroupClick, navigation | the panel belongs to the expanded entry of the last list |
| Polling pages and tiles | `routes/Status.js`, `Providers.js`, `Provider.js`, `Repair.js`, `Groups.js` | results shown, previous answers, averages | one fetchX on an interval each | results of one fetch are shown together, rates add up and stay finite, pages become current |
| Display helpers | `helpers/fmt.js` and the views | none | formatting, counts, pages | what is shown can be read back; nothing is left out or counted twice |

Node assembly (`rbdeal/ribs.go`), the IPFS plugin and its file protocols
(`integrations/kuri`), the RPC server, `ritool`, wire types and generated
encoders complete the repository.

### Interactions

An IPFS node puts blocks into the adapter; its loop writes them with a batch of
the manager; the manager finds, opens or creates a group; the group writes its
log and the top-level index concurrently. A Put that fills a group queues a
Finalize task; a worker builds the car (and uploads it when staging storage is
configured) and computes CommP. The deal parts see the group in state
LocalReadyForDeals, make deals and call Offload; reads of an offloaded group go
to the retrieval provider; repair fetches a car back and calls LoadFilCar, whose
FinDataReload task makes the group local again. The web application polls the
diagnostic calls: each page and tile fetches on an interval through the one
current client, and only the wallet form changes anything at the node.

### What is hard here

* Crashes: a group's state is spread over a data file, a head file, LevelDB, a
  SQLite row and the top-level index, written one after the other.
* Concurrency: `lk` and `writeLk` with releases in the middle of operations, two
  goroutines inside Put, readers during the swap of an index, workers against
  restarts, callers of Flush against the loop.
* The browser: no threads, but fetches that overlap, answers in any order,
  closures that see the state of an old render, effects that start over when a
  key changes, and calls that never settle.
* Failure: a flush that fails, a transfer that is dropped, an answer that is lost.

`PROJECT.json` lists the main ones at their line with the properties that cover
them, or why none does yet. Further ones wait for the modules of the plan below;
each is named with the module that is to cover it. No property covers these:
`withReadableGroup` reads the map `openGroups` without `lk` (a data race whose
outcome is the runtime's), `resumeGroups` gives up on all groups when one fails to
open, the adapter's loop ends after a failed flush without telling its callers
(`ribsbs.go:167`), and in the web application the amount of 10^18 the form starts
with (sent as 1e+36), a node without groups, a click on the toggle of failed deals
(which also collapses the entry), and a change of the provider in the URL.

## 2. Plan

1. **CarLog, Group, BlockStore, GroupProofs** (done): the durability of blocks
   from Put to the finished car, with an abstract specification and proofs.
   GroupLife, the life of a group as its row records it, is what both Group and
   Manager implement.
2. **Manager, ManagerProofs** (done): batches, locks, workers and restarts over many groups.
   It takes a group's operations as single steps.
3. **RibsBlockstore, RibsBlockstoreProofs** (done): the adapter above the
   manager. It takes a batch as the set of its uncommitted blocks, which is what
   `FlushCommits` of Manager promises.
4. **RibsRPC, GroupPanel, Pages, Polls, Fmt, Tiles** (done), with a proof module
   for each but Fmt, whose functions are in TilesProofs: the web application, from its connection to what it
   displays. Pages composes the routes and the content page with GroupPanel; Tiles composes Polls with the car upload tile and Fmt.
5. **GroupData**: offload, LoadData and FinDataReload of a group with crashes
   between the removal of files and the update of the head (`carlog.go:1318`), and
   the offloaded flag that is set before the state is checked. Properties: a group
   in state Reload can always finish or start over; local data is removed only
   when it exists elsewhere; readers never see a half loaded group.
6. **TopIndex** with Session.View: several groups per block, the choice of one,
   and the fallback to retrieval; View returns at the first offloaded group
   (`rbs.go:250`).
7. **Deals**: the life of a deal row under the maker, the tracker, transfer
   statistics (`deal_db.go:1486`) and lost answers (`group_deal.go:246`); abstract specification: a deal state machine
   that only moves forward.
8. **Staging** and **Repair**: upload lock (`car_offload_s3.go:103`, an early return keeps it),
   multipart rows, cleanup (`car_offload_s3.go:393`); the repair queue, its workers and crashes (`deal_repair.go:111`); RepairCar as a pure algorithm on a stream.
9. **Retrieval** and **RateCounters**: shared promises (`retr_provider.go:437`)
   and shared counters (`robusthttp.go:57`, released twice).
10. **Bsst**: lookup in hashed buckets (`bsst.go:422`, the edge of a bucket), checked
    against a reference definition.

Steps 5 to 10 are open. Every safety invariant and action property the passing runs
check is proved (section 4). Theorems worth proving next: the safety invariants of
GroupData and Deals once they are modelled. Liveness stays with TLC.

## 3. Modules and runs

### CarLog and Group

`CarLog` has the state of one log: the data as a sequence of entries of unit
length (`log`, `flushed`, `torn` for an entry that is only partly in the file),
the head, the LevelDB and BSST indexes, the canonical index and the staged car,
and `jb`, the open object with its cached lengths. Its operators are the steps
between which a crash leaves different files. `Group` composes them into the
operations of a group: `pc` is where the one operation that holds `dataLk` is.
`topIdx` and `db` are the top-level index entries and the row. `written`,
`acked` and `attempted` are observers that no guard reads.

Abstractions: a block is one unit, so byte and block counters coincide; CAR
headers and the layout of the top tree are one entry `Top`; an upload
completes, fails (`FinalizeFails`: Finalize returns with `finalizing` set, and the
group stays Full until the next start), or the process dies before it ends. A crash keeps the flushed prefix of the
file and whatever part of the buffer had reached it; a power loss may also lose
LevelDB writes that were not synced.

`BlockStore` is the abstract specification: blocks are offered, offered blocks
become durable, and a durable block stays durable. `Durable` is the refinement
mapping: what a restart would find in the index the head names. `GroupLife` is a
second abstract specification, of the row's state alone: filled once, then its
car, its CommP, and from there offloaded and loaded again. Group implements it
(`FollowsGroupLife`) with `db.state`, and each group of Manager with its row
(`FollowGroupLife`, a theorem that no run checks).

| Run | Shows |
|---|---|
| `group_staged` | with staging storage and up to two crashes or shutdowns, under fairness: a full group gets its car and CommP, across stops too, unless an attempt of Finalize fails (`FullGetsReady`, `GivenUp`); `CommittedReadable`, `OpenSucceeds`, `CommittedListed`, `VRCARHasLayers`; and the refinements `ImplementsBlockStore` and `FollowsGroupLife` |
| `group_local` | without staging storage, where BSST replaces LevelDB in place: `IndexSound`, `GroupFits` and the inductive invariant `IInv` |
| `power_loss` | refuted: a power loss after Commit loses the LevelDB entry of a committed block, because Commit does not sync that index |

Three more behaviours the model has, and no run is about but where it is said:

* An entry of which a crash left only a part, with nothing indexed behind it, is
  not cut at Open, and a later Commit retires it: the log can then not be read
  from front to back, although every block in it is found.
* Without staging storage a crash between the Finalized flag and the top tree
  gives a group in state VRCARDone without its layers. So `VRCARHasLayers` is a
  property of `group_staged` only.
* Open cuts an unfinished top tree but keeps the old lengths, and genTopCar
  refuses to resume until the next start. This, a torn entry in the layer, and an
  upload that failed are the three reasons for which Finalize gives a group up
  (`GivenUp`). `FullGetsReady` promises the car, or that one of these three
  happened: whatever else a stop leaves, the next start takes it up.

`GroupFits` has two halves. What the row counts, with what is in flight, is
within the group's size. And the log holds nothing that is not accounted but
what was in flight when the process stopped (`unaccounted`, an observer): a crash
between the head and the row of one Commit leaves retired blocks that the row
does not count, and the group then takes more than its size. How much is bounded
by what was in flight at the stops. The block limit is no bound at all: Put
compares it with the committed blocks only, so one batch may go beyond it.

Bounds: two blocks, logs of at most four entries in `group_staged` and five in
the others, calls of at most two blocks, groups of three blocks. Two blocks are
enough to tell "this block" from "another block" at an offset; four entries hold a
full group and its top tree, and in five there is room for a block that a stop
left unaccounted; in the first two runs the block limit is two, below the size
limit, so that each limit is the one that binds at some time; two stops let a recovery itself be
interrupted. `CHECK_DEADLOCK FALSE`: when the group is ready and the stops are
used up there is nothing left to do.

Fairness in `group_staged`: an operation that has begun goes on, and a worker
that waits for `dataLk` gets it in the end (Go's mutexes hand over to a starved
waiter), hence strong fairness for `FinalizeBegin`. A node that stopped is started again
(`Open`), and its resumption calls Finalize and GenCommP; that the manager's does,
for every group it can open, is what `manager_live` checks. Nothing is assumed of
a group that is given up: the code does not try it again before the next start.

### Manager

Writers are batches, workers take tasks; `wpc` and `kpc` are where each is, `lk`
and `writeLk` are the owners. Mutexes, the two-step writes of the tables and the
creation of row and files are separate steps. Put, Sync, Finalize and GenCommP
of a group are one step each. What justifies it is `dataLk`, that no two tasks
are ever at one group (`TasksDue`), and that both modules follow `GroupLife`.
Tasks that are queued or about to be sent are one set: the channel holds 1024, and
`TasksDue` says that none is sent twice. A task may fail (`Advances`: the log refuses,
an upload breaks off, the state is another): the worker logs it and drops it, and
a failed Finalize still falls through to GenCommP, which then finds the group Full
and fails as well. The resumption at start returns at the first group it cannot
open (`ResumeFails`). `dropped` is an observer of the groups that were given up in
these two ways; an open, or a crash, gives each of them its next task.
`unsynced` is an observer of which batches have blocks that were not synced.

| Run | Shows |
|---|---|
| `manager` | three groups, two batches, a worker whose tasks may fail, room for one local group, one crash: `OneWritable`, `LocalBounded`, `FlushCommits`, `TypeOK` |
| `manager_live` | two groups, one batch, two workers, tasks that fail, one crash: a group on its way to CommP has its one task or was given up (`TaskAccounting`: `NothingForgotten` and `TasksDue`), and every full group gets its CommP or is given up (`FullGetsReady`) |
| `lock_cycle` | refuted: a batch waiting for space holds `writeLk` and wants `lk`, a second holds `lk` and wants `writeLk` |

Bounds: three groups are needed for a writable, a full and an offloaded one at
the same time; two batches for every race on the mutexes; two workers, in `manager_live`, to
be at one group; one group at a time offloaded or on its way back (`MaxAway`); one
crash drops the queue at every point. `CHECK_DEADLOCK FALSE` because keys run out and because
the lock cycle is a real deadlock, reported by its own run.

Fairness in `manager_live`: goroutines run, a waiter gets the mutex in the end,
and the queue is first in first out, so each group's task has its turn (strong
fairness per group for `TakeTask`). The run has one batch since two can lock
each other out.

Two more behaviours the model has and no run is about, since the code promises
nothing there: a crash between the insert of a group's row and the creation of
its log leaves a writable group that never opens (`SelectFails`), and a crash
between the two database writes of offload leaves a group that is always chosen
as offload candidate and always refused (`OffloadStaging`, `RelockErr`). Both
make every later Put that needs the group fail.

### RibsBlockstore

One action per step of the loop in `start` (receive, merge, write the batch,
answer, take a flush token, drain, note the position, flush, store the position,
end), and of Put, PutMany, Flush and Close. A batch may fail: a failed Put wrote
some of its blocks, a failed Flush committed some. Callers may give up at any
time; their requests stay in the channel. `acked`, `before` and `failsAt` are
observers.

| Run | Shows |
|---|---|
| `blockstore` | `FlushDurable`: a Flush without error commits what was acknowledged before it, unless a flush failed meanwhile; `CloseCommits`; `NoFlushForgotten`: merged tokens lose no call; `NoPutForgotten`; `TypeOK` with the bounds of the counters |
| `failed_flush` | refuted: after a flush that failed, Flush returns without error (`FlushGuarantee`) |

Bounds: two callers of each kind are what merging and racing need; one block,
since the properties speak of each block by itself; a channel of one, one failed
flush and two calls of Flush at a time. `NoFlushForgotten` and `NoPutForgotten`
are the safety core of "every call returns": while the loop runs, the step that
answers a waiting call is always ahead. `CHECK_DEADLOCK FALSE`: the loop ends
after Close.

### RibsRPC

`createInstance`, `autoReconnect`, `call` and the callbacks of RpcStatus over the
clients made so far, each with its socket, its handlers and its tries. `Attempt`
is one round of the loop of call, `Rejected` its catch; the two loops of call
and callFil are the same. `Submit`, `Answered` and `Refused` are the wallet form.
The client, rpc-websockets, is external: it connects by itself, gives up after a
number of failures in a row, emits "close" only for a connection that was open,
rejects calls while it is not open, and never settles a call whose connection is
lost. The node may fail a request before or after its effect.

`web_rpc`: one call, three attempts, two tries, two faults, four clients (two
faults can lead to no more). Fairness: timers fire, a connection attempt ends, a
stopped server's connections end, the node answers. Nobody promises that the
server starts, so `Recovers` is about servers that stay up. It shows
`ReplacedOnce`, `OkMeansConnected`, `CallAccounting`, `Recovers` and
`CallsSettle`. `Recovers` and `CallsSettle` name what the
code leaves open: a client that used up its tries before it was ever connected
is not replaced, and a call on a lost connection never settles. `ReplacedOnce`
also says how many clients there are: since a replaced client connects again by
itself, a restart of the server is a close event for each of them, and their
number doubles.

### GroupPanel and Pages

`GroupPanel` is the panel and the page of a group: what is shown, what the live
closure sees (`captured`, `capMeta`, `capAge`), its `refreshing`, and the fetches
on their way with the closure they belong to. `RunEffect` is the effect with its
first fetch, `Interval` a tick, `GroupMeta`, `GroupDeals`, `SetGroup` and
`ChainHead` the rest of fetchGroup, `FetchFails` its catch and a call that never
settles. `Pages` adds the routes and the content page; its `RenderPanel` says
when React keeps the panel, gives it another key or mounts a new one. Its steps are
those of GroupPanel or leave the panel alone, which is how the module is written
and no property of the code.

| Run | Shows |
|---|---|
| `web_pages` | `ShownTogether`, `StuckAfterFailure`, `NeverBack`, `PanelOfEntry`, `PanelInv` (with one fetch per closure), and `Freshens`: a panel that is not stuck becomes current |
| `group_throttle` | refuted: offloaded groups are not fetched at most every 120 s, since fetchGroup sees the group as it was when its effect ran (`OffloadedThrottled`) |

Bounds: two groups of two versions (writable, then offloaded), two fetches on
their way, thresholds of one, one and two units, one CID and two searches on their way (one in
`group_throttle`, whose trace needs none). Two of
each are what it takes for an answer to be late, for another group or another
version. Answers are lists with a group twice, as the index gives them, with one
group, and null. Fairness: the browser fires the interval, and a call is answered
or fails. `CHECK_DEADLOCK FALSE`: with nothing on the page nothing need happen.

Null is what the node answers for a CID that is not indexed, so "Not Found" is
never shown: the page shows neither a list nor an error.

### Polls, Fmt and Tiles

`Polls` is one page or tile at a time (`page`), given as the sequence of its
calls and the call after whose answer each result is set; `Interval` starts a
fetch, `NodeAnswers` and `Arrives` are the two ends of a call, `CallFails` the
catch. The node's data are one version that grows (`node`); the counter a rate is
made of (`counter`) grows with it and starts again with the node, and a repair
worker's FetchProgress with each of its jobs and sources (`NodeResets`,
`deal_repair.go:128-138` and `251-254`); a worker that had no job since the start
has none (-1). `Rate` is what a tile makes of a counter. `Fmt` has the pure functions.
`Tiles` adds CarUploadStatsTile, whose interval closes over the state of an old
render, and states what the functions of Fmt must give.

`web_status` checks all fifteen polls and the functions: `SetTogether`,
`RatesSound` (`RatesAddUp` and `RateFinite`), `ForwardUnlessOverlap` and
`BecomesCurrent` for the polls, `GlobalOncePerAnswer` and `GlobalRateHeals` for the
upload tile, `FormatsReadBack` (`NumbersReadBack`, `Num6ReadsBack` and
`DurationsReadBack`) and `ViewsComplete` (`DealsAccounted` and
`PagesComplete`) for the functions. Bounds: two fetches at a
time, one failure, a counter that starts again once, four versions of the data for single calls and fewer for the
longer polls, at most two milliseconds between answers (zero is the case that
matters); numbers around every change of unit, and lists of up to 100 groups.
A
number is formatted as its digits, the number of decimals and the index of its unit;
`Pow` is what the divisions in the loops add up to. The unit is the largest the number
reaches (`InUnit`), but for `formatFil`, whose loop ends at FIL, and the text is within
half of its last digit. Indexes past the last unit (a number of 10^27 or more, which
would be shown with "undefined") are not told apart from units. Averages are integers in tenths, rounded down; the global upload rate of the tile
is a number or NaN (`Num`, `NaN`). Fairness: intervals fire and calls
that do not fail are answered. `CHECK_DEADLOCK FALSE` for the functions, which
are initial states without a step.

Numbers are floats in the code. A division by 1000 may end just below or above the
quotient, which matters only where the quotient lies on the border of two
results: there both are allowed (`low`, a parameter of the functions that divide
by 1000). A division by 1024 is exact.

Three properties name what the code leaves open. `Num6ReadsBack`: formatNum6 writes
thousandths without leading zeros, so 1004 is shown as "1.4 k" and read as 1400;
and the float it cuts may have lost one, so 1005 is "1.4 k" too and 1001 is "1 k".
What it says is that a number whose thousandths have no leading zero is read as
itself or less, by no more than a thousandth of its unit. `RateFinite`: two answers
within a millisecond leave an average NaN or infinite. `ForwardUnlessOverlap`: no
rate is negative as long as no fetches overlap and the counter has not started
again; once it has, Repair shows a negative rate. `RatesAddUp` holds all the same:
the differences add up to what the counter changed by.

## 4. Proofs

Checked by TLAPS for every value of the constants that satisfies the named
assumptions. The inductive invariants were checked with TLC on the bounds of the runs
before they were proved; the runs themselves keep the properties.

**GroupProofs.** `Invariance` proves `Spec => []IInv` under the assumption that
only the process crashes (`PowerLoss = FALSE`; with power loss the claim is
false, see `power_loss`). None of the safety properties is inductive alone:
that a committed block is readable after a crash depends on the file being at
least as long as the head says, which depends on the order of flush and head in
Commit, which differs at each `pc`. `IInv` therefore says, in named parts, what
the open object has of the head (`ObjectInv`), what each head flag presupposes
(`HeadInv`), where the operation can be (`ControlInv`), how long file and log
are there (`LengthInv`), what index offsets point at (`RetiredInv`, `ServedInv`,
`SealedInv`, `FinalInv`) and what was acknowledged (`AckedInv`, `WrittenInv`,
`PutInv`, `OfferedInv`). There is one lemma per action. From it follow
`TypeCorrect`, `CommittedReadableAlways`, `IndexSoundAlways`,
`OpenSucceedsAlways`, `CommittedListedAlways`, `VRCARHasLayersAlways` (with
staging storage) and `Refinement`: every step of Group maps to a step of
BlockStore or a stutter, because no step removes an index entry below
`RetiredAt` and Finalize replaces the index only when the new one has the same
blocks. `GroupFitsAlways` has an invariant of its own, under the same assumption:
`FitInv` says that the open group counts what the row counts, and that a writable log
and its file are no longer than what is accounted, in flight or was in flight at a
stop; that Put takes no more
blocks than fit (`TakenFits`) is an argument about the cardinality of the prefix
it takes. `LifeRefinement`, that the row follows `GroupLife`, holds with power losses
too. Its invariant (`LifeInv`) says that the state in memory is the row's, but while a Put that
filled the group has yet to sync it: so the state a Sync writes is the row's own, or Full for a
row that is Writable, even when GenCommP moved both on while the Sync was at work.

**ManagerProofs.** `Invariance`, `TypeCorrect`, `OneWritableAlways`,
`LocalBoundedAlways`, `FlushCommitsAlways`, `NothingForgottenAlways`,
`TaskAccountingAlways` and `LifeRefinement`, for any
number of groups, batches, workers and crashes and any limit of local groups. None
of the safety properties is inductive, because a batch gives up `lk` while it waits for room
and decides later on what it saw before. The invariant has one part for each
thing such a batch relies on: `LockInv`, each mutex is held by the batch that is
between taking and releasing it, and by no other; `GroupInv`, open groups
have files and are in the state of their row, and writable ones are listed;
`BatchInv`, what a batch knows at each step: while one creates a group none is
writable, which `writeLk` protects although `lk` is free; `SpaceInv`, from the
count of local groups, or the end of an offload, to the insert of the row there
is room; `SyncInv`, blocks not synced are in a writable group that the batch has
yet to flush; `TaskInv`, a group on its way to CommP is open and queued or at a
worker (or still with the batch that filled it), or closed and to be resumed, or was
given up by a failure.
A row becomes Full before its task is sent, and a worker moves on from Finalize
to GenCommP without the queue: so the part says who attends to a group at each
step. There is one lemma per part, with
one step per action in it (`MovingFrame` covers the steps that only move a batch),
and `NextIInv` puts them together. `TasksDue` is inductive relative to it: a task is sent
for a group that was closed (and has none, since the groups of tasks are open), that
the batch sending it filled, or that was offloaded, and only the worker at a task moves
its group on. That a group given up has no task rests on its row (`DroppedInv`): it is
past Writable, so that no batch is about to send one for it. `LifeStep` follows from both memory and row having the same state
(`GroupInv`). The deadlock of `lock_cycle` contradicts none
of these: they are about what happens, not that something does.

**RibsBlockstoreProofs.** `Invariance`, `FlushDurableAlways`,
`CloseCommitsAlways`, `NoFlushForgottenAlways`, `NoPutForgottenAlways` and
`TypeCorrect`, for any number of callers, blocks and failures. The strengthening records that
acknowledged blocks are committed or in the batch (`StoredInv`), that the
position noted is never behind the stored one and never ahead of the requests
(`PositionInv`), that a call answered by a position has its blocks committed
(`AnsweredInv`), and that a request keeps its caller's blocks until it is
answered (`RequestInv`). `TypeCorrect` includes the bound on the batch: without
failures it holds at most what the check of its size lets through and one merged
put, and each flush that fails lets it grow by one merged put more
(`UnflushedInv`, which rests on what the loop takes from the channel at each
place, `MergeInv`).

**RibsRPCProofs.** `TypeCorrect`, `Invariance`, `ReplacedOnceAlways`,
`OkMeansConnectedAlways` and `CallAccountingAlways`, for any number of calls,
clients and faults and any limits. The status is honest only because every
client made has both callbacks (`ClientsWired`), and a success was executed only
because of what each stage of a call presupposes (`AttemptsCounted`).

**GroupPanelProofs.** `Invariance` and from it `OneFetchAlways`,
`ShownTogetherAlways`, `StuckAfterFailureAlways` and `NeverBackAlways`, for any
groups, versions, thresholds and number of fetches. `PanelInv` is needed because
each of them rests on `refreshing` covering the fetch on its way, which is for
the panel's key and, while the key does not change, has seen nothing older than
what is shown.

**PagesProofs.** `PanelOfEntryAlways` and `ErrorOrListAlways`. By the form of its
steps a behaviour of the pages is one of GroupPanel, so that the panel's theorems
hold of the specification `web_pages` checks (`PagesShowTogether`).

**PollsProofs.** `TypeCorrect`, `SetTogetherAlways`, `RatesSoundAlways` and
`ForwardAlways`, for any number of overlapping fetches, any data, any failures and
any number of times the counter starts again. The strengthening says that the results a fetch holds are in the order
of their calls and not newer than the node's; for `ForwardAlways`, that before
the first overlap there is one fetch at most, that what it has is not older than
what is shown (`NotOlder`) and, until the counter starts again, its counter not below the last
one (`Grown`), so that a rate, and an average of rates, is not negative.

**TilesProofs.** `Refines`: a step of Tiles is a step of Polls or leaves it alone,
so `SetTogether`, `RatesSound` and `ForwardUnlessOverlap` hold of the
specification `web_status` checks (`TilesKeepPromises`).
`GlobalOncePerAnswerAlways` and `GlobalRateHealsAlways`, for any byte counts: both
rest on the tile's states being what `calcRates` makes of its stats and its
captured states (`ClosureInv`), which makes the interval repeat itself.
`FormatsReadBackAlways` proves for every number what the run checks around the changes of
unit, and `ViewsCompleteAlways` what it checks of the views; `DealsAgree`,
`DealsCountedOnce` and `PagesHoldTheList` say of deals and groups in lists of every length what
`ViewsComplete` says of short ones.

These are about recursive functions. The induction theorems of the library take an
operator as a parameter, which the provers cannot instantiate, so induction here is
over sets: a set of numbers that is not all of them has a least number it lacks
(`LeastNumber`, from the well-foundedness of Nat), hence `SetInduction` and
`StrongInduction`. That a recursive definition satisfies its equation
(`RecursionHolds`, for a function whose values depend on smaller arguments) is proved
from that as well: it has a unique approximation up to every n. With it come `PowIs`,
`LevelIs` and `LevelBounds` (a number is between the power of its unit and the next),
and from these the rounding (`RoundNear`, `FixedReadsBack`), the last unit of
`formatFil` and the thousandths of `formatNum6` (`Num6Cuts`). The filtered list of
deals is taken one deal at a time (`FilterStep`), and the concatenation of the
pages one page at a time (`PagesFlatten`).

Assumptions on constants: that the limits are numbers, as the code's constants
are, that identifiers used as "none" are not members of the sets, and that byte
counts of the node are not negative.

**Only model-checked.** Liveness (`FullGetsReady` in both modules, `Recovers`,
`CallsSettle`, `Freshens`, `BecomesCurrent`): fairness and ENABLED are outside the
prover. The four refuted properties, of course, have no theorem.

## 5. Not modelled

Planned parts are in section 2. Left out for good: the crawler, claim extender,
wallet and market watch (chain calls without state of their own), the piece
commitment (a numeric computation), node assembly, the RPC server, `ritool`,
wire types and generated code. Within the modelled parts: errors of the database
and of single disk writes, the byte layout of entries, hashing of samples, and
diagnostic queries. `DeleteBlock` of the adapter is not modelled: the batch
operation it calls is unimplemented. Of
the web application: the layout of tiles and tables, `epochToDate` and
`formatPercent` (one library call each), the percentages and the CSV of the
providers, the chart of deal counts, numbers of 10^15 and more (where floats no longer
tell a quotient from its neighbours), the amount typed into the wallet form, the toggle of failed deals and
the choice of a page of groups (parameters of functions in Fmt), and a null
answered by `Groups` on a node without groups, which ends the page in the
router's error display.
