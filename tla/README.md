# A TLA+ model of SID, the Storage Instantiation Daemon

SID runs next to udev. A udev rule calls `usid scan`; the daemon forks a worker
from its main process, the worker identifies the device on a snapshot of the
daemon's database, answers the client, sends what it changed back to the main
process, waits for udev to finish with the event, and runs a second stage. This
directory models the parts that make this correct, checks them with TLC on small
instances, and proves most of their safety properties with TLAPS for instances of
any size.

## Inventory

| Component | State | Operations | Interacts with |
|---|---|---|---|
| worker control (`resource/wrk-ctl.c`) | proxy and worker states, channels (socket pairs), signals, PIDs, timers | fork a worker, send/receive on a channel, yield, exec timeout, reap, parent death | ubridge by callbacks, the kernel |
| ubridge, commands (`resource/ubr.c`) | per command: state, previous state, stage, timers; connections; event sources | accept a client, dispatch, run a stage, export, ack, reply, wake up on a uevent, time out | worker control, udev, clients |
| ubridge, database sync (`resource/ubr.c`) | the main store; what one sync has done so far | merge an export: set, unset, add and remove items, archive, commit, roll back | the key-value store |
| key-value store (`resource/kvs.c`) | records, archives, transaction buffers, heap objects | set, unset, begin, end, iterate, alias | hash table or B+ tree |
| ubridge, scan phases, ready and reserved states (`resource/ubr.c`) | device records in a worker's snapshot, the command's cache of them | module callbacks in phases, state changes by phase and module | key-value store, modules, database sync |
| device modules (`modules/ucmd`: dm, lvm, blkid, mpath) | records, dm's cookie and submodules | callbacks of the phases | scan, external libraries |
| ubridge, groups, aliases, dependencies (`resource/ubr.c`) | relations between devices, kept both ways | add and remove members, read sysfs | key-value store |
| resources and event loop (`resource/res.c`) | tree of resources, reference counts, iterators, event sources | create, destroy, isolate, move, search, iterate, event loop | everything |
| module registry (`resource/mod-reg.c`) | modules, symbols | load, unload, iterate | ubridge |
| B+ tree, hash table (`internal/`) | maps; nodes, keys and records with counts | insert, alias, lookup, update, remove, iterate | key-value store |
| buffers (`base/buf*.c`) | bytes or vectors, marks | add, rewind, read, write | everything |
| interface library, `usid`, `sidctl`, service link | one request | send, wait, read | ubridge over a socket |

Hard behaviours: the main process, each worker, the kernel, udev and the client
run concurrently and any of them may die; messages of a worker may still be
unread when its exit is reported; a uevent, an ack, a timeout and a client that
leaves may come in any order; waits without a timeout; exports of workers that ran
at the same time arrive in any order and have to be merged; a merge may fail in
the middle; who frees a stored value depends on archive, transaction and rollback;
the kernel cuts and glues messages on a socket; nodes of the tree split, borrow and
merge while keys share records; resources refer to each other and are destroyed
while they are walked; a phase of a scan fails and the next ones must make up for it.
`PROJECT.json` lists them as hazards, each at its line with the properties that
would catch it.

What makes the parts correct: nobody signals a PID that is not its child, nothing
a worker sent is lost, every yield ends in a reaped worker (worker control); the
client is answered, once and only after the main process has the stage's results,
and every command ends (commands); late records lose, concurrent changes of a
vector add up, owners are respected, a failed merge changes nothing (sync; the last
does not hold); no double free, no leak, all-or-nothing transactions (store; the last
does not hold either); the tree is a map (B+ tree); every reference is accounted for,
no walk misses a child (resources); a device whose first stage ends is settled whatever
phase failed, and a command that finishes releases its cookie (scan); every
message arrives byte for byte with its descriptor, and the end of a stream is told
from an error (buffers and channels).

## Modules

    WorkerControl            KVStore              KeyMap          Buf
         ^ refined by           ^ extended and       ^ refined     ^ extended
      Ubridge                KVSync  refined by    BPTree        Channel

                          Resource                Scan

`WorkerControlProofs`, `UbridgeProofs`, `KVStoreProofs`, `KVSyncProofs`, `ScanProofs`,
`ChannelProofs` and `ResourceProofs` extend the module they are named after; `KVSyncProofs`
also extends `KVStoreProofs`, and `ResourceTreeProofs` extends `ResourceProofs`. `MC*`
modules and the `.cfg` files instantiate them for TLC. A definition whose
comment starts with "Fault:" is a plausible bug of the definition after it; it is
used only to see that a property notices it.

### WorkerControl - `wrk-ctl.c`

`proxy[w]` is the state of the main process' `struct worker_proxy` (wrk-ctl.h),
`proxyEs[w]` whether its channel source is still on, `proc[w]` the worker's
process as the kernel sees it (forked, running, zombie, reaped), `sigs[w]` its
pending signals, `toWrk`/`toPrx` the two directions of the socket pair.
`GetNewWorker` is fork and proxy creation (`GetNewWorkerNoProxy`: the proxy fails
after the fork), `ProxyRecv*` the branches of `_on_worker_proxy_channel_event`,
`ProxyChildEvent` the lower-priority child event, `Worker*` the worker's loop,
`Emit` a send or a `sid_wrk_ctl_yield_worker`, `WorkerCrash` the death of a worker
at any point, also between the two writes of `DATA_EXT` (`TornMsg`), `MainExit` the
death of the main process. A full socket is a disabled send (`Fits`; the code
spins). `MaxLane` bounds a direction of the socket.

### Ubridge - the commands of `ubr.c`

Instances `WorkerControl` with the payloads of the bridge and adds, per worker,
the client and its connection, the command (`cmd`: state, previous state, stage,
armed handler, timer, resource tree), the main process' view of the stage's export
(`syncs`), and the uevent. `ChangeState` is `_change_cmd_state`; `CmdExec`,
`CmdAskMain`, `CmdAcked`, `CmdReply`, `CmdFail` are the branches of `_cmd_handler`;
`InterfaceEvent`, `UmonitorEvent`, `ProxyRecvSync`, `ProxyRecvResources` are the
main process' handlers. `Kinds` are the requests (a scan with two stages, a command
with a resource tree, a plain one, a refused one, one with a newer protocol, the
internal dump); `Faults` switches the faults on. Clients and udevd are external
and modelled from how the code uses them.

### KVStore - `kvs.c`

A stored value is a heap cell; `store` maps a record or an archive to its cell.
`Set` and `Unset` take the callback's verdict `ok` and whether an archive key is
given; inside a transaction they fill `unsetBuf` and `rollbackBuf` as the code does.
The two loops of `sid_kvs_transaction_end` are one action per iteration.
`committed` is what the store held when the transaction began and `working` what it
has to hold when it is over. The code relies on its callers in two ways that it checks
nowhere, and `Next` says so: nobody touches a record whose removal is pending
(`TouchOK`), and a transaction that is rolled back has removed no record into its
archive and has replaced none twice with an archive (`RollbackOK`). A record that is
replaced twice without one is within the contract: its rollback is no use after free, but
leaves the value in between (`Restored`), as the entries are replayed first to last.
`EndsAsExpected` says exactly that: a rollback is not all or nothing. `failed_sync` shows
it of the code's own transaction.

### KVSync - `_sync_main_kv_store`

Extends `KVStore` and merges `Exports`, each once and in any order. One action is
one call on the store: `SyncSet`, `SyncUnset`, `SyncArchive` (the archive that is
not wanted any more), `SyncDelta`, `SyncEmptied`; `SyncFails` is a malformed record
or a failed allocation at any record, with the rollback the code does whatever the
transaction holds; `SyncDeltaCrash` the two ways in which the loop follows a bad
pointer. `custom` is what `update_arg.custom` points to. A rollback after a removal into
an archive is outside of the store's contract: the history variable `spoiled` says that
there was one, and the properties of `kv_sync` are about the time before it. What it does
is shown by `failed_sync`: the archive stays written and shares its value with the
record, so that the next change of one of the two frees the value under the other. A
failure after a vector was both added to and removed from is within the contract, and
leaves the added items there: `FailedSyncUndone` says that this is all, `failed_sync`
shows it.

### BPTree - `bptree.c`, and KeyMap, what it promises

`tree` holds the nodes (keys, pointers, parent, next leaf), the records and the
counts of keys and records. Each function of `bptree.c` that changes nodes is one
operator from tree to tree: `InsertIntoLeafAfterSplitting`, `InsertIntoParent`,
`RemoveEntryFromNode`, `CoalesceNodes`, `BorrowFromLeft`, ...; `bptree_add`,
`bptree_add_alias`, `bptree_update`, `bptree_del`, `bptree_destroy` are the actions
(`OutOfMemory`: the nodes for the splits cannot be had); `VisitAll`, `VisitPrefix` and
`VisitRange` are the three kinds of iterator. Keys are numbers, a prefix
is an interval of them. Arrays and the loops that shift them are sequences.
`KeyMap` is the abstract specification: a set of records, each with the keys that
share it. `RefinesMap` maps the tree to it and says that every operation is the one
of the map. Deletion of an alias that shares a leaf with its key is kept out of
`bptree` by the choice of the pairs (the alias is next to its key, where the
shifted pointers are equal) and is the subject of `bptree_alias`.

### Resource - `res.c`

`res` maps the live resources to parent, ordered children, count, priority and flags;
`creating` is the stack of resources whose init function runs, so creation nests and
fails as in `sid_res_create`; `iter` and `src` are iterators and event sources. What
a destruction takes along (`Doomed`) is the least set that holds the resource and is
closed under losing the last reference, which is what the recursion of
`sid_res_unref`, `_destroy_res` and the iterators' destructors ends in whatever its
order. The callers' discipline is named in the module's header: a reference is dropped
once, a walk removes the child it stands on, no resource keeps an iterator over one
above it, nothing is created below a resource in the middle of a walk over it (a resource
number may come back, and the registry walks its modules to the end before it loads the
next), and only an event handler, `_connection_cleanup`, hands the children of a resource
to its parent, while nobody walks over either. `WalkMissesNothing` is false without the last
two, and the walks of the code keep to both.

### Scan - the scan command with dm, lvm and blkid

One action per phase of `_cmd_scan_phase_regs`: the core's part, the type module's
and, where it matters, the submodule's and the block module's. `db` is the worker's
store, `main` the one it was forked from and into which stage 1 is merged (or is
not, when the merge fails); what lacks the flag SC (udev environment, base of the
cookie) does not outlive the worker. Device numbers are used again: an event says whether
its device is a logical volume, whatever the number was before, and `DmInitProps` records
the UUID in A_INIT only, so that `SubmodMatch` decides by what is recorded, as lvm does.
`SetState` writes the store and the cache of the command. The write of a state in
`LostWrites` may fail: `_do_sid_ucmd_kv_set` then returns 1 (ubr.c:2550 puts the
comparison inside the assignment), which is taken for success, and the command goes on
with a state that its store does not hold. `scan` is `ucmd_ctx` with the cached states, `sem`
the semaphores on which `dmsetup` and `lvm` wait. Failing look-ups, sysfs reads,
`pvscan` and `vgchange` are nondeterministic results; the other writes to the
worker's store are taken to succeed.

### Buf and Channel - `buf*.c` and whoever sends with them

`Buf` has the operations of linear and vector buffers as operators on records; a byte
is known by the message and the place it belongs to, so a byte that arrives twice,
late or in another message is seen. What a vector buffer offers is described by where its
parts begin, not added up part by part. `Channel` is a sender and a receiver on a stream:
a worker's lane (several messages, descriptors), a request, a reply (vector buffer,
descriptor of the export), and what an external program prints (plain buffer, ended
by end of file). Any prefix of what is offered may be written or read at once, and
either side may end at any time.

## Runs

| Run | Result | Bounds |
|---|---|---|
| `worker_control` | holds | one worker (workers share nothing but `main`), one payload, 2 messages per direction: full, torn and reset channels all happen |
| `ubridge` | holds | one worker, every kind of request, every fault; safety, refinement and liveness |
| `kv_store` | holds | one key and its archive, two values, six cells, five buffer entries: enough for set, archive, replace and unset in one transaction |
| `kv_sync` | holds | three keys, two items, six exports in all orders; any of them may fail at any record, with vectors replaced twice and removals into an archive among what is rolled back |
| `bptree` | holds | order 4 as in `ubr.c`, fourteen keys (three levels, and an inner node borrows from either side), three operations from an empty tree and from trees filled upwards, downwards and mixed: every split, borrow and merge happens on both levels |
| `resource` | holds | five resources, one iterator, one source, five operations from the daemon's tree and from a registry of three modules |
| `scan` | holds | a dm number that is a logical volume's or another device's, from event to event, and a disk; three scans, fourteen kinds of uevents; the writes of "public" and of "free" may fail |
| `channel` | holds | prefix and command of two bytes, so that both can be cut; up to three messages with bodies of 0, 1 and 3 bytes; a socket of 7 bytes, less than a message |
| `refused_request` | violated | a refused request is never answered: `_reply_failure` writes on the wrong branch |
| `failed_sync` | violated | a sync with a broken last record (as in test_multi_broken_1) leaves the archive of a removed record written, its value shared with the record, and a vector it added to and removed from with the added items |
| `two_emptied` | violated | two vectors emptied in one export crash the main process |
| `bptree_alias` | violated | deleting an alias in its key's leaf gives the keys between them each other's records |

Refinements: `RefinesWorkerControl` (Ubridge implements WorkerControl), `RefinesStore`
(KVSync implements KVStore: until a removal into an archive is rolled back every call
and every rollback of the merge is within the store's contract) and `RefinesMap` (BPTree
implements KeyMap).

`ConfiguredByCookie` is about one step: a device that the main store has as unconfigured
leaves that state by the scan of an event that has a cookie of its own, or that finds it
suspended. A device that left it stays configured when its number is used again, as the
code forgets nothing on a remove event. `ClaimedHeldBack` is what holds of NOSCAN: dm and
lvm decide in the right order for a device lvm has claimed, or can claim at its first
event. For a number that was recorded as having no submodule - because a remove event
came first, or because another device had the number - it does not hold: lvm is never
asked again, and the volume is made public and scanned although its event says NOSCAN. The
model has these histories (drop `Claimed` from `ClaimedHeldBack` and TLC prints one); the
property leaves them out.

`failed_sync` looks at one kind of failing sync: `LastIsBroken` lets only the last record
of an export be the broken one, so that the shortest counterexample has both of the code's
incomplete rollbacks in one trace. `kv_sync` has no such restriction.

`ScannedIsProcessed` says of the store what it can: it has the states the command knows,
except one whose write may fail. With `LostWrites` empty store and command agree.

The model shows two more things that no run records. A uevent that arrives after
the stage timeout finds no worker; the handler calls it an internal error
(ubr.c:7221) and its error return turns the udev monitor off, so that later scans
leave their first stage only by the timeout. And a uevent sets a proxy in EXITING or
TIMED_OUT back to ASSIGNED (wrk-ctl.c:1310), although wrk-ctl.h:28 says that it waits
for the worker to exit; the worker is reaped all the same.

One worker is enough for `Ubridge` because workers share only the main process' two
event sources, whose loss is also a fault of its own, and the main store, which is
the subject of `KVSync`. Runs with `CHECK_DEADLOCK FALSE` are of systems that may stop:
every worker has gone, every export is merged, the bound on operations is reached.

### Fairness

Weak fairness of each event source: a source that stays ready is dispatched, by the
loop of `res.c` over epoll. The child event has a lower priority, so its fairness
assumes that the other sources of the loop go idle; in the model they do, as every
message, client and uevent is finite. The kernel delivers signals, processes that
were told to end do, timers run out, and a client that waits reads what arrives.
Nothing forces a client to send or to leave, udev to answer, or a fault to happen.
`CommandEnds`, `ClientAnswered` and `ScanLeavesStageWait` leave out the commands that
are `Abandoned`: the main process has died, or it could not write the resource tree the
command waits for. The code has no timeout in either wait.

`Channel` has weak fairness of sending and of receiving: `sid_buf_write_all` and
`sid_ifc_req` loop until they are done, and the event loops report a descriptor that
is readable until it is read. A side that ends owes nothing (`AllArrive`).

## Proofs

Each theorem holds for every value of the constants that the named `ASSUME`s of the
module allow: any number of workers, keys, devices, resources, any size of a channel,
any number of operations. Each proof module has an inductive invariant, checked with TLC
on the module's run before it was proved, `InitInd` and one lemma per action (or per
kind of action), `NextInd`, a theorem that the invariant holds always, and from it
the properties.

| Module | Theorem | What it states |
|---|---|---|
| `WorkerControlProofs` | `TypeCorrect`, `KillIsSafe`, `ProxyListens`, `NothingLostAtExit`, `YieldIsKept`, `ExitingMeansSignalled` | the types and the five invariants of `worker_control` |
| `UbridgeProofs` | `AckedBeforeReply`, `FinAllSent`, `WakeupFound`, `NoBlocking` | the four invariants of `ubridge` |
| | `TimeoutFinal` | its action property |
| | `Refinement` | Ubridge implements WorkerControl |
| `KVStoreProofs` | `NoUseAfterFree`, `NothingLeaks`, `EndsAsExpectedHolds` | the three invariants of `kv_store` |
| `KVSyncProofs` | `StoreRefinement`, `MainStoreSafe` | the merge implements KVStore, so the main store's heap is safe, until a removal into an archive is rolled back |
| | `WritesAllowed`, `NewestStays`, `NoAddLost`, `FailedSyncIsUndone` | the four invariants of `kv_sync` |
| `ScanProofs` | `ScannedProcessed`, `CookieIsReleased`, `ClaimedIsHeldBack` | the three invariants of `scan` |
| | `ConfiguredOnlyByCookie` | its action property |
| `ResourceProofs` | `ReferencesExact` | every reference of a resource is accounted for, none dangles |
| `ResourceTreeProofs` | `TreeIsSound`, `NoSelfKeeping`, `WalksComplete`, `SearchesComplete` | the other four invariants of `resource`: the tree is one, nothing in it keeps itself, no walk misses a child, searches find what they should |
| `ChannelProofs` | `ExactDelivery`, `TrueEnd` | the two invariants of `channel` |

### The inductive invariants

*WorkerControl.* `ListensWhileAlive` and `ReceivedBeforeDestroy` are not inductive:
whether the proxy may stop listening, or be destroyed, depends on how the channel got
into its state. `IndInv` adds `Origins` (the main process knows a worker only by forking
it, a worker that has not started has not yielded, and only the death of the main process
makes a worker believe in one), `StoppedListening` (a source that is off belongs to a
dead worker, and left messages unread only because of a reset) and `DestroyedIsDeaf` (a
destroyed proxy has no source).

*Ubridge.* A reply comes after the ack only because an ack can be nothing but the answer
to this stage's export. So the invariant says that command and channel move in step:
`ToWorker` and `ToProxy` give, for each message that is under way, the states in which
the command may be, and that there is at most one in each direction; `Machine` gives for
each state the states it is entered from; `Replies` relates reply, stage and export.
All of it is about one worker (`Sound(w)`), and `LocalStep` shows that a step about one
worker leaves the others' alone. For the refinement only the bridge's own steps need
a look: each is one step of `WorkerControl` or none.

*KVStore.* Whether a cell is freed once depends on how the transaction will end, so
`IndInv` sees the heap in two ways. `MayCommit`: every allocated cell has exactly one
owner - a slot, or the entry that will free it on a commit. `MayRollback`: it is every
entry of the rollback buffer that owns what it has kept, and a slot only what came last;
archives borrow the value of their record (`Lent`), and a record with entries will be left
with what the last of them has kept, or with nothing if it was not there at the beginning
(`Began`; once the rollback runs, `Ends`). While the transaction is open both hold, as long
as it may be rolled back; in its end the one that counts. The invariant needs `TouchOK` and
`RollbackOK`, which are guards of `Next`; without either the theorems are false, for the
latter see `failed_sync`.

*KVSync.* `Sound` is the store's invariant and `Loop` (what the merge has yet to read is
the end of its export), `Removed` (the records whose removal is pending are of keys it is
done with), `Fits` (a record adds at most two entries to the buffers), `Changes` (what
the merge has changed so far somebody was allowed to ask for, and a failed merge has left
every slot as it was or `HalfDone`), `Undoable` (what the rollback buffer holds of a slot:
nothing of a key not met, one entry, or the two of a vector changed by items, the second
of which has kept what the first left) and `Merged` (the store has the latest of the
finished merges, and what was asked for has that of the current one up to where it has
come). A failure may come at any record, so `Undoable` has to hold at each of them; that
no key is replaced twice with an archive, which the store's contract asks for, follows from
it. `SyncInd` says `Sound` until the first rollback of an archived removal (`spoiled`). The
proof rests on `ExportsAssumption`: an export names a key once, or as what was added and
what was removed, in this order, as `_build_cmd_kv_buffers` writes it. `RoomAssumption`
is about the model's bound `MaxCalls` only; `ValuesAssumption` says that the store holds
what records hold.

*Scan.* The invariant follows one scan. `Cookie` says where the cookie of the event is
between the phases: in the record until A_PRE or REMOVE_INIT has used it, after that
in the base, in the end released; `Coherent` that a known device has both its states;
`MainStore` that what was merged has no cookie; `Staged` and `Context` which phase belongs
to which stage and what the context holds in it, with lvm as the submodule of a device it
has claimed or can claim (`ClaimedBy`); `Unconfigured` that without a cookie an unconfigured
device stays so or is found suspended; `Cached` that the store has what the command
knows, except a state in `LostWrites`. The theorems have the hypothesis that the write of
"unprocessed" is not one of those that fail: a new device whose first state could not be
written stays undefined, as no phase may set another state then. The failures of every
other state are covered. What is recorded as the submodule is not assumed to fit the device.

*Resource.* `CountsExact` alone is not inductive, as destruction counts. `Nested` (each
resource is on the stack of creations at most once), `Making` (what is not ready is on the
stack, and nobody holds it), `Unheld` (only the iterator of a resource over itself holds no
reference) and `NothingDangles` (parents, iterators and sources refer to live
resources) are added. The core is `DoomedFacts`: the least closed set exists, as closed
sets are closed under intersection, because what a set takes from a count grows with the
set (`LostFacts`); each of its members but the first had all its references from inside,
and every survivor keeps one. `DestroyInd` then says that what is left is exact again.
The proofs use of `Res` that it is a set of positive numbers (0 is no resource), of
`Iters` that it is finite, of `Prios` that they are integers, and of `Starts` that the
given trees are finite and as `sid_res_create` makes them: well counted, parents and
children agree, a parent was made before its children.

*Resource, the tree.* `Ancestors` is a recursive function, and in a tree with a cycle it
means nothing; what is above a resource (`Above`) is therefore the least set with its
parent and theirs. `Tree` says that the lists of children fit the parents
(`Families`) and that nothing is above itself; only then the recursive function is that
least set (`AncestorsAbove`, by the well-foundedness of inclusion among finite sets: where
two solutions of the recursion differ, take a resource with the smallest set above it).
Each change of the tree is one of a few (`Left`, `Entered`, `Appeared`, `Reprioritised`,
`Destroyed`, `HandedOver`) on any tree, and each has a lemma that a tree is left and that
what is above a resource only shrinks, but below a child that enters. The lists change by
`Kept` and `Placed`, which are described by what is in a list (`In`) and what comes before
what (`Before`): `KeptFacts`, `PlacedFacts`, `JoinedFacts`. `Apart` says that no iterator is
kept by what it is over or by something below that, which is what `NothingKeepsItself` rests
on, `Stacked` that a resource in the making is not below one begun later. `StepKinds` sorts
the actions into eight kinds, and each kind has a lemma.

*Resource, the walks.* `WalkMissesNothing` looks at a walk when it is over; what makes it true
is where the walk stands before. For a walk that is not over, `OnCourse` says that the
saved neighbour is a child it has not shown, that every child it has yet to show is that
neighbour or comes after it, and that none it has shown does (`Ahead`; the walk backwards
is one along the reversed list). `OnwardStep` is that a step keeps this. A change of the
tree keeps it if it leaves the order of the children on the `Course` of the walk alone
(`Undisturbed`), and the rest is why each operation does: what is destroyed or isolated
is the child the walk stands on, which it has shown, or has its parent among the destroyed
(`DoomedInside`); a child in the making came after the walk had saved its neighbour, so it
is not on the course when it gets another priority or its init function fails.

*Resource, the searches.* `SearchesReach` follows from `TreeInd` alone, but the visits are
recursive functions and need two arguments that the library has no usable induction for.
That the recursion has a solution: its step, repeated as often as there are resources,
no longer changes anything, as there is less below a child than below its parent
(`Visited`, on `Iterated` and `Depths`); for the way up the solution is written down
(`TopFacts`). What the solution is: of the resources where the description fails, one with
the fewest below it has only children where it holds (`FromChildren`; `FromParents` with
the fewest above it), and one level of the search is described by what is in the
concatenated lists (`FlattenFacts`, `WideStepFacts`, `DeepStepFacts`).

*Channel.* Neither property says where the bytes are that were not delivered yet. The
invariant lays all messages out in one stream, message `i` at `off[i]` (`Layout`). What the
receiver delivered and holds, what the kernel holds and what the sender has yet to write
follow each other in it without a gap (`Stream`), with the sender's message as it was
composed (`Sending`, with one shape for linear and one for vector buffers) and the end of a
sender that gave up in the middle (`CutOff`). `Receiving` is what keeps messages apart: the
receiver's buffer never has room for more than the message it is for, so that no read
takes a byte of the next message or swallows the byte with the descriptor. It holds
because a buffer starts with room for the smallest message of its link, and grows to the
exact size once the prefix is there. The proofs use that the prefix, the headers and the
step of external buffers are not empty; capacities and bodies are arbitrary.

### Only model-checked

- Liveness, which is out of the prover's reach: `YieldedIsReaped`, `OrphanEnds`,
  `CommandEnds`, `ClientAnswered`, `ScanLeavesStageWait`, `AllArrive`.
- All of `BPTree`, `RefinesMap` included: it has a recursive operator (a split of a
  parent splits its parent), so no theorem can be stated in it.

## Limits of the model

- WorkerControl: internal workers only; the main process does not die between the
  two writes of `DATA_EXT`; a read error on a connection is one of `ConnectionError`; the
  error returns of a channel whose worker is alive (wrk-ctl.c:278, 317, 331: a failing
  allocation or descriptor), which would give the channel up, are left out, so that
  `ListensWhileAlive` is about the loss of a connection only.
- Ubridge: what a stage exports is "empty" or "something"; the two writes of
  `sid_ubr_cmd_dbdump` are one step; the interface handler's send to a worker that
  has died at once is not a failure; `IDLE` workers do not exist, as the code that
  would set the state is commented out (wrk-ctl.c:387), so a worker serves one command.
- KVStore: the backend is a map; no aliases, no iterators, no failing allocations
  inside a call, so a failing insertion of the archive is left out; what a transaction
  does to the heap that breaks the contract is shown by `failed_sync` only.
- KVSync: owners are unrelated modules or the core, so submodules and their flags
  are left out; a failure before the transaction starts changes nothing and is left
  out; a key is always a vector or always a scalar.
- BPTree: sizes of the data, and the totals the tree reports, are left out; of the
  allocations only the one of nodes for a split fails.
- Resource: names and types are left out of searches (what is visited is checked,
  not what matches); dispatching is one source at a time; service links are left out.
- Scan: one scan at a time. udev keeps the events of a device in order and stage 1 is
  merged before udev is answered (`AckBeforeReply`); stage 2 of an event may overlap
  stage 1 of the next, but changes no record of the model. Block modules other than
  blkid, and the writes of names and UUIDs, are left out.
- Channel: running out of memory and the limits on buffers are not reached; EAGAIN and
  EINTR are a step that does not happen yet.

## Not modelled

Groups, aliases and dependencies of devices (their merge is KVSync's; computing them
from sysfs is a long transcription of string handling), the module registry (loading
of shared objects at start-up), the hash table (a backend the bridge does not use), the
service link, the tools, the daemon's start-up, and the utilities. `PROJECT.json` gives
the reason for each. Two places seen on the way have no property: `_parse_cmd_udev_env`
(ubr.c:4233) puts the comparison inside the assignment of `r` as `_do_sid_ucmd_kv_set`
does, so a failure yields 1, which callers take for success; and a client
that leaves before it has sent a request (ubr.c:6191) leaves a worker that nobody ends
before the main process does.

## Plan

1. Proofs: `BPTree` without a recursive operator (a split of the ancestors as one step along
   the path from the root), so that its shape can be stated as an inductive invariant.
2. The worker's side of the database: permissions with submodules, absolute deltas
   (`_delta_abs_calc`), the index of records to sync; groups and dependencies.
3. Module registry, external workers, backends of buffers.
