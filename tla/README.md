# Sequoia in TLA+

Sequoia is a storage provider of the Jackal network. It keeps files for storage
contracts that a chain records, proves again and again that it still has them, and
picks up files that other providers lost. This directory models the parts of it where
goroutines, failures and the order of steps decide whether it is correct. `PROJECT.json`
lists the runs, the lines each definition stands for, the hazards and the theorems.

## The system

| part | state | operations | talks to |
|---|---|---|---|
| transaction queue (`queue/`) | the slice of messages, `running`, the batch and retry state of `BroadcastPending`, a WaitGroup and an answer for each message | `Add`, `Listen`, `BroadcastPending`, `Stop`, `Count` | called by provers, hands, upload handlers and the start of the app, which block on the WaitGroup; calls the wallet and the node |
| file system (`file_system/`) | badger: `tree/merkle/owner/start` for each contract, `cid/merkle` for each merkle; the IPFS blockstore | `WriteFile`, `WriteFileWithProgress`, `DeleteFile`, `ProcessFiles`, `GetFileTreeByChunk`, `GetFileData`, `ListUnusedCids` | called by handlers, hands, prover and commands; IPFS peers may supply missing blocks |
| prover (`proofs/`) | `running`, `currentThreads` (int16), `lastCount`, `processed` | `Start`, `PostProof`, `wrapPostProof`, `Stop` | file system, queue, chain; `PostProof` also from upload handlers |
| strays (`strays/`) | a list of open files, the hands and the stray each holds | `RefreshList`, `Pop`, `Take`, `Hand.Start`, `Stop` | downloads, file system, queue, chain |
| downloads (`network/`) | a temporary file, a copy in a goroutine | `DownloadFile`, `DownloadFileFromURL` | other providers, file system |
| API (`api/`) | `JobMap` of upload jobs, a goroutine for each request, temporary files | uploads in two versions, polls of jobs, downloads, the gateway's walk through folders, listings | file system, prover, chain, other providers |
| app (`core/`, `cmd/`) | the services and their flags, the lock of the database | `NewApp`, `Start` with its retries, stop after a signal, the other commands | everything |
| config (`config/`) | `config.yaml`, `provider_wallet.json`, `priv_storkey.json` in the home directory | `Init`, `InitWallet`, `ReadConfigFile`, `Validate` | every command |
| wallet, ipfs, logger, monitoring, utils, types | none that others share, or set once | | |

Which of these are modelled is in `PROJECT.json` under "components".

**What is hard.** Nothing guards the queue's slice, and the goroutines that add to it wait
until it answers. The retry loop meets a dozen kinds of answer. A delete of a file is four
updates of two stores, a write is many blocks and one transaction, and the process may stop
between any two; others read, write and delete the same file meanwhile. The prover's
counter is shared without a lock, and an upload lowers it without having raised it. The
prover deletes files on answers that are old by the time it acts. A job of an upload is
found by its file alone, so two uploads of one file and a timer meet in one place of the map.
A start makes up to three calls to a chain that may fail, answer late or not at all, and is
repeated from the beginning, while files it wrote halfway stay behind.

**What must hold.** Queue: who waits is answered, once, with its own result. File system: a
contract on disk can be proven; a delete removes all that only it used. Prover: live
files stay, dead ones go, cycles end, no more threads than configured. Strays: one hand
for a stray, and no hand stuck. Jobs: an upload's progress falls only for a reason, its job is
there while it runs, says "done!" only of what is stored, and goes; temporary files go.
Gateway: who is served gets what the path leads to. App: a start that failed leaves nothing
behind that the next one meets, the chain's record is what the provider runs with, a home keeps
its wallet and its kind of block store, and services are stopped before their stores are closed.

## Modules

| module | what it is |
|---|---|
| `Queue` | `queue.go`: the callers and the listener, each access to `q.messages` a step of its own |
| `Mailbox` | what the queue promises: a line, first in, first answered |
| `Store` | what the file system promises: contracts stored and removed one at a time, readers that fail only after a delete |
| `FileStore` | writes, deletes and reads of `file_system.go` as steps on the two stores, with crashes, failing updates and peers |
| `Leftovers` | the steps of `FileStore` with a history of what each of them leaves behind |
| `Prover` | `proofs.go`: the loop, its goroutines and the uploads that call `PostProof`, around a disk of two kinds of keys, the queue's line and the chain |
| `Strays` | `strays/` and `downloads.go`: the manager, its hands and their downloads, around an abstract disk and queue |
| `Api` | `api/`: uploads with their forms and jobs, downloads and the gateway, around an abstract disk, queue and chain |
| `App` | `core/`, `cmd/`, `config/`: commands on one home directory, the start of the provider and its end |
| `MCQueue`, `MCFileStore`, `MCLeftovers`, `MCProver`, `MCStrays`, `MCApi`, `MCApp` | values of the constants for TLC |
| `QueueProofs`, `QueueSafety`, `QueuePromise` | theorems about `Queue`: types and answers; no lost message; the refinement of `Mailbox` |
| `FileStoreProofs`, `ProverProofs`, `StraysProofs`, `ApiProofs`, `AppProofs` | theorems about the module each is named after, and about `Leftovers` in `FileStoreProofs` |

`Queue` implements `Mailbox` (`KeepsPromise`), and `FileStore` implements `Store` (`ActsAsStore`): what
is stored are the contracts whose data can be read. `Prover` uses the queue as a line like that of
`Mailbox` with the taken batch at its front, and of the file system its two kinds of keys, set and
deleted as in `FileStore`. `Strays` and `Api` have the set of contracts that is `stored` in `Store`;
`FileStore` acts as such a set under `Sole` only (see Theorems). In `Strays` the prover deletes any file at any
time, in `Api` those the chain does not know: that it also deletes live ones that have lost their cid key is
in `Prover` (`OnlyDeadOrLostDeleted`) and the cause of it in `fs_shared`. `App` has the services as
goroutines with a flag each; the manager of strays is made in the middle of `Start` and waits there for the queue's
answers to its claims (`Strays!ClaimAnswered`), which a full mempool may drop (`DropClaims`, `queue_full`).

### Queue

A member of `Msgs` is one call of `Add` and the goroutine that makes it. `AddScan` is the
search for a queued proof of the same file and `wg.Add(1)`; `AppendRead` and `AppendWrite` are
`q.messages = append(q.messages, m)`; `WaitReturns` is `wg.Wait()`. The listener's place is
`lpc`: `Loop`, `Skip`, `Begin` are `Listen`; `StatusBad` and `StatusGood` the query of the
mempool; `TakeRead` and `TakeWrite` size the batch and cut it off; `Attempt` is one turn of the
retry loop for one of `AllAnswers`; `MempoolFull` and `ResetQueue` are the two ends of the
30-minute pause; `FillNote` and `Release` set a message's answer and call `Done`. A WaitGroup
below zero and an index past the slice lead to "panicked", where nothing moves.

All these accesses overlap as they may in the program. Each goroutine keeps the slice it has read, and
`raced` records that one access has written `q.messages` within another's: most properties hold until then,
`WokenWithAnswer`, `StopEnds` and the types always, and `queue_race` shows what happens then. A call of `Add` that
searches is inside its access until it has appended, so that two searches before either append count as a race as soon as
one of them appends. The array behind the slice is left out, where two appends may also meet in one cell: that
too takes an overlap, so nothing is claimed of it. `unheard` records the transactions whose reply was lost.

### FileStore

`trees`, `cids` and `blocks` are the disk. A write is `StartWrite`, a `PutBlock` for each block in
any order, and `CommitWrite`, one transaction of two keys. A delete is `StartDelete`,
`RemoveTree`, `FindCid`, `UnlinkCid`, `Collect` (every node below the root, missing ones fetched
from peers), and a `DeleteBlock` for each. A read is `ReadTree`, `ReadCid`, `ReadBlock`. `Faults` are
the updates that may fail, `Crash` stops everything but the disk. The contents of blocks, the
Merkle tree and its check are left out; `Roots[m]` are the ways ipfs may cut a file, and a
folder is a root whose write stores one block while its delete visits the children.

### Prover

`BeginCycle` is the loop up to `ProcessFiles`, whose database snapshot is `todo`; `IncRead` and
`IncWrite` wait for `Full()` to be false, count up and start a goroutine; `EndCycle` sets
`lastCount`. In a goroutine `AskChain` and `LoadProof` are `GenerateProof`, `DecRead` and `DecWrite`
the count down, `After` the choice between posting, deleting and ending, `AddToQueue` the call
of `Add`, `Accept` and `Refuse` the return of the wait, `DeleteFile` and `DeleteCid` either delete. `StartUpload` and
`WriteUpload` are a handler that ends in `PostProof`; `HandWrites` is a stray hand. The chain is
`contracts`, `proven` and `fresh` (the proof meets the present challenge), moved by `Expire` and
`NewWindow`. A contract that ended does not come back: its start block is part of its name.
When only the second query of `AskChain` fails, its error is dropped and chunk 0 is proven.

The disk is `disk`, the contracts with a tree key, and `cids`, the merkles with a cid key. A proof that misses
either ends in `badger.ErrKeyNotFound` (`LoadProof`), after which `PostProof` deletes the contract, also a live
one. A delete takes the tree key and then the cid key, whoever else has the merkle (`fs_shared`); an upload may fail
to set the cid key and go on (`CidFails`). `lost` records the files that have been on disk without a cid key.

`Exact` chooses between atomic counting (TRUE) and the separate read and write of `++` and
`--` (FALSE, the code); `torn` records that one of them has written over another. The queue of `Prover` answers
everything; `queue_full` shows when it does not, and is left to `Queue`.

### Strays

`Skip`, `Claim`, `Grant` and `ClaimAnswered` are `NewStrayManager`, hand after hand; a key that
cannot be made only leaves a hand out. `Start` is the start of the goroutines, `Turn`,
`RefreshList` and `Offer` a turn of the manager's loop, with `Visit` the question `Busy()` and `Take` the
`hand.Take(s.Pop())` that follows it, so that the hand may move in between. In a hand, `Loop` reads
`running`, `Look` the stray (`mine` are the fields it copies), `Finish` is the end of a
turn with `h.stray = nil`. `FindFile`, `Request`, `Select` and `NotFound` are the download, and `CopyEnds` its
goroutine; `copy` is what is in the temporary file: "cut" when the body ended early. `WriteFile` stores only what
has the merkle of the stray (`Matches`), and goes to the next provider when the size is another one,
although the file is on disk by then. After the last provider the hand goes on only if the file is on disk, in
whatever way it came there (`ProvesWhatIsStored`). `DeleteFile` is the prover's delete, at any time.
`listed[h]` is only for the properties: the list was renewed since `h` took its stray.
A page of the chain lists a file once.
`Stop` is one step, the flags of all hands at once. A `Stop` before `StartHand` is
lost, as in the code, and the hand goes on; `HandReturns` asks nothing after `Stop`.

### Api

A member of `Requests` is one HTTP request and the goroutine of its handler; `at` is where that is.
An upload receives its form (`ReceiveFile`: each part named "file" of more than ten megabytes
goes to a temporary file, and the loop keeps the last), which may break off (`RefuseForm`: the
reader is not returned, so nobody closes what was received). `AcceptFields` is the end of what the
client waits for; the second version stores its job there, in place of any other of that
file. `AskChain` to `Report` are the handler and `WriteFileWithProgress`, each up to the progress it
shows, and `Commit` the transaction between two of them. `UploadFails` and `Fail` are the errors on the way, of which
in the second version only the job tells. `RefuseSize` returns after the file was stored, and leaves the job
as it is; `PostProof`, `Answered`, `EndPosted` are the prover's call with the wait for the queue, and
`TimerFires` the goroutine that deletes the job ten minutes later, whosever it is by then.
Polls change nothing: what they see is `Shown`.

A download or a request to the gateway goes from `ArriveGet` to `OpenLocal`, when the file is on disk, or
through `FindFile` and `Fetch` to other providers, into a temporary file. `Descend` looks the next
name up in a folder and begins again with the child; `Render` makes the page of a folder; `Serve`
is the answer. A reader of the disk reads as it is read from, so what is deleted meanwhile
may be missing (`MayRead`). The gateway closes none of its readers: `Finalize` is the garbage
collector's, which may never come. A file stands for its contract and for its merkle;
`HandWrites`, `DeleteFile`, `Expire` are strays, prover and chain. `Crash` ends all handlers and jobs and
leaves disk and temporary files.

### App

A member of `Procs` is one call of the program after another; `at` is the call it is about to make.
`LoadConfig` to `WriteConfig` are `config.Init`, which fails on a file with a slip in its syntax (`Malformed`): a process that finds no `config.yaml` writes
one in three calls, and goes on with what viper has without it, the defaults of the flags.
`OpenBadger` is `NewApp` up to the database, which one process can have. `CheckConfig` to `SeedUnreadable` are
`InitWallet`, which reads `config.yaml` again, and validates it; the process that makes the
wallet ends. `ReadSettings` to `Notify` are `App.Start`: the query of the provider, `InitProvider`
for one that is not found, `UpdateSpace` and `UpdateIp` for one that differs, then the parameters of
the chain and the services. Every error before the queue is started is `StartFails`: `StartCmd`
waits and calls `Start` again, or gives up. A broadcast may be turned down, may be
included with its answer lost, and may be included and fail there: `Start` only logs that (`app.go:138`) and goes on
with settings that the chain has refused (`refused`). `MakeManager` waits for the claims of the hands, and
`DropClaims` is the wait that never ends. `Begin` and `End` are the goroutines of services; `Stop` is one
call of a `Stop` in the order of `Start`'s end, and `CloseFiles` comes 30 seconds later.

"init" stands for the commands that need home and wallet and touch nothing else, "data" for
those that open the database. `Crash` ends a process at any step, and `Edit` is an operator who
writes another member of `Settings` to the file. `incidents` records what may part a home from its wallet or its
block store, none of which the code prevents: it began with a wallet and no `config.yaml`, the operator named another
kind of store, or a command began while another was setting the home up.

## Runs

| run | shows |
|---|---|
| `queue_steps` | a woken goroutine has an answer; until accesses to the queue overlap, an accepted answer is at its message's own index, no message is lost or answered twice, none is posted again but after a lost reply, batches fit, a file has one proof in line and `Mailbox` is implemented; with full mempools and lost replies |
| `queue_live` | every waiter returns unless stopped or raced; `Stop` ends the listener |
| `queue_full` | (violation) the reset of a full mempool leaves its waiters blocked for ever |
| `queue_race` | (violation) overlapping appends lose a message |
| `fs_safety` | crashes, faults, recuts and a folder: a listed contract is provable, `Store` is implemented: a write or a delete takes effect in one step or not at all, a reader fails only when its contract was deleted |
| `fs_left` | with every fault, overlap, peers and crashes, nothing is left over but by the steps that `Leftovers` names |
| `fs_shared` | (violation) the delete of one contract drops the data another still needs |
| `prover` | a live file is deleted only after it lost its cid key, a dead one is deleted, cycles end, the counter is what it should be less the uploads, until two `++` or `--` overlap |
| `strays` | strays are neither overwritten nor dropped, shared only across a refresh, a hand proves what is on disk, and hands come back |
| `api` | a job that says "done!" is true, shows no less without a reason, stays while its upload runs and goes after it; temporary files go; the gateway serves what was asked for and calls no path invalid that is not |
| `app` | services start once, with the settings the chain has unless it refused them, under one wallet and one kind of block store but for the incidents, and are told to stop before the files are closed; commands end and the provider serves at last, unless it waits for its claims |
| `prover_threads` | (violation) after an upload the loop exceeds `proof_threads` |

### Bounds

Queue: three messages, or four in the violations, two of them proofs of one file and one larger
message of another type. `MaxSizeBytes` 4 over an overhead of 1 cuts the queue in two or
more batches; `MinBatch` is 1 or 2 for 45, so that both the limit and the override bite; two attempts
for ten, so that a batch both succeeds at a retry and runs out of attempts.
FileStore: two goroutines and two merkles of two blocks each, so that a read meets a write
or a delete of the same file and two changes of different files meet; with recuts three roots
that share a block. `fs_left` has one contract, whose file can be cut in two ways that share a leaf, and all
faults; the two goroutines are alike, and so are the two cuts. With `Overlap = TRUE`, or the faults `setCid` or
`removeTree`, TLC refutes `Servable`.
Prover: one file, two goroutines and one thread, so that the
loop waits while an upload or an earlier cycle's goroutine runs; one upload; counters from -2 to 1
(`Half` is 2; for the code's int16 it is 32,768). The disk begins with its cid key, which a failing `Set`, or a write
between the two halves of a delete, loses. The run follows the prover up to the first `++` and `--` that overlap
(`Followed`), because all properties but `OnlyDeadOrLostDeleted` are open after that; the theorems go on. Without that
exemption TLC refutes `CycleEnds`: a lost `--` uses up the thread. `Stop` comes while the loop is idle, where alone it is
seen. `MaxUploads` also keeps the counter from wrapping: with three uploads, these counters and atomic counting
TLC refutes `CycleEnds`, as 32,769 uploads would in an int16. `prover_threads` has two contracts of one merkle.
Strays: one file, one other provider, two hands of which one is authorized, so that both
kinds of hand are there and a refresh gives both the same file. With two files, which is not one
of the runs, its safety properties and the `Inv` of the proofs hold in three million states.

Api: a folder and the file in it, one upload of that file in the second version beside a request of any kind
about either, which may be another upload of the same file; one other provider; one large file, so that there are
temporary files, and one of the wrong size. Two requests at once meet in every shared variable, and the
theorems have any number. Two parts of a form suffice for one that replaces another.
App: two processes, one of them the provider, which is started again whenever it ends, so that a second command
meets every step of the first. `Homes` are a new one, one in use, that of a version 3 provider whose
operator called `init` first, and two with a wallet or such a key and no `config.yaml`, as after the copy of
`src/README.md:23`. `Settings` are a default, one that differs from it in everything a
record holds, one with another kind of block store, one that `Validate` refuses and one with a slip in its syntax.
`Budget` 1 bounds other commands, crashes, signals and edits together, as the liveness properties cost most;
the theorems have any, and so do the safety properties with `Budget` 2, in 2.5 million states. `MaxTries` 1 gives
every failure of `Start` a retry and an end. The services are the queue, which starts
first, and the api, which stops first; the other three do what the api does.

Where `WalletKept` and `OneBlockStore` exempt an incident, the code does break them there: the search for a file and its
creation are two calls (`files.go:20`), so a second command may overwrite a seed that the first one wrote; and in
a home with a wallet and no `config.yaml` the first run stores in the block store that viper takes from
the flags, badgerds, although it writes a `config.yaml` with flatfs, which all later runs read.

Deadlock is not looked for where the system stops by itself or for good: in the runs of `Queue`, where all calls may have
returned, the listener may have panicked after a race, or `Stop` was called; in `strays` after `Stop`; in `prover` and
`prover_threads`, where all contracts may end; in `api`, where all requests may be answered; in `app`, where a
service that missed its `Stop` goes on alone. In the runs of `FileStore` it is looked for.

### Fairness

Goroutines are scheduled, sleeps end and the wallet's calls return: weak fairness of each
goroutine's next step. The node answers its queries with success again and again, not always:
strong fairness of `Begin`, `StatusGood`, `BeginCycle` and of the answer "no such file" to whoever
keeps asking about a dead file. The loop of the prover, which polls `Full()` once a second, finds a free thread
when there is one again and again, and with atomic counting everyone who keeps asking comes to count: strong fairness
of `IncRead` and `DecRead`. Nothing is assumed of
calls of `Add`, uploads, the prover's hands, new windows, `Expire` or `Stop`. In `Strays` the queue
answers its line (`TakeBatch`, `Answer`) and every goroutine but the one that copies goes on: the timeout
ends a copy that does not. Skipped listener turns (`Skip`,
`StatusBad`) may be as many as they like, but not all.

In `Api` the handler of an upload whose form was taken goes on, the queue answers, and every timer goes
off. Nothing is assumed of arrivals, forms, downloads, garbage collection, ends of contracts, deletes or crashes. In `App` processes and services go on, the provider is started again when it
ended, by its operator or a service manager, and a node that is asked again and again answers some
day and takes a transaction: strong fairness of `BuildApp`, `ProviderFound`, `Succeeds` and
`GetStorageParams`, of the provider's process alone. That the queue answers the claims is not assumed of one start, as
`DropClaims` may happen to any, only of one after another: strong fairness of `MakeManager`, which a start that hangs
for good escapes (`Hangs` in `ServesAtLast`).

## Theorems

All are proved for every value of the constants, from the modules' named assumptions
(`QueueAssumption`, `FileStoreAssumption`, `ProverAssumption`, `StraysAssumption`, `ApiAssumption`,
`SettingsAssumption`), which type the constants, say that the names for "none" are no values, and that the files
and goroutines of `Prover`, which it counts, are finitely many.

* `QueueProofs!TypeCorrect`, `AnsweredBeforeWoken`, `IndexIsRight`: whatever overlaps. A counter falls only in
  `Release`, which follows `FillNote` of a set outcome; `AnswerInv` carries this, and that what was set
  as accepted is at its place in `chain`; `ListenerInv` says which of the listener's variables mean something at
  each place. So the place of an answer is right even after a race; `AnswerIsOwn` asks for less, as a second
  append may overwrite the array that a batch lies in.
* `QueueProofs!BatchesFit`: until `raced`, after which the queue may no longer be what was sized.
  `BatchInv` says that a batch is one that fits from `TakeRead` on, before it is cut off the queue; `CutoffFits`
  that a cutoff above `MinBatch` is the length of the longest prefix that fits. What a size is does not matter
  to it, so that `TxSize`, a recursive function, stays closed.
* `QueueSafety!NothingLost`, `AnsweredOnce`, `NoTwins`, `PostsOnce`, `QueuePromise!Implements`: until `raced`, with
  no condition on how the steps lie. Neither `NoLostMessage` nor `WaitingOnce` is inductive: `FreshInv` adds
  that a slice that was read is still the queue, that the batch and the rest make up the queue while it is cut, and that
  the queue has not shrunk since it was measured. `Inv` joins these, and a step either keeps it or sets `raced`.
  `TwinInv` adds that whoever is about to append has no twin in the queue. `PostInv` adds, for `PostsOnce`, that what is in
  the mempool is not in the queue, and (`SentByThisCall`) that of the batch that is being sent only this very
  call has sent it, with its reply lost.
  The refinement maps the line to `Pending`, the unanswered rest of the batch before the queue.
* `FileStoreProofs!TypeCorrect`: without conditions. `DataStays`, `ImplementsStore`, `FailureMeansDeleted`: under
  `Sole`, which says that no two contracts share a merkle, that no file lies below the root of another, that
  changes of one merkle do not overlap, and that the two errors the code ignores do not occur.
  The code enforces none of them; each has a hazard that names the line. `Inv` adds what
  writes have stored (`WriteInv`), that a delete goes for the data after the tree (`DeleteInv`), and that what a
  reader holds is good until its contract is deleted (`ReadInv`). The refinement follows from it: what is readable is
  what has a tree (`ReadableIsStored`), so `CommitWrite` is `Put`, `RemoveTree` is `Remove`, the end of a read
  is `Serve` or `Fail`, and every other step, those of a delete on cid and blocks too, changes nothing that
  `Store` has (`QuietStep`). `Crash` is `Restart`.
* `FileStoreProofs!OnlyBreaksLeave`: without conditions, for `LSpec`, whose steps are those of `Spec` (`LeavesIsStep`).
  `LeftInv` accounts for everything that no step on the list has left: a block belongs to a cid key, to a
  write that goes on or to a delete that will remove it (`BlocksInv`), a cid key to a contract or to a delete that
  will drop it (`CidInv`). The list is short: a write or a delete that fails half way, a crash in one, a file cut
  anew, a cid key dropped by a delete that had found another, a block from a peer. That is what `ipfs list` is for.
* `ProverProofs!LiveDeletedOnlyIfLost`: without conditions. A file on disk has its cid key or is in `lost`
  (`KeyInv`); a file that the chain knows and that was listed, or written by the goroutine's upload, is on disk or
  in `lost` (`ListedInv`), so a goroutine without a key, or told that there is no such file, holds a dead
  or a lost one (`DeathInv`). That live files are lost is not a fault of the prover alone, but its deleting them is.
* `ProverProofs!TypeCorrect`: without conditions. `CounterIsExact`, `ThreadsAndUploads`: until `torn`, with the
  counting of the code. As long as nothing is torn, what a `++` or `--` read is still the counter when it writes; `KindInv`
  says which goroutines the loop has counted. `WrapAdd` is the arithmetic of a counter that wraps: to add to it and to wrap
  the sum are one. The provers of the loop are never more than `proof_threads` and the uploads posted so far, also after the counter
  wrapped: `ThreadInv` adds that whoever is about to be counted found the counter below the limit. Without the uploads that
  is the limit itself, which `prover_threads` shows to be broken with them.
* `StraysProofs!NoStrayDropped`, `OneHandPerListing`, `ProvenIsStored`: for any number of
  files, hands and providers. `HandInv` says whose the field `stray` is: while a hand works it is what the
  hand copied, and while the manager is about to give a hand a stray it is nil. `ListInv`
  says that a file which a hand holds is not in the list unless the list is newer, so `Pop`
  never gives it away a second time. `DiskInv` adds to the last that no file is ever stored cut, so that whatever is found on disk
  by a hand, from another hand or an earlier provider too, is whole. `TypeCorrect` needs that a hand which asks or copies has a stray at hand (`AtHand`).
* `ApiProofs!DoneStored`, `RunningOwnsJob`, `TempsGo`, `ShownFalls`: for any number of requests and files.
  `StatusInv` ties an upload's status and timer to its place, and a report to the disk, `JobsInv` a job to an
  upload of its file, `LevelInv` bounds the progress at each place, which is what makes it
  grow; `HasJob` and `Removed` are the other two properties, request by request. A job is replaced only in
  `AcceptFields`, or removed by a timer, which only an upload that was stored has.
* `ApiProofs!TypeCorrect`, `ServesWhatIsAsked`, `InvalidPathsAreReal`: for every tree of folders, even one with a cycle, and
  paths of any length. `LeadsTo` says where a path leads by a walk, a function on the places of the path.
  `PathLeads` shows that each path leads to exactly one file or to none. It is induction over the length of a path, for which
  `LeastNumber` is proved first, from the library's well-foundedness of the naturals: where a property has a
  number, it has a least one. `OnTheWay` is the invariant: where the rest of the path leads
  from the file that a request wants now, the whole path leads from the file it asked for. `Descend` keeps it by `RestLeads`.
* `AppProofs!StartedOnce`, `RecordAgrees`: for any commands at any moment. `StartHolds` says that a process that builds the
  application has the database, which makes it the only one; `Agrees` what the record is while
  `Start` goes from the query to the updates, unless the chain refused a transaction of this attempt (`refused`, which the next
  attempt begins without); `Started` that no step that can fail comes after the queue.
  Its types (`AppProofs!TypeCorrect`) are proved and not among the properties of the run.
* `AppProofs!StopsAreHeard`: likewise, for any set of the five services. `Launched` says that there are services only
  while a process holds the database that came past the queue, `Heard` that each `Stop` so far left its service told,
  or deaf because it had not begun, `Counted` that the files are closed after the fifth.
* `AppProofs!WalletStays`: unless a command began while another was setting the home up (`"overlap" \in incidents`).
  `WalletInv`: until then a process that has a key and one that writes a seed are never there together, and a key is
  the home's.
* `AppProofs!StoreStays`: unless one of the incidents happened, which are part of the property. `StoreInv` says that a
  process has the kind of store of the file, or is `Doomed`: it found no `config.yaml` or an empty one, so it ends in
  `InitWallet` before it takes a file. What the file names counts even when it has a slip in it (`Suits`).

Checked by TLC only: liveness (`EveryWaiterReturns`, `StopEnds`, `DeadDeleted`, `CycleEnds`,
`HandReturns`, `DoneJobGoes`, `Settles`, `ServesAtLast`), which is out of the prover's reach. Every other property of a
passing run is a theorem, those of the prover's run beyond its bounds. What `TxSize` computes for a sequence is not proved: the theorems hold for any
size.

## Findings

1. `queue.go:243`: a full mempool drops the queue and the batch without waking anyone.
2. `queue.go:131`: appends overlap and lose messages.
3. `file_system.go:298`: the search for other contracts of a merkle uses a prefix no key has.
4. `proofs.go:176`: an upload lowers the thread counter that only the loop raises.

The third has a consequence in the prover: the delete of a contract drops the cid key of a live one of the same
merkle, whose next proof fails with `ErrKeyNotFound`, and `PostProof` deletes that one too (`proofs.go:187`).

The theorems say what holds beside these: without a full mempool a message is lost only by overlapping accesses
(`NothingLost`), with one contract for a merkle a listed file keeps its data (`DataStays`) and the prover deletes a live file
only after it lost its cid key (`LiveDeletedOnlyIfLost`), and as long as no counts overlap the loop exceeds its limit by
no more than the uploads (`ThreadsAndUploads`).

## Not modelled

* What changes nothing that others see: listings, the version and space pages, the HTML of a folder, gauges,
  profiling, logs.
* Set-up of library objects: badger's options, the ipfs peer and its blockstore, the wallet of the chain's
  library, `ConnectPeers` and the command `ipfs peers`, which give that peer addresses or print them.
* Pure functions over bytes: the readers in memory, chunk arithmetic, key splitting, identifiers, and the
  cryptography of the Merkle proofs. That a reader starts at its beginning after `Seek` is assumed.
* `PostIPFSFolder` and `CreateIPFSFolder`, which store a folder by its children's cids, and the salvage of
  keys of older versions.
* The second version's answer before its work is over: when the client gets it depends on the server's
  buffers, and no state does.

## What comes next

1. Proofs: that `Prover` and `Strays` use the queue as `Mailbox` allows and the disk as `Store` does, as
   refinements of both; a weaker `Sole` that lets contracts share a merkle as long as none of them is deleted.
2. `CreateIPFSFolder` and the salvage of keys in `FileStore`.
3. The pure parts against reference definitions: chunk arithmetic, `collectDAGNodes` against reachability.
