# A TLA+ model of atomic-blob-store

`atomic-blob-store` keeps named blobs as files: each key has one canonical file
in a namespace directory, every save replaces it atomically, and every operation
runs on the threads of a small engine that a store handle owns. This project
models that engine, what its operations do to the file system, the streams
between a caller and a worker, and the format of a blob, model-checks all of
them with TLC, and proves with TLAPS the safety of the engine, the backend, the
streams and the format, and that the engine implements an abstract store.

## Inventory of the system

| Part | Source | State | Operations | Interacts through |
|---|---|---|---|---|
| Store handle | `src/src/engine/mod.rs`, `lifecycle.rs` | `Lifecycle` behind a mutex, the sender of the event channel, the coordinator's join handle | `load`, `save`, `clear`, `inspect`, `quarantine`, streams, cleanup, `flush`, `close`, drop | lifecycle lock, event channel, one-shot reply channels |
| Coordinator | `engine/scheduler.rs`, `event.rs` | per-key queues, active keys, pending FIFO, `maintenance_active` | one handler per event, `advance_pending_if_ready`, dispatch, shutdown, recovery from a panic | receives events, sends jobs and replies, writes the lifecycle |
| Worker pool | `engine/workers.rs` | threads, job channel | `prepare`, `execute`, `shutdown`, drop | jobs send completion events back |
| Operation dispatch | `engine/operation.rs` | the operation and its reply sender | `run_owned_operation`, `deliver`, `deliver_error` | calls the backend, answers callers |
| Filesystem backend | `filesystem/mod.rs` | the namespace directory | open, save, clear, inspect, quarantine, cleanup; different protocols on Unix and Windows | system calls that fail, a process that is killed |
| Streaming | `blocking.rs`, `tokio.rs`, `engine/stream.rs`, `format.rs` | bounded chunk channel, acknowledgement | `save_from`, `load_into` | caller and worker block on each other |
| Envelope format | `format.rs`, `config.rs` | none | encode, two decoders | file contents |
| Configuration, errors, paths | `config.rs`, `error.rs`, `path.rs`, `lib.rs` | none | validation, naming | - |

What is hard here: callers look at the lifecycle twice with the lock released in
between; the coordinator's effects (a job sent, a reply delivered, a lifecycle
written) are visible before its handler is finished; barriers, deferred
operations and closes share one FIFO with rules for overtaking; threads fail to
start, jobs and the coordinator panic; shutdown races late submissions; and the
backend can fail or be killed between any two file-system calls, after which
callers act on what the error told them. `PROJECT.json` lists these hazards at
their lines with the properties that watch them.

Correctness, per part: the engine runs same-key work one at a time in submission
order, respects barriers and the close cut, answers every call exactly once and
stops; the backend never exposes an incomplete blob, never lies in a result,
never loses a quarantined blob and cleans up only what it may; streams commit
exactly complete inputs, report success only for complete outputs, and block the
store no longer than their callers do; both decoders accept the same envelopes,
and only envelopes.

## Modules

| Module | Contents |
|---|---|
| `Engine` | callers, lifecycle, channel, coordinator, workers: the state machine |
| `EngineProperties` | what the engine promises |
| `StoreContract` | the abstract store: accepted calls take turns; no channel, queue or thread |
| `EngineRefinement` | `Engine` implements `StoreContract` |
| `EngineInvariants` | the engine's inductive invariant |
| `EngineOrderProofs`, `EngineControlProofs` | its proof in three layers (types and where calls are; then control, slots and answers), the engine's theorems, and the proof that `Engine` implements `StoreContract` |
| `BlobFiles` | the namespace directory under the Unix and the Windows backend, and its properties |
| `BlobFilesProofs` | its inductive invariant and theorems |
| `Backlog` | the scheduling rules under a load that never ends: who can starve |
| `ChunkChannel` | chunks and the bounded channel, shared by both streaming directions |
| `SaveStream`, `LoadStream` | one `save_from` and one `load_into`: caller, channel, worker, and their properties |
| `ChunkChannelProofs`, `SaveStreamProofs`, `LoadStreamProofs` | lemmas about chunks; the inductive invariants and theorems of the streams |
| `StreamSlots` | a `LoadStream` and a `SaveStream` on one store: slots, keys, close, a pipe between them |
| `StreamSlotsProofs` | that each stream in the composition is the stream alone, and the theorem about the pipe |
| `Envelope` | the format: encoding at once and in chunks, two decoders, damage, reopening |
| `EnvelopeProofs` | lemmas about fields and the checksum, the inductive invariant and theorems of the format |
| `MC...` | instances for TLC |

`BlobFiles` assumes of the engine that a key has at most one running operation
and that cleanup runs alone; these are `SameKeyOrder` and `MaintenanceBarrier` of
`Engine`, both proved. `Engine` takes a streaming job
for one step that ends; `SaveStream` and `LoadStream` show when it does.
`StreamSlots` instantiates both stream modules and replaces the engine by its
dispatch and close rules. `SaveStream` keeps of the files whether the canonical
blob is the old or the new one, and of the bytes which part of the payload a
chunk holds; `Envelope` keeps the bytes and leaves the threads out.

### Engine: state and actions

A *call* is one API call with the operation, job and reply channel made for it;
`phase` says where it is. `lifecycle`, `channel`, `queues`, `active`, `pending`,
`maintenanceActive` are the code's variables; `entries` is the key set of the
queue map, whose empty entries are a leak worth watching; `workers` counts
threads. `ticket` is a history variable, the position of a call in the channel's
submission order. `hand` and `coordPc` are the local variables and the program
counter of `run_scheduler`.

| Action | Code |
|---|---|
| `EnsureOpen`, `Submit` | `ensure_open` and the locked check-and-send of `submit`, cleanup, `flush`, `close` |
| `DropHandles`, `CloseWait`, `CloseJoin` | last `Arc<Inner>` dropped; `Pending::wait`; `CoordinatorJoin::finish` |
| `WorkerTake`, `WorkerFinish` | the worker loop and the job closures |
| `RecvSubmission` ... `RecvClose` | the first part of each arm of `run_scheduler` |
| `DispatchIfIdle`, `DispatchAvailable`, `Settle` | `dispatch_if_idle`, one iteration of `dispatch_available`, the end of the completion arm |
| `AdvanceSubmission` ... `AdvanceStop` | one iteration of `advance_pending_if_ready` |
| `CloseNotReady`, `Shutdown`, `NotifyClose`, `Drain`, `CoordinatorExit` | the shutdown block |
| `CoordinatorDisconnected` | the loop ends because every sender is gone |
| `PanicOnEvent`, `PanicOnFlush`, `PanicOnStopping`, `UnwindJoin`, `FailDrain` | the scheduler unwinds at one of its three hook points, the pool's `Drop`, `fail_queued_after_coordinator_panic` |

A handler is a chain of steps because other threads see its effects between
them, but no step of a chain can be skipped: `coordPc` forces the next one. The
constant `Faults` says which faults of the environment an instance has.

Left out, because the code cannot reach them outside test hooks: failures of
`prepare_dispatch` and `execute`; a send on the event channel that fails
(`NoCallLost` shows that no caller is admitted after the coordinator is gone);
the `Panicked` join outcome (the thread's body catches the panic).

### BlobFiles: state and actions

`dir` maps structured names (canonical, save staging, clear staging, quarantine)
to files: the value whose envelope they hold, whether it is whole, and the
modification time. `op` is the per-key program counter of a running operation,
and every file-system call is one step that succeeds or fails. `Crash` is a
killed process and `OpenStore` a restart; a kill loses no file-system effect.
`dirty` and `rootDirty` record entries that were changed and not synchronized
since. History variables: `believed`, the states of a key that the results so
far leave open to a caller who reads them carefully; `succeeded`; `diagnosed`,
the quarantine paths callers were told about; `debris`, staging names given up.

Staging names that already exist are retried with a new identifier, which is the
choice of a free one; when all of an instance's `Ids` are used up the operation
can only fail, which is sound for safety properties. `atomic-write-file` is an
external dependency, modelled from its use: a staging file next to the target,
removed on drop, renamed over the target and synchronized by `commit`, whose
error does not say how far it got. The system's clock (`Wall`) runs behind the
true one by what it has been set back (`SetBack`); file times and ages are those
of the system's clock, while `CleanupSparesTheYoung` judges by the true one.

### SaveStream and LoadStream: state and actions

`pc` is the caller's place in `save_from` or `load_into`, `work` the operation's
place between submission and drop. `chunks` is the channel; its two ends are
flags, because dropping an end is how either side tells the other that it is
gone. `result` is the reply channel, `"Disconnected"` when it was dropped
unanswered. `facade` chooses the blocking or the Tokio code, which differ where
the Tokio one polls the result before the reader (`Interrupted`) and in where a
caller can vanish (`CancelPoints`: any await of a dropped future; in the blocking
facade only a reader or writer that panics).

| Action | Code |
|---|---|
| `Start`, `StartRefused` | `start_save_stream`, `start_load_stream` |
| `ReadSome`, `BadInput`, `ProbeEnd`, `Interrupt` | the reads of `save_from`, their errors, the probe for trailing data, the select |
| `SendChunk`, `SendComplete`, `SendFails` | the sends of `save_from` |
| `ReceiveChunk`, `ReceiveEnd`, `WriteChunk`, `WriteFails`, `Acknowledge` | the loop of `load_into` and what follows it |
| `Finish`, `Cancel` | `Pending::wait`; a dropped future |
| `Begin`, `Refuse`, `Lose`, `Deliver`, `DropReply`, `DropOperation` | the operation in the engine: run, answered by `deliver_error`, dropped by a panic, delivered, dropped |
| `OpenStaging`, `ReceiveChunk`, `ReceiveComplete`, `ReceiveDisconnected`, `Commit` | `save_blob_from_receiver` and `write_stream_envelope` |
| `OpenAndValidate`, `StreamChunk`, `StreamFails`, `StreamDone`, `AwaitAcknowledgement` | `load_blob_into_sender` |

The operation owns the receiver of a save's chunks until its result has been
delivered, so `DropOperation` is a step of its own after `Deliver`: a caller that
blocks on a full channel is woken by it, not by the worker's error.

### StreamSlots, Envelope, Backlog

`StreamSlots` adds to the two streams the bound on slots, whether they have the
same key, the order of submission, a close with its cut, and the application's
pipe through which the load's output becomes the save's input; the declared
length is the payload's. A stream begins only
when `dispatch_if_idle` would let it.

`Envelope` writes one file with `save` (`EncodeEnvelope`) or chunk by chunk
(`StreamHeader`, `StreamChunk`, `StreamComplete`), may reopen the store with
another domain or maximum, damages the file up to `MaxHarm` times, and in every
state compares what `DecodeReader` and `ValidateEnvelopeReader` make of it. Bytes
are digits of a small radix and fields have few digits. The checksum stands for
crc32c: it depends only on the bytes fed to it, not on how they were split, and a
change of one byte changes it. Like crc32c it collides; nothing is claimed of two
damages beyond that what is accepted is an envelope.

`Backlog` has the coordinator's handlers without callers, threads and faults, and
callers that never stop; one call at a time is followed. `MaxQueue` and
`MaxPending` bound what waits at once, not how much arrives.

## Runs

| Run | Instance | Shows |
|---|---|---|
| `engine_keys` | 4 operations, 3 keys, a flush, 2 slots; spawn failures, job panics | `SameKeyOrder`, `SameKeyAnswerOrder`, `EveryJobHasAWorker`, `NothingLeftBehind`, `TypeOK` |
| `engine_failure` | 2 operations, a maintenance, a flush, a close, 2 slots; every fault, coordinator panics included | `MaintenanceBarrier`, `FlushBarrier`, `CloseCut`, `StoppedIsQuiet`, `NoCallLost`, `EngineInv`, `ImplementsContract` |
| `engine_liveness` | an operation, a maintenance, a flush, 2 closes, 1 slot; spawn, job and worker-exit faults | `EveryCallAnswered`, `StoreStops`, `CloseAgreement` |
| `files_unix` | 1 key, 2 values, 2 identifiers | `CanonicalComplete`, `ResultsTellTheTruth`, `CommitIsSynced` |
| `files_windows` | 1 key, 2 values, 1 identifier, clock up to 1 and set back by up to 1, minimum age 1 | `ResultsTellTheTruth`, `QuarantineKeepsBlobs`, `SuccessLeavesNoStaging`, `CleanupSparesTheYoung` |
| `stream_save` | one `save_from`, either facade, declared lengths up to 5 with a maximum of 4, chunks of 2, capacity 2; every fault | `CommittedIsTheInput`, `ResultsAreTrue`, `OperationDrains`, `AsyncLearnsOfResult`, `EveryCallerReturns` |
| `stream_load` | one `load_into`, either facade, payloads up to 7, chunks of 2, capacity 2; every fault | `ResultsAreTrue`, `OutputIsThePayload`, `OperationDrains`, `EveryCallerReturns` |
| `stream_slots` | a load that feeds a save, either facade, payloads up to 2, 1 or 2 slots, same or different key, a close | `CopyIsWhole`, `StreamsFinish`, `CancellationReleasesClose` |
| `envelope` | radix 4, payloads up to 3 bytes, 2 domains, maxima 2, 9 and 10 (too large), 2 damages | `ReadBack`, `DecodersAgree`, `AcceptsOnlyEnvelopes`, `OneDamageIsNamed` |
| `backlog` | 3 keys, 1 to 3 slots, 2 waiting per key, 3 in pending | `NothingStaysPending`, `NoOperationStarves` |
| `files_clear_sync` | 1 key, Unix | violation of `ClearIsSynced` |
| `files_root_sync` | 1 key, Unix | violation of `NamespaceIsSynced` |

Every module states its `TypeOK`; the runs list only the engine's, which the
proofs start from. The others hold on the same instances.

Why the bounds are enough for the cases that matter: four operations over three
keys with two slots give a key with a queue, a key waiting for a slot and a busy
key at once, in every assignment of keys (`keyOf` is chosen in `Init`). A
maintenance, a flush and a close are sent before, between and behind two
operations that may share a key or not; in the liveness run a second close
arrives before, during and after the shutdown. Each call is made at most once,
so what an instance cannot show is a third barrier or an endless supply of
calls; the theorems cover the first, `Backlog` the second. In `BlobFiles` keys share only the directory sync, so one key, two values
(an old and a new one) and as many identifiers as make a collision possible
cover the interference there is; the clock needs one value below and one at the
minimum age, and one step back to put a file in the future. Quarantine never
replaces on either platform, but only Windows has a cleanup that could reach a
quarantined blob, so that property is checked there. `FileSymmetry` and
`CallSymmetry` permute model values that no definition distinguishes; the
liveness runs use no symmetry.

For streams, five bytes in chunks of two fill a channel of two with one chunk in
the caller's hand, with a short last chunk; a maximum below the longest length
makes one refused. Seven bytes do the same for a load with chunks on both sides
of a full channel. Two streams need only one chunk in flight each to block one
another, so the composed run uses chunks, a channel and a pipe of one. In `Envelope` a
damaged length field can point inside, at the end of and beyond the file, exceed
the maximum, or (with `UsizeMax` 8) not fit the platform; the longest payload
spans two buffers of which the second is filled in part. Three keys show a key
that waits while two others trade one or two slots.

### What the runs say about waiting

Two streams that an application connects by a pipe wait for each other for ever
if the store has one slot or both are for the same key; the repository promises
nothing else, and dropping either frees both (`StreamsFinish`). With
fewer slots than keys an operation can be overtaken without end by traffic on
other keys, because `dispatch_available` takes any key of a map;
`NoOperationStarves` states what does hold: it gets through if there is a slot
for every key, or as soon as a flush or a maintenance waits.

### What the two violations say

`src/README.md:100`: "Unix uses `atomic-write-file` for same-directory
replacement and synchronizes directories after namespace creation and clear."
The code synchronizes after a *first* attempt only. If the sync fails, or the
process is killed before it, the retry finds the file already removed
(`filesystem/mod.rs:302`) or the namespace already there (`:68`) and succeeds
without synchronizing anything.

### Fairness

`FairSpec` assumes that the coordinator runs when it can (a thread of its own,
never blocked for ever except on a join), that every job is taken and ends, that
a caller that has found the store open finishes its send, and that a caller of
close waits for its answer. Nobody has to call, to close or to drop a handle.
That a job ends is an assumption on the operating system and, for streams, on
the caller that feeds them. Weak fairness suffices because nothing disables a
step of these once it is enabled. An operation behind others in a queue, and
starvation of one key by another, which cannot show with finitely many calls,
are what `Backlog` is for.

The stream modules assume weak fairness of the engine's steps and of a caller
that has called; a blocking caller is a running thread, an async one is polled
when its channel wakes it. In `StreamSlots` the application makes both calls.
Readers and writers belong to the application and may stall for ever: where a
property needs them to answer it says so in its own formula (`WF_vars(Reader) =>
...`, `Answering => ...` of `StreamSlots`), and `OperationDrains`,
`AsyncLearnsOfResult` and `CancellationReleasesClose` do not need it. Nobody has
to fail, to close or to be dropped.

`Backlog` assumes strong fairness of each key's completion and of the
maintenance's: the coordinator reads them in turn with submissions from one FIFO
channel, so a completion that has been sent is read after finitely many other
events, although each of these, while it is being handled, disables it. Nobody
has to submit.

## Proofs

Every theorem is of the form `Spec => []P` for the property `P` it names, unless
the table says otherwise.

| Module | Theorems |
|---|---|
| `EngineOrderProofs` | `TypeCorrect`, `PlacementCorrect`, `SameKeyOrderCorrect` |
| `EngineControlProofs` | `EngineCorrect` (`EngineInv`), `StoppedIsQuietCorrect`, `NoCallLostCorrect`, `MaintenanceBarrierCorrect`, `FlushBarrierCorrect`, `CloseCutCorrect`, `CloseAgreementCorrect`, `EveryJobHasAWorkerCorrect`, `NothingLeftBehindCorrect`, `SameKeyAnswerOrderCorrect`; `AnsweredOnceCorrect` (`Spec => [][AnsweredOnce]_vars`); `EngineImplementsContract` (`Spec => ImplementsContract`) |
| `SaveStreamProofs` | `SaveStreamInvariant`, `CommittedIsTheInputCorrect`, `SaveResultsCorrect` (`ResultsAreTrue`) |
| `LoadStreamProofs` | `LoadStreamInvariant`, `OutputIsThePayloadCorrect`, `LoadResultsCorrect` (`ResultsAreTrue`) |
| `StreamSlotsProofs` | `StreamSlotsInvariant`, `LoadIsALoadStream` and `SaveIsASaveStream` (`Spec => L!Spec`, `Spec => S!Spec`), `StreamsKeepTheirPromises`, `CopyIsWholeCorrect` |
| `EnvelopeProofs` | `EnvelopeInvariant`, `ReadBackCorrect`, `DecodersAgreeCorrect`, `AcceptsOnlyEnvelopesCorrect`, `OneDamageIsNamedCorrect` |
| `BlobFilesProofs` | `BlobFilesInvariant`, `CanonicalCompleteCorrect`, `ResultsTellTheTruthCorrect`, `QuarantineKeepsBlobsCorrect`, `SuccessLeavesNoStagingCorrect`, `CommitIsSyncedCorrect`; `CleanupSparesTheYoungCorrect` (`Spec => CleanupSparesTheYoung`, an action property) |

### Assumptions

The engine's theorems hold for all sets of keys and calls, finite or not, every
subset of the faults and every positive `MaxConcurrent`:
`MaxConcurrentAssumption` is the code's `NonZeroUsize`, and `CallsAssumption`
says that the kinds of calls are disjoint and `NoCall` is none. The streams'
hold for every positive chunk size and channel capacity, all lengths, every
maximum and either facade (`ChunkChannelAssumption`, `SaveStreamAssumption`,
`LoadStreamAssumption`; the code's chunk size and capacity are positive
constants). Those of `BlobFiles` hold for all keys, values and identifiers, on
either platform, for every positive minimum age (the code refuses zero) and all bounds of the clock
(`BlobFilesAssumption`; that and `NoFileAssumption` also say that the values for
absence are not values, identifiers or files). Those of `StreamSlots` hold
for any number of slots and size of the pipe besides (`StreamSlotsAssumption`);
that the two instances satisfy the assumptions of their modules is a lemma
(`InstancesAreStreams`). Those of `Envelope` hold for every radix above one, all positive widths of the
fields and chunk sizes, every set of domains, of payloads and of maxima that fit
the length field, every `UsizeMax` and any number of damages
(`EnvelopeAssumption`; the radix 256 and the widths of the code are an
instance). The runs evaluate every one of
these assumptions.

### The engine

`TypeOK` is not inductive: `DispatchIfIdle` needs that the handler's operation
is at hand, and `workers <= MaxConcurrent` needs the cardinality of `active` to
be a number. `TypeInv` adds both; only finitely many calls have been sent and
only finitely many keys are active in any reachable state.

`SameKeyOrder` speaks of operations on workers, but what makes it true is the
order in every place a call passes through before. `PlacementInv` says so: the
channel holds exactly the sent calls in ticket order and one completion per
completing call; the pending FIFO and each key's queue hold exactly theirs in
ticket order; whoever is further along the path channel - pending - queue -
worker has the smaller ticket (operations that bypass pending do so only when it
is empty); and a key with an operation in flight is active and has only that
one. The proof has lemmas for a container that is left alone, popped or
appended to, lemmas for each kind of step, and one for `Next`. `SameKeyOrder`
follows from `PlacementInv` without another induction.

`ControlInv` adds what the coordinator knows at each point of `run_scheduler`:
which calls can have an answer; that an operation settles before those behind it
on its key although the same handler has already dispatched the next one; that
maintenance in flight is alone and nothing behind a waiting one has run; that
what stands behind a close never leaves the channel alive, and that the
lifecycle leaves `Open` only for a close or an exit; and, for each point of the
shutdown and of the unwinding after a panic, what is over by then. `WorkInv` is
the accounting: active keys, jobs against threads, the key set of the queue map,
no free slot beside a waiting operation except at the points of the handler that
will fill it, no event deferred without a reason. `EngineInv` is all three, and
`TypeInv /\ EngineInv` is inductive; `StoppedIsQuiet`, `NoCallLost`,
`MaintenanceBarrier`, `CloseCut`, `CloseAgreement`, `EveryJobHasAWorker` and
`NothingLeftBehind` follow from it. `FlushBarrier` and `SameKeyAnswerOrder` speak
of answers given long ago, so they join the induction (`Whole`), together with
`Life`, what no step may do to a call: `AnsweredOnce` is the part of it that a
caller sees. The step lemmas first say what a step does to the phase and the
answer of the one call it is about, and then go through the parts that this can
disturb.

### The refinement

`EngineRefinement` maps a call's phase and reply to the stage the contract has
it in, and the lifecycle to the contract's gate. Most steps of the engine, all
moves between channel, pending and queues among them, are stutters; the others
are an acceptance, a start, an end, an answer or a change of the gate, and each
has its lemma. The contract lets an operation start when it is its turn: nothing
earlier on its key or before a barrier is unanswered or unfinished. That this is
so when the coordinator takes an operation from its queue, or a barrier from the
front of pending, is where `EngineInv` is used.

### Streams

A stream is correct because of where its bytes are. `SaveInv` says that, while
the operation can still receive, the staging file and the chunks in the channel
join up, one beginning where the one before it ends, and reach exactly as far as
the caller has sent; that the marker is last, and there only if the caller has
seen the input end at its declared length; and that a commit has begun only with
all declared bytes staged. `LoadInv` has the same chain from the destination
over the chunk in the caller's hand and the channel to what the worker has read,
and that an acknowledgement can only mean that the destination has the whole
payload. Both also say which result can stand beside which outcome and which
place of the caller, which is what makes `ResultsAreTrue` hold and excludes that
a caller that stays is told `StreamCancelled`. `ChunkChannelProofs` has the
lemmas about appending to and taking from sequences of adjoining chunks.

### StreamSlots

The composition writes the steps of the two streams as those of the instances
`L` and `S`, with further guards and with steps in which one stream feeds the
other. `LoadIsALoadStream` and `SaveIsASaveStream` show that hiding the slots,
the close and the other stream leaves a behaviour of `LoadStream` and of
`SaveStream`: every step of the composition is a step of the one or leaves all
its variables alone. So what is proved of a stream alone holds here without
another induction (`StreamsKeepTheirPromises`). `CopyIsWhole` needs one more
thing, which neither stream knows: that the declared length is the payload's and
the save has read no more than the load has written (`PipeInv`). A commit has
all declared bytes, so the load has written all of the payload, and it writes
only what it has read of a valid blob.

### Envelope

`EnvInv` says that while a save streams, the file is the header followed by the
chunks so far and the running checksum is the one of exactly these bytes; that a
saved file is `EncodeEnvelope` of the payload; and that after one damage it is
that envelope with this one byte changed, this end cut off or a byte added.
`ReadBack` and `OneDamageIsNamed` follow from it and from what the decoders make
of such a file. `DecodersAgree` and `AcceptsOnlyEnvelopes` hold for every file,
damaged however often, and need of the state only its types.

Fields and checksums are recursive functions of sequences. The library's
induction theorems take a predicate as a parameter and cannot be applied; the
lemmas `SetInduction` and `RangeInduction` are about a *set* of numbers instead,
and follow from the fact that a set of numbers has a least element. `RunExists`
shows that a function defined by its steps exists, and lemmas such as `CrcRun`
and `CrcIs` that the defined operator is that function and the only one. On
these rest: a field reads back what was written and only one field reads as a
given number (`FromTo`, `ToFrom`); feeding a checksum in parts is feeding it at
once (`CrcConcat`), so the header in three parts, the buffers of the second
decoder and the chunks of a streaming save all count the same
(`BuffersArePayload`, `SameSums`); and a changed byte changes the checksum
(`ChecksumNotices`). The last one is about the running checksum that stands for
crc32c: `Radix + 1` has no factor in common with the number it is reduced by, so
two checksums that differ stay different under the same bytes. Crc32c has the
same two properties, composition and sensitivity to one byte, and the theorems
use no other fact about it.

### BlobFiles

`FileInv` says on which name a running operation works at each of its steps and
what is there (`NameInv`); that up to the step that moves or removes the
canonical file the key is as the results so far leave it open, and after it as
the operation is to leave it (`KeyInv`); that no file looks older
than the operation that made it by more than the clock was set back (`AgeInv`); and that
a cleanup is alone, looks at staging names only, and computes ages that are
never above the true ones (`CleanupInv`). An operation touches only names of its
own key, and whether it returns or goes on, `LocalStep` carries the rest of the
invariant over; each action then only shows what it does to its own key. The
runs have one key, the theorems any number.

### Only model-checked

- The liveness properties (`EveryCallAnswered`, `StoreStops`, `OperationDrains`,
  `EveryCallerReturns`, `AsyncLearnsOfResult`, `StreamsFinish`,
  `CancellationReleasesClose`, and both properties of `Backlog`): fairness is out
  of the prover's reach.
- That `EnvInv` and the invariants of the streams and of `BlobFiles` hold on the
  small instances was checked with TLC before they were proved; the runs do not
  repeat it, except for `EngineInv`.

## Not modelled

Validation of suffix and namespace strings, key hashing, error texts and
benchmark instrumentation (stateless); the methods of the facades that only wait
for the engine's reply, and the thread that runs `open` for the Tokio facade; a
system clock set forward, which makes young files look old; several stores or
processes on one namespace (excluded by the repository's README); power loss
(`dirty` only records what a sync has covered, not what a disk would lose).
Windows path handling and the Win32 calls are reduced to their effect on names,
contents and times.

## Plan

1. Done: `Engine` with its properties, `StoreContract` and the refinement,
   `BlobFiles`, and the proofs of type correctness and same-key order.
2. Done: streams (`SaveStream`, `LoadStream`, `StreamSlots`), `Envelope`,
   `Backlog`, and the clock of `BlobFiles`.
3. Done: proofs of the engine's safety properties and of the refinement of
   `StoreContract`.
4. Done: proofs of the streams' safety properties, for every chunk size, capacity
   and length.
5. Done: proofs of the safety properties of `BlobFiles`, for any number of keys.
6. Done: proofs that the composed streams of `StreamSlots` are the streams alone,
   of `CopyIsWhole`, and of every property of `Envelope`. Every safety property
   that a passing run checks is now also a theorem; what is left to TLC alone is
   liveness, and the two violations.
