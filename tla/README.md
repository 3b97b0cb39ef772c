# Specifications of the GLM-5.3-Flash single-Spark release program

These modules describe the observation campaign of this repository: how router
statistics of a large model are captured on two machines, committed shard by
shard, uploaded, sealed, completed on other machines, and merged into the aggregate from
which experts are pruned; and how a pruned candidate is built, captured and evaluated. TLC checks them on small instances; TLAPS proves the
main results for every instance.

The repository keeps its evidence in files: receipts, statuses, markers,
manifests and seals. Almost every program may be killed at any time and run again on
what it left. What can go wrong is therefore seldom inside one function: it is a
run that dies between two files, a file from an earlier run that a later one
trusts, and two programs that use one directory. That is what is modelled.

## 1. The system

### Data flow

    token manifest ──> record capture (2 ranks) ──> shard receipts, record-status.json
                                                      │
                              observation sealer <────┘
                                     │  sealed-observations/{observations,candidates,seal}.json
                                     v
    completion capture ──> tail root ──> completion merge ──> second sealed directory
                                                                   │
                   keep maps <── candidate maps ───────────────────┘
                       │
        checkpoint builder ──> staging ──> quality queue ──> route capture / low-bpw evaluation ──> seals

### Components

| component | source | state it keeps | operations | module |
|---|---|---|---|---|
| record capture | `observer-src/reap/glm53_record_observation_pipeline.py` | `pipeline.lock`, `shard-*/receipt.json`, `record-smoke.json`, `record-status.json`; per rank: committed list, phase iterator, accumulators | handshake, lock, resume scan, broadcast of the committed list, phase loop with pipelined forward, gather, merge, commit, barrier, pause, status | `RecordCapture` |
| completion capture | `glm53_completion_capture.py` | the same files in a second root | the same code with another phase list | `RecordCapture` (`SkipsCommitted = FALSE`) |
| observation sealer | `seal_glm_observations.py` | an output directory with three files | lock, status check, receipt-by-receipt aggregation, domain split, write | `SealChain` |
| completion merge | `f216/merge_completion_seal.py` | a second such directory | partial-seal check, status check, aggregation on top of the seal, write; takes no lock | `SealChain` |
| fixed-suite lane pipeline | `glm53_observation_pipeline.py`, `glm53_observation_suite.py` | `pipeline.lock`, receipts, upload markers, merged artifact, `qualification-result.json`, `pipeline-status.json` | resume scan, agreement, capture, commit, upload, barrier, finalise, status | `LaneUpload` |
| observation worker | `glm53_observation_worker.py` | the lock of a worker id, receipts, markers, `worker-N.json` | launch and receipt of one shard; walk over shards, upload, status | `ObserverReplay`; `LaneUpload` |
| observation sidecar | `glm53_observation_sidecar.py` | markers and merged artifact in a mirror; takes no lock | validate, synchronise, finalise | `LaneUpload` |
| layer-wise observer, started by the worker | `glm53_exl3_observe.py` | `run_identity.json`, slots `state-a` and `state-b`, `observations/layer-*.json`, `progress.json`, `manifest.json` | identity check, resume, one layer after another from slot to slot, statistics, turnover | `ObserverReplay` |
| checkpoint builder | `build_reap_checkpoint.py` | `.build.lock`, `BUILD_CONTRACT.json`, per-file receipts, `BUILD_STATUS.json`, `EXL3_MANIFEST.json` | lock, contract check, rewrite or reuse of each file, metadata, seal | `CheckpointBuild` |
| quality queue | `staging-k2-k256/queue_quality.py`, `seal_baseline.py` | `queue.lock`, stage receipt, launch receipt, seals, `queue-status.json` | wait for control and GPU, launch once, wait, seal | `QualityQueue` |
| staging | `stage_and_queue.py`, `validate_stage.py`, `staging-q3-k192/*.py` | stage receipt | stream, hash, reclaim | no |
| quality evaluation | `quality/evaluate_pruned_quality.py`, `quality/deps/evaluate_low_bpw_quality.py` | `evaluation-identity.json`, two state slots, `progress.json`, normalized rows, `quality-report.json` | bind, initialise or resume, stream layers, normalise, compare | `LayerEvaluation` |
| route capture | `quality/deps/release_route_capture_v2.py` | `capture.lock`, two state slots, a manifest per layer, `status.json` | GPU check, resume scan, embeddings, workers per GPU, slot turnover | `RouteCapture` |
| monitor | `quality/monitor_capture.py` | its own file | poll; only reads | no |
| abliteration writer, weight archive | `glm53_abliterate_bf16.py`, `archive_retired_v4*.py`, `finish_v4_2384_weight_archive.py` | manifest; relocation receipt | rewrite and resume; hash, copy, verify, unlink | no |
| keep-map selection, quality comparison, acceptance, token preparation | see `PROJECT.json` | none that outlives a run | pure computation or HTTP | no |
| vendored vLLM, exl3, REAP | `native-mtp/`, `b12x-runtime/`, most of `observer-src/` | | third-party code | no |

`PROJECT.json` lists all of them with reasons, and under `hazards` each place where an
interleaving, a crash or an old file can do harm, with the property that covers it or
why none does yet.

### How they interact, and what makes each one correct

* **The two ranks of a capture** share nothing but messages: `all_gather_object`,
  `broadcast_object_list`, `barrier` on a gloo group, and ordered `send`/`recv` of
  hidden states on an NCCL group. Correct: they agree on phases, they never wait for each
  other in a circle, and a receipt counts every record of its shard once on both sides.
* **Successive launches** share the output root. Correct: a receipt, once there, stays;
  receipts form a prefix of the manifest under one runtime; a crash loses at most the shard
  in progress.
* **Concurrent launches** share the root's `pipeline.lock`. Correct: one commits at a time.
* **Capture and sealer** share the root, the status file and the lock. Correct: a seal
  covers exactly the receipts that are there, each once.
* **Completion capture and merge** share the tail root and no lock; **sealer and merge**
  share the sealed directory. Correct: the merged seal covers every shard of the manifest
  once, with one runtime for each of the two epochs.
* **Worker and observer** share a shard directory; the worker waits for the observer and alone holds a lock.
  Correct, as long as nobody starts a worker beside an orphaned observer: whatever dies, the next observer continues from
  whole files, and the receipt counts every group once in every layer.
* **Lane, worker and sidecar** share markers and a remote store with their successors, and the sidecar a mirror with whoever
  fills it. Correct: a marker never promises more than the store holds, and a status is true whenever it is read.
* **Queue, container and operator** share the output of an evaluation, the first two also the GPU. Correct: the queue runs its
  container once, and seals only whole scores of the pinned candidate.
* **Successive evaluations, and successive route captures,** share two slots of state files; workers of a route capture may
  outlive their controller. Correct: what a run resumes from is whole, and a score or count is of every row after every layer.
* **Successive and concurrent builders** share an output directory and its `.build.lock`. Correct: the
  directory keeps one contract, a receipt means its file is there, what is finished is not touched
  again, and `COMPLETE` means the directory is what its manifest says.

## 2. The modules

### `RecordCapture`

One pair of processes per launch, `pc[l][r]` for rank `r` of launch `l`. Variables in
three groups: `memory` (lost when the process ends), `network` (lost when both ended), and
`disk`. Actions follow `run()` from top to bottom:

| code (`glm53_record_observation_pipeline.py`) | action |
|---|---|
| 163-193 start, `init_process_group` | `Start` |
| 196-207 gathers, `validate_peer_identities` | `OfferIdentity`, `CheckPeers` |
| 208-215 `flock(LOCK_EX \| LOCK_NB)` | `TakeLock` |
| 219-223 resume scan | `ScanShard` |
| 224-227 broadcast, `phase_plan` | `ShareCommitted`, `HearCommitted`, `Plan` |
| 156-160, 233-239 reset and next phase | `BeginPhase`, `ResetObservations` |
| 240-257 one record | `Forward`, `Receive` |
| 261-264 export, gather, merge | `Export`, `Merge` |
| 265-270 publication | `Publish` (in `Merge`) |
| 271-279 barrier, append | `PassBarrier` |
| 280-284 pause | `PollPause`, `HearPause` |
| 285-297 status, return | `Conclude` |
| the timeout of 192-193 | `TimeOut` |
| death at any point, `finally` | `Crash`, `Ends` |

The check of token totals (`_validated_observation`) is modelled by what it sees: sums of
tokens, not identities of records. So a receipt that passes the code's checks need not be
exact, and exactness is a property, not a guard.

Abstractions: a record is its index; a rank's statistics are the bag of the records it
forwarded; `atomic_json` is one step (temporary file, then `replace`); the gathers of the
start-up handshake are one; sends are buffered. Token files and the model do not change
during a run (the code digests them at start-up).

### `ShardLedger` and `TailLedger`

What a reader of an output root may rely on. `ShardLedger`: one writer at a time; the next
receipt is always that of the first missing shard, with exact statistics and the runtime of
the others; a summary is true when written, and may be behind later. `TailLedger` is the
same for the completion root, whose writer captures shards again, which changes no entry, and
whose summary may list a shard twice.

### `SealChain`

Sealer and merge as two programs, next to the writers of both roots. The writers are the
ledgers, not the captures: `RecordCapture` is checked to implement them, so what holds here holds
for the captures. `RootAccepted`, `PartialAccepted` and `TailAccepted` are the checks of the two
programs; `AddShard` is one turn of their loops; `CreateFile` and `FillFile` are the two halves of
a `write_text`; `Crash` may come between any two steps. `--output` is one fixed directory for each
program.

Abstractions: the statistics of a shard are a bag that holds the shard once; digests are
contents; contract, model and manifest digests are equal in all programs; domains matter by the
set of domains a shard has. The ranking of `candidate_maps` is not here (only its refusal to work
without a homogeneous shard is).

### `CheckpointBuild` and `SealedOutput`

`build()` of `build_reap_checkpoint.py`, any number of builders of any contract on one output:

| code (`build_reap_checkpoint.py`) | action |
|---|---|
| 254-273 arguments, contract, `flock(LOCK_EX \| LOCK_NB)` | `Start` |
| 274-278 prior contract, nonempty output | `CheckContract` |
| 279, 50-59 the two halves of `atomic_json` of the contract | `OpenContract`, `ReplaceContract` |
| 282-285 free space | `CheckSpace` |
| 302-309, 321-322 a file with a receipt | `ReuseFile` |
| 310-311 `rewrite_shard` | `RewriteFile` |
| 312-313, 321-322 its receipt | `WriteReceipt` |
| 323-325 `BUILD_STATUS.json` | `CountFile` |
| 334-353 `copyfile` and `atomic_json` of metadata | `TruncateMeta`, `WriteMeta` |
| 354-363 `EXL3_MANIFEST.json` | `WriteManifest` |
| 364-367 status `COMPLETE`, return | `Complete` |
| death, or an exception at any point | `Crash` |

Sources are read-only and what a builder makes of a file is a function of file and contract, so the digest
of a file is the contract it was made under. Six metadata files stand for the thirteen: one sealed and one
unsealed file of those that `copyfile` truncates in place, and the four that are replaced. Of the temporary
files only the contract's matters (`Nonempty`): the others exist only beside a contract and are overwritten.
Left out: the byte plan of tensors (`plan_tensor`), and the closure counts at 326-333, which fail or pass as
the source does. Checks before the lock only read.

`SealedOutput` is what a stager sees: a directory is claimed by one contract, gains files, and is sealed
when it has all; a rerun takes the seal back and gives it again.

### `ObserverReplay`

One shard of the sequential worker, `pc[p]` for observer process `p`:

| code (`glm53_observation_worker.py`) | action |
|---|---|
| 165-166, 186, 194 `flock`, no receipt, `run(command, check=True)` | `Launch` |
| 195-208 manifest, statistics, `make_shard_receipt`, receipt | `SealReceipt` |
| 128-137, 222-223 | `CleanReplay` |
| death of the worker; its observer may live on | `WorkerDies` |

| code (`glm53_exl3_observe.py`) | action |
|---|---|
| 551-579 run identity | `CheckIdentity`, `WriteIdentity` |
| 424-430 resume | `Resume` |
| 432-449 embeddings, first progress | `BeginEmbed`, `Embed`, `EndEmbed` |
| 639-641 | `ListFiles` |
| 666-671 output slot | `ClearOutput` |
| 672-689, 452-474 one group | `ReadGroup`, `WriteGroup` |
| 690-693 statistics of the layer | `WriteObserved` |
| 702-710 progress | `WriteProgress` |
| 711-713 input slot, roles swapped | `RemoveInput` |
| 720-734, 741-749 manifest, last progress | `WriteManifest`, `Complete` |
| death, also in the middle of `rmtree`; an exception | `Crash`, `CrashRemoving` |

A group file is its group and the number of layers applied to it; a layer applied to anything but the output of the layer
below leaves the mark -1, so a wrong order shows in the statistics. The statistics of a layer are the list of the files
they were made of. `CompleteTotals` is what `make_shard_receipt` sees of them: their number. Removing a tree is one step
for other processes, and a crash leaves any part of it. Each file holds `group_size` rows, as `_initialize_states` writes
them, so `_replay_groups` yields one group per file. Left out: free space, which fails or passes like any exception;
`token_rows.json`, always written after the identity; sidecar uploads and `--stop-after-layer`, which
the worker's command does not use. A restarted observer begins with fresh accumulators, so a layer it repeats is counted
from nothing.

The worker's death leaves its observer running, and `Spec` lets the next worker start beside it, as the code does.
`AttendedSpec` is the same but for one guard, `NoOrphan`, on `Launch`: the operator starts no worker while an observer
that outlived its own is still there. The properties are of `AttendedSpec`; `orphan_observer` shows what `Spec` does.

### `LaneUpload`

One root and the program that uploads what is in it. `program` is chosen in `Init` and never changes: a lane root, a worker
root, or a mirror with a sidecar. The steps from the question for the marker to its writing are the same in all three and
one group of actions; what precedes and follows is each program's own.

| code | action |
|---|---|
| pipeline 323-348, worker 165-166, sidecar start | `Start` |
| pipeline 349-356 resume scan | `Scan` |
| pipeline 357-364 broadcast, limit | `Agree` |
| pipeline 415-425 qualification of part of a shard | `Smoke` |
| pipeline 378-434 capture, merge, receipt | `Capture` |
| pipeline 225-238, worker 99-112 | `Push`, `Commit`, `Mark` |
| pipeline 438-439 barrier | `Barrier` |
| pipeline 249-263 `finalize_lane` | `Finish`, `Merge` |
| pipeline 440-447, worker 229-235 status | `WriteStatus` |
| worker 167-208 next shard, 222-226, end of the lock | `Walk`, `Running`, `Unlock` |
| sidecar 91-121, 122-154, 157-162, 163-168 | `List`, `Prevalidate`, `Sync`, `Recheck` |
| a failed upload or read-back, an exception, death | `Crash` |
| rank 1 dies, or times out | `PeerFails`, `TimeOut` |

Abstractions: a receipt is the runtime that made it, since the statistics of a shard follow from it; the merged artifact is
what it was merged from. How two ranks, or an observer, make a shard is one step here and is in `RecordCapture` and
`ObserverReplay`. The store is versioned, as the dataset repository is: a commit takes nothing away. `status.dest` is no field of
the file, which names no destination: it is kept beside it to say where the shards it lists were verified. A failed preflight, a lost
lock and a dry run change nothing and are not told from no launch. `Copy`, which fills the mirror, is external. It assumes of
the mirrored root what `RemoteBacked` and `ReceiptsStay` say of a lane root: files do not change, and a marker that arrives is backed.

### `LayerEvaluation` and `QualityQueue`

The evaluator, and around it the queue that runs it once in a container. `QualityQueue` extends `LayerEvaluation`: the
evaluator's steps are `EvalNext`, and queue and evaluator meet in `container`, in `Begin`, and in the report.

| code (`evaluate_low_bpw_quality.py`, `evaluate_pruned_quality.py`) | action |
|---|---|
| pruned 303-311 binding of the output, in the two halves of `atomic_json` | `Bind`, `Bound` |
| low-bpw 154-172 resume or embeddings | `Initialize`, `ClearA`, `Embed`, `EmbedSide` |
| low-bpw 274-280 output slot | `Layer`, `ClearOut` |
| low-bpw 247-262 one row, 123-135 its two files | `Row`, `RowSide` |
| low-bpw 286-296 manifest and progress | `Complete`, `Progress` |
| low-bpw 297-299 `rmtree` of the input, file by file | `ClearIn` |
| low-bpw 303-322 | `Normalize`, `Manifest` |
| pruned 317-328 comparison and report | `Report` |
| death anywhere, or an exception in a row | `Crash` |

| code (`queue_quality.py`, `seal_baseline.py`) | action |
|---|---|
| 31-34 `flock(LOCK_EX \| LOCK_NB)` | `Start` |
| 37-39 launch receipt | `Guard` |
| 40-53 wait for the original control, its seal | `WaitBaseline`, `SealBaseline` |
| 54 output must not exist | `Fresh` |
| 56-69 GPU owners | `WaitOwner`, `OwnerClear` |
| 70-79 `docker run` | `Run` |
| 80-85 launch receipt, status | `Receipt`, `Tell` |
| 87-96 exit code, seal of the results, status | `Wait`, `SealCandidate`, `TellSealed` |
| 98-102 failure, told after the lock is let go | `TellFailed` |
| death; the container lives on | `Die` |

Abstractions: a hidden state is the candidate and the number of layers applied to it in order, anything else is `Wrong`; a digest is what
it digests; one GPU does the rows in order. **Assumptions, which the code does not enforce:** one evaluation of
an output at a time (the evaluator takes no lock). An evaluation by hand may begin at any time when none runs, also between
the checks of the queue and its `docker run` (`ByHand`). Other owners of the GPU only delay a launch and are left out, as are
the frozen files of the queue, which match or fail the launch.

### `RouteCapture`

| code (`release_route_capture_v2.py`) | action |
|---|---|
| 528-535 `flock(LOCK_EX \| LOCK_NB)`, status | `Launch` |
| 550-556 GPU processes | `Preflight` |
| 565-582 resume scan | `Scan` |
| 254-271 embeddings, one row after another | `Embed`, `EmbedSide` |
| 272-283 their manifest, after the last row | `EmbedManifest` |
| 589-605, 430-456 next layer, start of the workers | `Layer` |
| 328-378 one row, 228-251 its two files | `Row`, `Side` |
| 398-410 a worker raises, or an orphan dies | `WorkerFails` |
| 455-507 results, rows verified, manifest | `Join` |
| 607-609, 413-419 `rmtree` of the input, file by file | `Remove` |
| 611-640 | `Final` |
| 643-657 `FAILED`, told after the lock is let go | `TellFailed` |
| death of the controller; its workers live on | `Crash` |

A worker counts as seen on its GPU from its first statement on. The counts of a row follow from its digest and are not
carried. Every launch starts at layer 0 with the same `--rows`; `--last-layer` and `--keep-slots` are free.

### Proof modules

`RecordCaptureProofs` (types, exactness, the two ranks in step) → `RecordLedgerProofs` (the root as a whole, for both drivers), which extends it;
`SealChainProofs`; `CheckpointBuildProofs`; `ObserverReplayProofs`; `LaneUploadProofs`; `QualityQueueProofs`, of queue and
evaluator together; `RouteCaptureProofs`. Each starts with its inductive invariant, goes on with one lemma per action and
ends with the theorems.

## 3. What is checked

| run | instance | question |
|---|---|---|
| `record_restart` | 1 launch at a time, 3 shards of 2+1+1 records, 2 runtimes, 3 modes | any sequence of launches, crashes, pauses, pilots and runtimes: `ExactReceipts`, `OneRuntime`, `StatusHonest`, `NoMutualWait`, `NoSelfRefusal`, `ImplementsLedger`, `EveryLaunchEnds` |
| `record_contend` | 2 concurrent launches, 2 shards of 2+1 records, 2 runtimes | the lock: `TypeOK`, `CommittedPrefix`, `CommitOnce` |
| `completion_root` | as `record_restart`, `SkipsCommitted = FALSE`, tail from shard 1 | `ImplementsTail`: the root of the completion driver is still a ledger |
| `completion_resume` | the same | violated, see section 5 |
| `seal_chain` | 3 shards: one of domain code, one mixed, one of domain prose; tail from shard 1; 2 runtimes | `SealExact`, `SealsWholeRoot`, `MergeExact`, `NoFalseRefusal`, `WriteOnce` |
| `checkpoint_build` | 2 builders, 3 files, 2 contracts, one of which keeps nothing of file 2 | crashes, reruns, builders of both contracts: `TypeOK`, `ReceiptBacked`, `OneContract`, `CompleteIsSealed`, `FinishedStays`, `ImplementsOutput` |
| `build_resume` | the same with one contract | violated, see section 5 |
| `observer_replay` | 4 layers, of which 1 and 3 are routed, 3 groups, 2 identities, no worker started beside an orphan (`AttendedSpec`) | deaths and resumes anywhere, orphans that end alone: `TypeOK`, `ReceiptExact`, `ProgressWhole`, `NoSelfRefusal`, `ProgressStays`, `NoResumeRace` |
| `lane_upload` | lane, worker or sidecar; 2 launches, 2 runtimes, 2 destinations, 2 shards | launches with any arguments, failed uploads, lost peers, deaths: `TypeOK`, `RemoteBacked`, `StatusHonest`, `ReceiptsStay` |
| `quality_queue` | 2 launches of the queue, 2 candidates, 2 rows, 3 layers | queue, container and evaluations by hand, deaths of each: `TypeOK`, `ProgressWhole`, `ScoresExact`, `OneEvaluation` |
| `route_capture` | 2 controllers, 2 GPUs, 3 rows, 3 layers | launches with any last layer, deaths, orphaned workers: `TypeOK`, `ManifestExact`, `SlotKept` |
| `orphan_observer` | 3 layers, 2 groups, 1 identity, workers started beside orphans too (`Spec`) | violated, see section 5 |

**Bounds.** Three shards are the least that have a first, a middle and a last one: a prefix that
is neither empty nor whole, and a tail of two. Two records in the first shard make a pilot a
proper part of a shard; one record would make a pilot and a full capture equal. The first
two shards have as many tokens, so token totals cannot tell them apart. Two runtimes are enough to
mix. Two launches are enough to race: a third finds the lock in the same states. Number and order of
launches, crashes and pauses are not bounded. The shards of `seal_chain` have one of each
kind of domain set, and the tail overlaps with a longer prefix, so that seals of every length are
offered to the merge. In `checkpoint_build` the file that is
omitted lies between two that are not; builders are interchangeable (symmetry), and a third would find
the lock as the second does. In `observer_replay` four
layers let both slots take both roles twice, and end on a routed layer after one that is not; of three groups a broken
`rmtree` can leave first, middle and last. In `lane_upload`
two shards are the least with a first and a last, so that a limit leaves one; two destinations and two runtimes are enough for a marker, a receipt and
a launch to disagree in each. In `quality_queue` and `route_capture` three layers make a slot be written, read, removed and
written again, so that stale rows of two layers below can be there; two rows can disagree. With two GPUs and three rows one worker
of a route capture has two rows and the other one. The largest space is that of
`quality_queue`, about 2,100,000 states. No run uses a state constraint. Deadlock is checked everywhere:
an idle system can always be started again.

**Fairness** (`record_restart` only). Weak fairness of each rank's steps: a live process runs until
it blocks. Weak fairness of `TimeOut`: the process group is created with a timeout
(`--timeout-seconds`, 192-193), and a collective whose peer is gone raises when it expires. No
fairness for `Start`, `Crash`, or the choice of the operator in `PollPause`. A record always
finishes: the forward pass is assumed to terminate. The other runs check safety only:
of queue and lane there is little to promise, since their waits (for a GPU owner, a control, a store) end only if others let them.

## 4. What is proved

Assumptions: `ManifestAssumption` (what `validate_manifest` enforces), `DriverAssumption`,
`NoneAssumption`, `PayloadAssumption` (`None` is no payload of a gather), `ModesAssumption`; `SkipsCommitted` for `PrefixCommitted` to
`CaptureImplementsLedger` (the record driver), and `~SkipsCommitted` for `TailImplementsLedger` (the completion driver). For the builder:
`FilesAssumption` (there is a file; `Omitted` says of which files a contract keeps nothing) and its
`NoneAssumption` (`None` and `Torn` are not contents). For the queue and its evaluator: `SizesAssumption` (there is a row
and a layer), `PinnedAssumption` (the queue's candidate is one), `CandidatesAssumption`, `NoneAssumption` and
`ToldAssumption` (a candidate is none of the names of an unbound output; `None` is no value). For sealer and merge:
`ShardsAssumption` (there is a shard, the tail begins at one, each shard has a set of domains). For observer, uploads and route
capture: there is a layer, group, shard, GPU, row (`SizesAssumption`, `NumShardsAssumption`), and routed layers are layers
(`RoutedAssumption`). Each of these modules has a `NoneAssumption`: what is there is told from `None`, a finished file from
`Torn`. The theorems of the observer are about `AttendedSpec`, not `Spec`: any process may die, a worker before its observer too, but no
worker is started beside an orphan. It is the operator's part, since no code asks for it, and the condition under which the
properties hold at all; section 5 shows what happens without it. Those of the queue rest on evaluations not overlapping.

| theorem | for any number of launches, shards, records, runtimes |
|---|---|
| `TypeCorrect` | `Spec => []TypeOK` |
| `ReceiptsExact` | `Spec => []ExactReceipts` |
| `RanksNeverDeadlock` | `Spec => []NoMutualWait` |
| `RanksNeverRefuse` | `Spec => []NoSelfRefusal` |
| `PrefixCommitted` | `SkipsCommitted`: `Spec => []CommittedPrefix` |
| `RuntimesNeverMix` | `SkipsCommitted`: `Spec => []OneRuntime` |
| `StatusNeverLies` | `SkipsCommitted`: `Spec => []StatusHonest` |
| `CommittedOnce` | `SkipsCommitted`: `Spec => CommitOnce` |
| `CaptureImplementsLedger` | `SkipsCommitted`: `Spec => ImplementsLedger` |
| `TailImplementsLedger` | `~SkipsCommitted`: `Spec => ImplementsTail` |
| `BuildTypes` | `Spec => []TypeOK` of `CheckpointBuild`, any number of builders, contracts, files |
| `ReceiptsBacked` | `Spec => []ReceiptBacked` |
| `ContractsNeverMix` | `Spec => []OneContract` |
| `CompleteIsTrue` | `Spec => []CompleteIsSealed` |
| `FinishedIsFinal` | `Spec => FinishedStays` |
| `BuildImplementsOutput` | `Spec => ImplementsOutput` |
| `QueueTypes` | `Spec => []TypeOK` of `QualityQueue`, any number of launches, candidates, rows, layers |
| `EvaluationResumes` | `Spec => []ProgressWhole`: of a bound output; a death while the identity is written leaves one that `main` refuses (pruned 309-310) |
| `ScoresAreExact` | `Spec => []ScoresExact` |
| `QueueEvaluatesOnce` | `Spec => OneEvaluation` |
| `ChainTypes` | `Spec => []TypeOK` of `SealChain`, any manifest, runtimes, domains |
| `SealsAreExact` | `Spec => []SealExact` |
| `SealsCoverTheRoot` | `Spec => []SealsWholeRoot` |
| `MergesAreExact` | `Spec => []MergeExact` |
| `NothingIsRefused` | `Spec => []NoFalseRefusal`, the one exception being a tail status that lists a shard twice |
| `FilesAreFinal` | `Spec => WriteOnce` |
| `ReplayTypes` | `AttendedSpec => []TypeOK` of `ObserverReplay`, any number of observers, identities, layers, groups |
| `ReceiptsAreExact` | `AttendedSpec => []ReceiptExact` |
| `ProgressIsWhole` | `AttendedSpec => []ProgressWhole` |
| `NobodyRefusesItself` | `AttendedSpec => []NoSelfRefusal` |
| `ProgressIsKept` | `AttendedSpec => ProgressStays` |
| `NoObserversRace` | `AttendedSpec => NoResumeRace` |
| `UploadTypes` | `Spec => []TypeOK` of `LaneUpload`, any number of launches, shards, runtimes, destinations |
| `MarkersAreBacked` | `Spec => []RemoteBacked` |
| `StatusIsHonest` | `Spec => []StatusHonest` |
| `ReceiptsAreFinal` | `Spec => ReceiptsStay` |
| `RouteTypes` | `Spec => []TypeOK` of `RouteCapture`, any number of controllers, GPUs, rows, layers |
| `ManifestsAreExact` | `Spec => []ManifestExact` |
| `LastSlotIsKept` | `Spec => []SlotKept` |

For the capture the argument has three layers, each an inductive invariant over the one below.

1. **Types.** `TypeInv` is `TypeOK`, inductive as it stands.
2. **Exactness.** `ExactReceipts` says nothing of processes and is not inductive.
   `ExactInv` adds what a rank's accumulators hold at each label: the records from the first of its phase up to
   its cursor, once each, and the whole phase once the loop is over; and that what it put into
   the gather is exact for the phase it names. A receipt is published from two gathered bags that
   name this phase's range, so it is exact. This needs the reset of
   `BeginPhase`, and the range check of `_merge_stage_range` to rule out the peer's other phase. It does
   not need the token totals.
3. **The root.** `LedgerInv` ties the holder of the lock to the disk. Rank 0 past `TakeLock` holds the
   lock, and only one launch can; its committed list is, label by label, the scanned part of the disk or all of it;
   while it works, its remaining phases are exactly the shards without a receipt;
   every receipt on disk validated under its runtime before it commits another. From this the next
   commit is the first missing shard under the common runtime, and the status is true when written.
   `CaptureImplementsLedger` then maps each action to a ledger step or a stutter (`CommitMaps`, `CloseMaps`,
   `QuietMaps`). For the completion driver `TailInv` takes its place: receipts are a gapless run from `FirstShard` on
   (`TailGapless`), and there are two numbers, the end of what the holder found and of what it captured since, such that its list is
   the run to the one followed by the run to the other, the disk holds the longer of the two, and its remaining phases begin
   where the second ends (`TailWork`). A commit before the end of what was found rewrites a receipt that is exact and under
   this runtime, so it is the same one (`ReplayMaps`); one after it is the next commit of the ledger.

Deadlock and self-refusal need a fourth, `AlignInv`, beside the second: how far the two ranks of a launch may be apart. Each rank has a
*place* (label, remaining phases, phase, cursor); that of a live rank is where it is, that of a dead one where it fell, which what it left
in the collectives still tells. Before the committed list is broadcast the places are those of the handshake (`Handshake`);
after it, as if rank 1 had heard the list (`Unheard`) or with it heard (`Planned`), they are in step (`InStep`): in the same phase, or one
rank at the start of the next while the other closes the last. The difference of `met` is the difference of the collectives
entered; the wire carries the records between the two cursors; what a rank put into the last gather is of the phase it is in (`Gave`). TLC checked
`AlignInv` on the instances of both drivers before it was proved. `RanksNeverDeadlock` and `RanksNeverRefuse` are read off it place by
place, the latter with the exactness of what is gathered; both hold for both drivers.

For the builder one invariant, `BuildInv`, carries all six. `HolderInv`: whoever is not off holds the lock, so
only one builder has a memory worth speaking of. `BuilderInv` of that one: past `ReplaceContract` the contract on disk is its
own (`Claimed`); its cursor is in range and between rewrite and receipt the file is there (`Cursor`); the receipts it
has collected are those on disk up to the cursor (`Collected`); once it touches metadata the status is `BUILDING`, and
its manifest is the one just written (`Laid`). `DiskInv`: a directory without a contract is empty but for the temporary file; each
file and receipt is the one the contract determines. None of the six properties is inductive without these: that a
receipt is backed needs the contract of the builder that writes it; that `COMPLETE` is true needs that a builder which
rewrites a file or metadata has met a status other than `COMPLETE` (`CompleteHasReceipts`, `Laid`). `BuildKinds` sorts the
steps into the five kinds an observer can tell apart; the action property and the refinement follow from it.

For the queue, `IInv` joins what the evaluator knows and what the queue may rely on. `EvalInv` goes label by label: past the
binding the output is the evaluator's own (`Binding`); embeddings are there up to the row it is at, and nothing names them
yet (`Embedding`); while it streams, `progress.json` names its input, and only when all rows of the output verify does it
name that (`Streaming`); whatever has a digest is of the candidate the output is bound to, after the layer it says (`Scored`).
`ProgressWhole` needs `Streaming`: only the slot that progress does not name is ever cleared or written. `ScoresExact` needs
`Scored`: a row is only made from one that verified. `HolderInv`: one launch holds the lock, and what evaluates for the queue is
the running container. `SealInv`, label by label: what a launch has passed is on disk when it seals (original, launch receipt, a
container that exited with 0), and nobody takes it back, since a container's name is used once. `OneEvaluation` follows; that the
report it seals is of the queue's candidate is what `Sealable` checks, and that it is exact is `ScoresExact`. Nothing is
claimed of the output between `Fresh` and `Run`: an evaluation by hand may begin there.

For sealer and merge, `IInv` says of each root that receipts are exact and of one runtime and that a status lists some of
them (`LedgerInv`, `TailInv`): those are invariants of the ledgers, proved again here from their steps. `SealInv`: while the sealer
works the lock is its own (`LockInv`), so the original root stands still, its list stays all receipts present, and what it has
added up counts the shards below `next` once. `MergeInv` cannot say that the tail root stands still, since the merge holds no lock; it
needs only that receipts never change or vanish (`Grown`), so a list that was right when it was read stays right, also after the
driver has been started again. `OutInv` says the same of the files: the merge has in memory the observations that are still on
disk, because a directory is used once. `SealExact` and `MergeExact` are not inductive without `Counted`, which follows the
totals shard by shard; the merge starts from the totals of a seal that is exact, of a prefix that `PartialAccepted` makes a proper one.

For the observer, `LockInv`: an observer that lives is alone, the child of the worker that waits or an orphan while there is no
worker. The lock sees to the one and `NoOrphan`, the guard of `AttendedSpec`, to the other (`LaunchInv`). So of the label-by-label parts only one observer's say anything. `PlaceInv`: from `ListFiles` until it has removed its input, the
slot it reads is the one `progress.json` names, or named just before; `ReplayInv`: what it has written is what it has read, one
layer up, at most one file behind. `DiskInv` follows through crashes, since nobody writes the named slot: it is whole, and the
statistics up to its layer are there and exact. A restarted observer repeats a layer from the same slot, so what it
writes over is equal to what was there (`ProgressStays`).

For the uploads the invariant needs two facts that the three programs share: a file that is there stays as it is, and the store
only grows. `FlightInv` ties whoever is between `Push` and `Mark` to the file it pushes and, after `Commit`, to the store. That a lane
never replaces a receipt is the one thing that needs its lock: what it takes to be missing, nobody has written since its scan
(`LaneInv`). The merged artifact is that of the receipts because it is written when all are there, and those stay.

For the route capture, `PrefixInv`: manifests are a prefix of the layers. `Top` is the slot of the last one. `WorkInv`:
whatever works, an orphan of a dead controller too, works on the layer after that prefix, reads `Top` and writes the other slot; no two
controllers differ about it (`ControllerInv`). So `Top` is whole whenever it is read (`FileInv`), and the rows of the other slot
become the next manifest only once all of them verify for that layer. For the embeddings `EmbeddingInv` says that rows before the
one at work are done, so their manifest, written after the last, covers whole rows also when an earlier launch died among them. The delicate step is `Join`: it moves `Top`, and
must leave no worker behind, which it does since it waits for all of them.

**Model-checked only:** `EveryLaunchEnds` (liveness under fairness is out of the prover's reach). Every other property of a passing
run is a theorem.

## 5. Where code and documentation disagree

`glm53_completion_capture.py` says that "a crash mid-completion resumes at the next uncommitted tail
shard" (13-14), and its comment speaks of "missing shards only" (238). The phase list is every
shard from `--completion-start-shard` on (240-248); the committed list is not consulted. The run
`completion_resume` finds a restarted launch that captures a shard with a receipt. `completion_root` shows
what this leaves intact: receipts stay exact and in order, since a replay writes equal statistics.
What it breaks is the status: `completed_shards` lists shards twice, and the merge
(`merge_completion_seal.py:87-89`) refuses such a list. So a tail that crashed half-way can be finished by a
relaunch but not merged, unless its receipts are removed first. A pause seen after the last tail shard
leads to the same dead end.

`build_reap_checkpoint.py` says that "shard outputs and receipts are atomic and resumable" (4-5), and
`source-inventory-k2/PRUNING.md:27` makes an identical contract the only condition. The first write to a fresh output is
`BUILD_CONTRACT.json.tmp` (279, 54). A builder that dies before the `replace` (59) leaves a directory with that file and no
contract, which every later builder refuses (277-278). The run `build_resume` finds this in five steps: start, check, open, crash, start.
Nothing is lost, since no file was written yet; somebody has to delete the temporary file.

`glm53_observation_worker.py` says above its lock "One worker id owns its ranges; prohibit simultaneous launches/resume
races" (164). The lock is the worker's (165-166); its observer, a child process (194), does not inherit the
descriptor and takes no lock. If the worker is killed and its observer is not, the next worker gets the lock, finds
no receipt, and starts a second observer, which passes the identity check and resumes from `progress.json`. The run
`orphan_observer` finds it clearing the slot the first one writes. With `INVARIANT ReceiptExact` in place of
`NoResumeRace` the same configuration leads, in 41 states, to a receipt of wrong statistics that `make_shard_receipt`
accepted, since their token totals are right. `observer_replay` shows that the lock is enough as long as no worker is
started beside an orphan: one that runs on alone does no harm.

## 6. Plan

Order of work, by importance of the behaviour. Modules with theorems declare no `RECURSIVE`
operator; parameters are constants with named assumptions.

1. `RecordCapture`, `ShardLedger`, proofs — done.
2. `TailLedger`, `SealChain`, proofs — done.
3. `CheckpointBuild`, `SealedOutput`, proofs — done.
4. `ObserverReplay`, proofs — done.
5. `LaneUpload`, proofs — done.
6. `LayerEvaluation`, `QualityQueue`, proofs — done.
7. `RouteCapture`, proofs — done.
8. The ranks in step, the refinement of the completion driver: proofs — done.
9. Left: the stager with `SealedOutput`, streaming a directory between two looks at its status; the monitor; the
   abliteration writer.

Composition: `SealChain` instantiates the two ledgers; `QualityQueue` extends `LayerEvaluation`; `CheckpointBuild` reads a
sealed directory only as a constant, as `QualityQueue` reads a stage receipt.

### Not modelled

* **Most of the repository's Python.** About 80,000 lines are implementation by extension; most are copies of vLLM, exl3 and REAP
  files, original and patched, under `native-mtp/`, `b12x-runtime/` and `observer-src/`, and single experiments. The
  modules cover the programs of the release itself that keep state between runs. Share of lines is therefore low.
* **Staging** (`stage_and_queue.py`, `validate_stage.py`, `staging-q3-k192/`): a straight line of stream and hash to one receipt.
* **Abliteration writer:** one process and one manifest, the pattern of `CheckpointBuild`.
* **Weight archive, fleet queues and bridges:** scripts for named weights and hosts, run once; none resumes.
* **`--first-layer` and differing `--rows` of the route capture:** the slot is taken by its name; what is in it is the operator's business.
* Tensor arithmetic, model loading, HTTP benchmarks (no protocol of their own).
* Disk corruption other than a file left unfinished; loss of un-fsynced renames after power failure (`atomic_json` of the
  observer does not call fsync; a process crash does not lose them).
