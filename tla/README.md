# A TLA+ model of the Groundlight edge endpoint

The edge endpoint is a proxy in front of the Groundlight cloud. It answers image
queries with a local model when it can, and escalates them to the cloud when it is
not confident enough. This directory holds TLA+ modules that model its components,
TLC configurations that check them on small instances, and TLAPS proofs that hold
for every value of the constants. `PROJECT.json` lists the components, the runs, the
source lines each definition models, the hazards and the theorems.

## 1. Inventory

### Parts of the system

| Part | Source (under `src/app/`) | State | Operations |
|---|---|---|---|
| Queue writer | `escalation_queue/queue_writer.py`, `queue_utils.py` | `last_file_path`, `num_lines_written_to_file` of each uvicorn worker; `images/`, `writing/` | write the image, choose a file, open or create it, append a line |
| Queue reader | `escalation_queue/queue_reader.py` | the generator's position; `reading/` with a data and a tracking file | choose a file, move it, open it, skip counted lines, yield, count, final read, unlink |
| Queue consumer | `escalation_queue/manage_reader.py` | the line in hand | check the request cache, submit with retries, record or drop a failure, cache the request, delete the image |
| Request cache | `escalation_queue/request_cache.py` | one empty file per request ID | `contains`, `add` with eviction |
| Queue retention | `escalation_queue/queue_retention.py` | none; deletes by mtime | one sweep per cron run |
| Failed records | `escalation_queue/failed_escalations.py` | `failed/` | record, prune, summarise |
| Image query routing | `api/routes/image_queries.py` | none of its own | `post_image_query`: cloud, edge answer, audit, background escalation |
| Detector metadata cache | `core/app_state.py`, `core/utils.py` (`TimestampedCache`) | values, timestamps, suspended values | get, refresh with suspend and restore |
| Edge configuration | `core/edge_config_manager.py`, `api/routes/edge_config.py` | the active configuration file, a cache by mtime per process | save, read, diff, apply, reconcile |
| Deployment database | `core/database.py` | one row per inference deployment | create, update, pending deletion, reset |
| Model updater | `model_updater/update_models.py` | the loop; database, model files and Kubernetes objects | one refresh cycle |
| Kubernetes manager | `core/kubernetes_management.py` | none; the cluster | create, get, update, delete, roll-out checks |
| Model repository | `core/edge_inference.py` | numbered version directories | save, select newest, delete old |
| Edge inference client | `core/edge_inference.py` | time of the last escalation per detector | readiness, inference, OODD adjustment, cooldown |
| Activity metrics | `metrics/iq_activity.py`, `metric_reporting.py` | counter and timestamp files per process | increment, aggregate, clear, report |
| Device ID | `core/deviceid.py`, used by `metrics/metric_reporting.py` | the ID file | load or create |
| Resource and detector status | `metrics/resource_metrics.py`, `metrics/system_metrics.py` | none; reads of the cluster | collect, attribute, summarise |
| Status monitor | `status_monitor/` | the scheduler, the payloads collected and not yet reported | hourly collect, report and clear; routes |
| Profiling | `profiling/` | the current trace and span of a thread, hourly trace files | spans, flush, rotate, clean up, load, merge |
| Application benchmark | `src/load-testing/app_benchmark/` | detectors it made, a snapshot of the edge configuration | provision, run, summarise, restore |
| Dashboard, other load tests, network tests, deployment scripts | `profiling/dashboard.py`, `src/load-testing/`, `src/deploy/` | none of their own | see `PROJECT.json` |

### How they interact

`post_image_query` runs on the event loop of one of several uvicorn workers. It writes
escalations to the queue synchronously, so a worker writes one at a time; other
workers do the same in the same directories. One reader process consumes the queue
and calls the cloud. A cron job sweeps the same directories twice a day. No locks
are used: the processes meet only in directory operations, which succeed or fail one
by one. The model updater, the web workers and the configuration route share a
database, a configuration file and a tree of model files in the same manner; so do
the workers, which count activity in files, and the status monitor, which reads, sums
and clears those files. The requests of one worker share its caches from the threads of
a pool, and continue after the response in background tasks.

### What is hard

Processes that interleave between two system calls, descriptors that outlive a
rename, kills between two steps that belong together, files that vanish between a
check and its use, replies of the cloud that get lost, and a queue that must not
lose, reorder or duplicate escalations in spite of it. `PROJECT.json` lists these
hazards line by line.

### What makes each part correct

* Queue: an escalation whose write was reported successful reaches the consumer, in
  its worker's order, and is settled; a duplicate has a cause; an image lives as long
  as its line; the reader always recovers.
* Failed records: the newest `MAX_RECORDS` are kept, and no record is lost but to age,
  to newer ones or to a kill.
* Routing: what the client was told is not done reaches the cloud or the queue; nothing
  is sent when escalation is disabled; the cooldown holds; what is counted happened.
* Metadata cache: a failed refresh never loses a value.
* Configuration, database and model updater: the records follow the configuration, a
  record outlives the pods it accounts for, what is pending is processed, and the new
  model is served in the end.
* Model repository: no version is deleted under a pod that loads it.
* Activity metrics: nothing is counted twice, and what was collected is reported.
* Reports: the answer, the histogram, the resources and the status say what the records
  and the cluster were, also when the cluster changed between two reads; traces are trees
  and are found again; the device ID stays.
* Benchmark: however it ends, it leaves the edge as it found it, and it measures the
  detectors it says it measures.

## 2. Modules

| Module | Models |
|---|---|
| `QueueState` | the queue's directories, the state of every process, the constants and their assumptions, `Init` |
| `QueueWriter` | `write_escalation_to_queue` and `QueueWriter`, per worker |
| `QueueReader` | `QueueReader.__iter__`, `_get_files`, `_choose_new_file` |
| `QueueConsumer` | `read_from_escalation_queue`, `consume_queued_escalation`, `RequestCache` |
| `QueueRetention` | `prune_expired_queue_data` |
| `EscalationQueue` | the composition, its `Next` and `Spec`, and its properties |
| `EscalationDelivery` | what the queue promises to those who write to it, without files and processes |
| `EscalationQueueProofs` | the queue's inductive invariant, its proof, and the theorems about files and the reader |
| `EscalationLineProofs` | proofs about lines: written once, settled in order, stranded files, the refinement |
| `EscalationImageProofs` | proofs about images and retention |
| `EscalationOnceProofs` | proofs about duplicates and the request cache |
| `ControlState` | configuration file, database, cluster, model repository, workers and updater |
| `EdgeConfig` | a worker's start, `EdgeConfigManager`, `reconcile_config` and the database operations they make |
| `InferenceDeployments` | `InferenceDeploymentManager`, and the cluster (external) |
| `ModelRepository` | version directories: save, selection of the newest, deletion of old ones |
| `ModelUpdater` | `manage_update_models` |
| `ControlPlane` | the composition of the five, fairness, properties |
| `ControlPlaneProofs` | proofs about configuration, records, pods and model versions |
| `QueryState` | what one query works on: caches, cooldown, pods, cloud, the queue as a set |
| `DetectorMetadata` | `TimestampedCache`, `get_detector_metadata`, the refresh after a response |
| `ImageQueries` | `post_image_query`, readiness, inference, submission; properties |
| `ImageQueriesProofs` | proofs about what a query promises, sends and counts |
| `MetricsState` | counter files, payloads, failed records |
| `ActivityMetrics` | `record_activity_for_metrics`; the jobs that collect, report and clear |
| `FailedEscalations` | `record_failed_escalation`, `prune_failed_escalations`, retention of `failed/` |
| `Metrics` | the composition of both, with the clock |
| `MetricsProofs` | proofs about totals, refusals and records |
| `DeviceId` | the device ID file under two callers, restarts and edits |
| `InferenceResults` | parsing of the servers' responses, OODD adjustment, the answer and the metadata of an escalation |
| `Sums` | the sum of numbers over a set, as the number of points below them |
| `ActivityReport` | file names of the confidence histogram, and the report made of them |
| `ClusterState` | pods and deployments as the reports read them, changing between the reads (external) |
| `ResourceReport` | `collect()` of `/status/resources.json` |
| `DetectorStatus` | `get_detector_details` and the state it derives for each detector |
| `Profiling` | spans made by the threads of one request |
| `TraceStore` | trace files: append, rotation, clean-up, load, merge |
| `AppBenchmark` | the life of a benchmark |
| `Reports` | the parts from `DeviceId` on; `part` says whose behaviour it is, as none reads what another writes |
| `ReportsProofs` | proofs about all parts of `Reports`, and about sums |
| `MCEscalationQueue`, `MCControlPlane`, `MCImageQueries`, `MCMetrics`, `MCReports` | instances for TLC |

The whole is five state machines. They meet in few places. `ImageQueries` takes the
queue to be a set that a write enters or fails to enter, which is what `QueueWriter`
gives a caller; the database flags and pods of `ControlPlane` are the pods that go down
and come back in `ImageQueries`; the outcomes `recorded` and `unrecorded` of the consumer
are the records of `FailedEscalations`.

### The queue: state and actions

An action is one system call whose effect another process can see, or a decision
between two such calls, so a kill can fall between any two of them. A program counter
(`writer[w].pc`, `reader.pc`, and `sweep.dir` with `sweep.victim`) says where a process
is. The consumer runs while the reader's generator is suspended at a `yield`, so both
share `reader.pc`.

* **Files.** A queue file is its name, a number in the order of generation: the code's
  names begin with the time, and the reader sorts by name. (This assumes a clock that
  does not step back.) `loc` says in which directory an entry is; an unlinked file
  keeps its `content`, as the inode does while a worker has it open.
* **Writer.** `TakeTimestamp`, `WriteImage`, `ChooseFile`, `OpenExisting` or
  `CreateFile`, `AppendLine` are the steps of one escalation. `OpenExisting` is the
  open without `O_CREAT`: it finds the file or resets to a new name. `AppendLine`
  writes wherever the inode is by then.
* **Reader.** `ChooseTracked` and `ChooseOldest` are `_choose_new_file`; `RenameFile`,
  `CheckDataExists`, `OpenFiles`, `CountTracked`, `ReadLine`, `FinalRead`, `TrackLine`,
  `UnlinkData` and `UnlinkTracker` follow `__iter__`. When the queue is empty no reader
  action is enabled: the code polls.
* **Consumer.** `CheckCache`, the four ends of a submission (`SubmitAccepted`,
  `SubmitRetryable`, `SubmitReplyLost`, `SubmitFails`), `RetryWait`, `HandleFailure`,
  and the `finally` block as `CacheRequest` and `UnlinkImage`. The cloud is external:
  it may take a query in, reject it, be unreachable, or take it in and let the reply
  get lost. It can take in a query only if the image could be read.
* **Retention.** `SweepStart`, `SweepStat`, `SweepUnlink`, `SweepNextDir`.
* **Kills.** `WorkerCrash` and `ReaderCrash` forget a process's memory and keep the disk.
  An exception that leaves the reader's loop ends the process and is the same.
* **History variables** (`written`, `late`, `purged`, `outcome`, `accepted`, `owner`,
  `count`) are only written; no guard reads them but the bounds on `count`.

A line is appended whole or not at all: a line cut short by a full disk, and with it
the branch for lines that are not JSON, is not modelled. Waiting times of retries and
of polling are not modelled, only that waiting ends. Evicting an old cache entry and
adding the new one are one step, and entries with equal mtime are ordered. What
`record_failed_escalation` does on disk is in `FailedEscalations`; here it is one
outcome, `recorded` or, when it fails, `unrecorded`. A rejected submission is one the
cloud did not take in.

**The promise.** `EscalationDelivery` has one stage per escalation: new, held, done or
lost. The cloud may take a held escalation any number of times and none that is done,
and only an escalation about which nothing was decided can be lost.
`EscalationQueue!DeliveryImplemented` is its specification under a mapping (`Stage`) that
holds an escalation as long as the queue can still give its line to the consumer
(`InQueue`) and, once something was decided about it, until its image is deleted.
After that it is done; a written line that can no longer be given and about which
nothing was decided is lost. What the cloud took is the `accepted` count.

### The control plane: state and actions

`file` is the active configuration file (whether it is whole, its set of detectors, its
mtime) and `cached` what each worker keeps of it; `tables` and `db` are the database, a
record being absent, active or pending deletion, and `created` the `deployment_created`
flags; `dep` has a deployment per model (primary or OODD of a detector) with its new and
its old pod; `repo[m]` is the sequence of version directories with the files written so
far, of which those below `low[m]` are deleted.

* **Workers.** At start: drop the tables, create them, find the start-up configuration
  and reconcile it. Afterwards: `PUT` a configuration, look at the active one through the
  mtime cache, or meet a query for a detector without inference, which adds its records.
  Each file operation and each transaction is an action. A save truncates and then
  writes; a read in between finds no configuration or fails to parse.
* **Updater.** One pass: read the pending detectors, delete their deployments, wait for
  the pods, delete the records and files; then for every active detector fetch the
  cloud's model, save it file by file, create or patch the deployment, poll the rollout
  and either delete old versions or time out; then wait, and refresh the flags. A poll
  may time out whenever it is not satisfied. A fault is a kill, or an exception, at any
  step; a query of the database while a starting worker has dropped the tables is one too.
* **Cluster (external).** One replica, `maxSurge` 1: the pod of a new template starts
  beside the old one, loads the highest version it finds, becomes ready or fails to load,
  and the old one terminates. The Service made with a deployment is not kept apart from
  it.
* **History.** `mixed` marks reconciliations that overlapped or were cut short, `erased`
  detectors whose record was removed after they had been added again, `forgot` those
  whose record a reset dropped; no guard reads them.

### Image queries: state and actions

For one detector: of each worker the metadata entry with its age and the suspended
value, the readiness cache per model and the time of the last escalation; the
configuration flags; the pods; the cloud, online or not, with the submissions it took.
A request has a program counter; the handler is cut at its awaits and at each operation
on a cache that threads share. `human_review` and `want_async` take all their values,
the confidence is high or low, and the audit draw falls either way. After the response
the background tasks (escalation, refresh of the metadata) are further steps of the same
request. The content type, body and ID checks that refuse a query before the handler
begins are left out. The model relies on the validation of the SDK's configuration type:
`disable_cloud_escalation` implies `always_return_edge_prediction`.

### Metrics: state and actions

A worker records an activity as its code does: each counter file in turn is read and
truncated, then written; the file that holds the time of the last activity is touched
last. Files are named by hour and process ID,
and a process ID may be given to a later worker. The status monitor's jobs sum the
previous hour into a payload, report the payloads there are, oldest first, and clear old
hours, one file at a time. The queue reader's recorder writes a temporary file,
replaces, lists, sorts by mtime and unlinks, while retention removes records below it.
`KeepHours` and `MaxRecords` stand for the constants of the code.

### Reports: state and actions

* `DeviceId`: two threads load or create the ID between restarts of the process; a
  customer edits the file, in two steps, and may be read in between.
* `InferenceResults`: probabilities are multiples of a unit; the primary's and the OODD
  server's response, counts and boxes are enumerated; the confidence arithmetic is the
  code's. That probabilities add up to one and that a binary confidence is at least one
  half is assumed of the servers.
* `ActivityReport`: records written by processes with either bucket width, read while
  some are half made.
* `ResourceReport`, `DetectorStatus`: the pod list, the metrics, the deployments, the
  node and each inference server are read one by one, and the cluster changes in between.
  A running pod is taken to have an address; GPU memory bandwidth, treated by the code as
  GPU compute is, is left out. `Kilo` and `Kibi` are small numbers so that the units stay
  apart and the sums small.
* `Profiling`: the request's thread and the two of the parallel inference open and close
  spans by the context variables each of them inherited. `TraceStore`: a process appends
  records, changes files with the period, the clean-up deletes, a full disk cuts a
  line; inference servers append records of their own to traces.
* `AppBenchmark`: host check, snapshot, provisioning, then per run the change of the
  detectors, one process per camera, warm-up, window and end, the summary, and the cleanup
  at exit, with calls that fail, interrupts and processes that die at each place. Time is
  the phase the main process is in. Latencies, error counts and plots are left out. A
  SIGKILL and `--no-cleanup` are the same step, `SkipCleanup`.

## 3. Runs

| Run | Instance | Checks |
|---|---|---|
| `queue_crash` | 2 workers (symmetric), 3 escalations, two of them retries of one request, 3 file names, 2 lines per file, cache of 2, one kill, one lost reply | `TypeOK`, `NoSilentLoss`, `TrackerNeverAhead`, `OneFileInProgress`, `InWorkerOrder`, `DuplicatesBounded`, and the refinement `DeliveryImplemented` |
| `queue_retention` | 1 worker, 2 escalations, 1 file name, cache of 1, 2 clock ticks, one sweep, one kill | `ImageOutlivesLine`, `MissingImageNotRecorded`, `StrandedOnlyByCrash` |
| `queue_dedup` | 1 worker, 4 escalations of 3 requests, 2 file names, cache of 2, one kill | `DuplicateOnlyAfterEviction` |
| `queue_live` | 2 workers, 2 escalations, 1 line per file, 3 file names, one kill, one failing file operation | `EventuallySettled` |
| `queue_late` | 1 worker, 1 escalation, nothing fails | violates `NoLineMissed` |
| `queue_stranded` | 1 worker, 1 escalation, one kill | violates `InterruptedFileFound` |
| `control_config` | 2 workers (symmetric), 1 detector, 2 PUTs, a query, a lookup, one kill, 2 ticks | `ConfiguredIsActive`, `StaleOnlyWithinTick` |
| `control_rollout` | 1 worker and the updater, 1 detector, 2 PUTs, a new model (the old one with a binary, the new one without), and one of: a kill of the worker, a fault of the updater, a pod restart | `OrphanOnlyByReset`, `LoadingVersionKept`, `RecordOutlivesPods`, `PendingIsProcessed`, `UninterruptedModelServed`; no deadlock |
| `rollout_stuck` | 1 worker and the updater, a separate OODD model, a new model, one fault | violates `NewModelServed` |
| `image_queries` | 2 queries (symmetric) on 1 worker, separate OODD model, each of the events (PUT, cloud change, lost answer, pod change, disk error) once, 2 ticks | `NothingSentWhenDisabled`, `UndoneIsSent`, `TwiceOnlyIfAnswerLost`, `MetadataKept`, `EscalationsCounted`, `CooldownKept`, `StaleReadinessBounded` |
| `metrics` | 2 process IDs, 3 hours, 1 hour kept, `MAX_RECORDS` 1; events of activity and of failed records in behaviours of their own | `TotalsExact`, `RefusedOnlyByCut`, `ActiveCountKnown`, `RecordsKept`, `CollectedIsReported` |
| `reports` | the eight parts, with the instances of `MCReports` | `EdgeAnswerRight`, `HistogramRight`, `ResourcesAddUp`, `StatusMatchesPods`, `TracesAreTrees`, `RecentTracesLoaded`, `LeavesAsFound`, `MeasuredOnOwnDetectors`, `DeviceIdStable` |

Deadlock is checked in `control_rollout` and `rollout_stuck`, where the updater goes
round for ever. In the others the finite set of escalations, queries, hours or events is
used up and the system then waits.

**Why the bounds are enough.** Two workers are needed for a file that fills, is moved
or is waited for while another grows; two lines per file for a tracking file that is
neither empty nor complete, and three file names so that a worker meets a full file
and a moved one. Four escalations of three requests, in every order, make a cache of
two entries evict a request whose retry is still to come. `queue_retention` has a
single file name, so its second escalation shares the file or is not written: what
the sweep can do to one file does not depend on others. There the window is one tick
and two ticks pass, so that images are old for the sweep and the escalation expired,
or not, in every order. The safety invariants that relate files, lines and tracking
files are proved without bounds (section 4).

In the control plane two workers are needed for reconciliations that overlap and for a
save that falls into another worker's read; two PUTs remove a detector and add it again,
which is what races with the updater's deletion. The detectors do not share records,
deployments or versions, so one is enough; workers and updater are interleaved in
`control_rollout` with one worker, as the overlap of workers is the other run's question.
Two queries overlap in every pair of steps of the handler; one worker has all the state
that requests share, since caches and the cooldown are per worker. Staleness and
cooldown are zero ticks and readiness is kept one, so each can be young or old within two
ticks. Three hours are the hour of the activity, of its collection and of the clearing.
The parts of `reports` have the smallest sets in which their cases happen: two pods of a
model of which one is from before a patch, bucket borders on either side of a border and
at 1.0, trace files of three ages, a sweep that shrinks the number of detectors.

**Fairness of `LiveSpec`.** A worker that is alive finishes the write it started, the
reader and the consumer take their next step: the operating system schedules them and
Kubernetes restarts the reader. Submission is strongly fair: outages end, so that of
infinitely many attempts one gets through. The kills and faults are not fair, and
nothing makes an escalation arrive.

**Fairness of the others.** `FairSpec` of `ControlPlane`: a worker that is starting or
reconciling goes on, the updater, a single loop that Kubernetes restarts, goes on, and
the cluster starts, loads and terminates pods. Nobody has to change the configuration,
publish or fail. `Spec` of `Metrics`: the scheduler runs its collecting and its reporting
job every hour.

**What the runs show of the queue.** A written escalation is lost in three gaps only. Two
contradict a comment in the source and are findings:

1. `queue_late`: the reader's comment promises not to miss a line, but a worker that
   opened the file before the rename and writes after the final read has its line
   unlinked, and `write_escalation` returns `True`.
2. `queue_stranded`: a reader killed between the rename and the creation of the
   tracking file leaves a file in `reading/` that nothing selects again, until
   retention removes it.

The third, a file removed by retention, is intended. It includes a line appended
between the sweep's `stat` and its `unlink`. Outside the gaps the queue implements
`EscalationDelivery`.

A duplicate at the cloud has a cause: the surplus copies are at most the kills of the
reader and the lost replies (`DuplicatesBounded`), and a retry of a settled request is
submitted again only after an eviction or when the earlier submission was cut short
(`DuplicateOnlyAfterEviction`). A late line can be cut short too: a worker appends through
its open descriptor to a file that retention has unlinked and the reader has still open;
the reader submits that line and is killed before it caches the request. The proof of
`RetriesSkipped` failed at this case, and TLC shows it with two ticks, one sweep and one
kill, so the property names it.

**Of the control plane.** A record outlives the pods it accounts for and no version is
deleted under a pod that loads it, whatever is killed. Two exceptions are part of the
properties: a reset of the database by a worker that starts late leaves pods without a
record, and overlapping reconciliations, or a detector added again during its deletion,
leave a configured detector without one until the next reconciliation. The third finding:

3. `rollout_stuck`: an updater killed after it saved the new model and before it patched
   the deployment finds, after its restart, the newest version already on disk, takes
   the detector to be up to date and never rolls the model out.
   `UninterruptedModelServed` shows that nothing but this kind of interruption does so.

**Of the rest.** Every query that the client believes to be under way is with the cloud or in
the queue, unless the write to the queue failed, which is reported to nobody. Counts are
exact except for what was being written as it was collected or was cut short.

### Observed while modelling

These are behaviours the models have because the code has them. They contradict no
property above, but a maintainer may want to know of them.

* Two overlapping refreshes of a detector's metadata can lose the value when the second
  fails; the docstring (`src/app/core/app_state.py:53`) reads as if a failure always
  restored it. `MetadataKept` excludes this case.
* A query with `human_review=ALWAYS` is counted twice as an escalation
  (`EscalationsCounted`).
* A line appended to a queue file after retention unlinked it may still be read, by a
  reader that has the file open, and submitted (see above).
* The cooldown is kept by each worker for itself, so a detector escalates up to once per
  worker within `min_time_between_escalations`.
* The rollout poll does not compare `observedGeneration`: an earlier rollout that
  completes late is taken for the present one.
* `generate_metadata_dict` takes the length of `rois`, which may be `None`
  (`src/app/core/utils.py:236`), and quantities with a suffix the table lacks are counted
  with factor one (`src/app/metrics/resource_metrics.py:63`).
* A benchmark that could not read the configuration restores an empty one; a detector
  whose priming fails is not deleted; a push that fails after earlier runs exits with 0.

## 4. Proofs

Eight modules hold theorems. Each is proved for every value of the constants: any number
of workers, escalations, files, queries, detectors, process IDs, hours, pods and traces,
and any number of kills, faults, lost replies and sweeps. The assumptions are the ones
next to the constants:

| Assumption | Says |
|---|---|
| `QueueAssumption` | types; the limits and the retention window are positive |
| `QueryAssumption` | types; finitely many queries, a worker exists, readiness is kept a positive time |
| `ControlAssumption` | types; `NoDetector` is no detector, preloaded models are models |
| `MetricsAssumption` | types; finitely many process IDs, the limits are positive |
| `ClusterAssumption` | finitely many pods, each of a kind and with the detector it belongs to or none |
| `ResultAssumption` | types; the unit of probabilities divides in two, so that one half is a probability |
| `ActivityAssumption` | the bucket width divides 100 (it is 5 in the code), confidences are percentages, finitely many processes |
| `ResourceAssumption` | what the metrics server and the inference servers may answer: quantities with a known suffix or without one, no device with more memory in use than it has, and the same size of a device whichever pod tells of it |
| `StoreAssumption` | types; the window that is loaded is no longer than files are kept |
| `ConfigAccepted` | the benchmark's configuration passes its own validation, which includes that a lens has the stages of its kind and every sweep a value |

Every invariant named below was checked with TLC on an instance before its proof.

### The queue's files and its reader (`EscalationQueueProofs`)

| Theorem | Statement |
|---|---|
| `Inductive` | `Spec => []IInv` |
| `TypeCorrect` | `Spec => []TypeOK` |
| `TrackingIsSafe` | `Spec => []TrackerNeverAhead` |
| `AtMostOneInProgress` | `Spec => []OneFileInProgress` |
| `NeverLostSilently` | `Spec => []NoSilentLoss` |
| `QueueFilesInPlace` | `Spec => []PlaceInv` |

None of the properties is inductive by itself. `NoSilentLoss` fails to be because a state
in which the reader's position is ahead of what was settled satisfies it and the next
unlink does not. `IInv` adds:

* `WriterInv`: a name belongs to one worker and is created once; a descriptor in use
  belongs to a file that was created. Hence at most one worker can still append to
  the file the reader holds.
* `ReaderInv`: what is in the reader's hand at each point, and that tracking files
  belong to files that have left `writing/`.
* `PositionInv`: lines before the position are settled, and the tracking file agrees
  with the position.
* `TailInv`: when the reader sleeps at the end of the file, at most one line can
  follow, and only while nobody has the file open any more. Without it, the final
  read of a single line would not be enough. After it, any further line is late.
* `GoneInv`: the lines of an unlinked file are settled, late or purged.
* `WrittenInv`: a written escalation is a line of some file.

The proof takes one process after the other. A step of a worker leaves the reader's
side alone (`ReaderSideFrame`), except for `CreateFile` and `AppendLine`; steps of the
consumer move within a line (`ConsumerMoves`); steps of the reader either let go of
the file (`ReaderResets`), approach it (`ReaderApproaches`) or move along it
(`ReaderMovesOn`); a sweep only removes. `NoSilentLoss` then follows from `IInv` by
cases on the directory the file is in.

### Lines and the promise (`EscalationLineProofs`)

| Theorem | Statement |
|---|---|
| `WrittenOnce` | `Spec => []LinesInv`: lines and written escalations correspond one to one |
| `StrandedByCrash` | `Spec => []StrandedOnlyByCrash` |
| `SettledInOrder` | `Spec => []InWorkerOrder` |
| `QueueDelivers` | `Spec => DeliveryImplemented` |

The module first says what each variable may do in a step (`DataMoves`, `TrackerMoves`,
`FileMoves`, `OutcomeMoves`, `HandMoves`); the later proofs argue from these moves and no
longer action by action. `StrandedOnlyByCrash` needs `NoReadingInv`: without a kill, a file
in `reading/` is the one the reader has chosen. `InWorkerOrder` needs `OwnerInv` (a
worker's current file has the latest of its names) and `OrderInv`: once the reader has
turned to a file (`Taken`), no earlier file of the same worker is readable. The refinement is shown
step by step: every step of the queue is, of each escalation, a put, a loss, a decision, a
take by the cloud, a settlement or a stutter (`PutStep`, `LoseStep`, `DecideStep`,
`TakeStep`, `SettleStep`), by the effect it has on the line and the image.

### Images and retention (`EscalationImageProofs`)

| Theorem | Statement |
|---|---|
| `ImagesInductive` | `Spec => [](ClockInv /\ AgeInv /\ PresentInv /\ ImageOutlivesLine)` |
| `ImagesOutliveLines` | `Spec => []ImageOutlivesLine` |
| `MissingImagesDropped` | `Spec => []MissingImageNotRecorded` |

Retention looks at modification times, the consumer at the escalation's own timestamp.
`ClockInv`: no timestamp is in the future, and an image is no older than its escalation.
`AgeInv`: the image, or the tracking file, that the sweep is about to unlink belongs to
escalations that have expired. `PresentInv`: whatever the consumer may still submit has its
image or has expired; the one line that a restarted reader takes again without its image is
skipped, as its request is cached.

### Duplicates and the cache (`EscalationOnceProofs`)

| Theorem | Statement |
|---|---|
| `CostsInductive` | `Spec => []CostInv` |
| `DuplicatesHaveACause` | `Spec => []DuplicatesBounded` |
| `RequestsRemembered` | `Spec => [](PrefixInv /\ CacheInv /\ RememberedInv)` |
| `RetriesSkipped` | `Spec => DuplicateOnlyAfterEviction` |

`DuplicatesBounded` counts, and a sum over a function cannot be reasoned about here by
induction. It is turned into the cardinality of one set: `Costs` has a pair for every copy
beyond the first, and one for the first copy of an escalation whose image is still there,
so that it could be submitted again (`Exposed`). A kill or a lost reply adds at most one element; a further copy takes the place
of an exposed one. For the cache, `PrefixInv` says that the lines of a file are settled in
order, `CacheInv` that the cache holds distinct requests that were settled, and
`RememberedInv` that each settled request is in it, or the cache is full, or the line is one
of the exceptions of the property. That a request missing from a full cache was evicted by
as many others is the pigeonhole principle on the entries.

### Image queries (`ImageQueriesProofs`)

| Theorem | Statement |
|---|---|
| `RequestsInductive` | `Spec => [](TypeOK /\ RequestInv)` |
| `DisabledStaysLocal` | `Spec => []NothingSentWhenDisabled` |
| `PromisedIsSent` | `Spec => []UndoneIsSent` |
| `SubmittedOnce` | `Spec => []TwiceOnlyIfAnswerLost` |
| `MetadataNotLost` | `Spec => []MetadataKept` |
| `EscalationsSpaced` | `Spec => []CooldownKept` |
| `ReadinessFreshEnough` | `Spec => StaleReadinessBounded` |
| `EscalationCounter` | `Spec => []EscalationsCounted` |

`RequestInv` relates, for one query and each point of the handler, the configuration it was
routed by, what it has been told, what was submitted for it and what it has still to do; the
first three properties are consequences. `CacheInv` says who holds a suspended metadata
value, `LastInv` that the time of the last escalation covers every background escalation of
a worker, `ReadyInv` that a server cached as ready is up or went down after it was asked. The counter is
compared with cardinalities of sets of queries (`CountInv`), of which each step changes
the membership of one query.

### Control plane (`ControlPlaneProofs`)

| Theorem | Statement |
|---|---|
| `ControlTypes` | `Spec => [](TypeOK /\ DetectorKnown)` |
| `StaleWithinTick` | `Spec => []StaleOnlyWithinTick` |
| `DeploymentsInductive` | `Spec => []DeploymentInv` |
| `OrphansOnlyByReset` | `Spec => []OrphanOnlyByReset` |
| `RecordsOutlivePods` | `Spec => RecordOutlivesPods` |
| `LoadingVersionsKept` | `Spec => LoadingVersionKept` |
| `ReconcileInductive` | `Spec => []ReconcileInv` |
| `ConfiguredAreActive` | `Spec => []ConfiguredIsActive` |

`MtimeInv` gives the configuration cache. `DeploymentInv` is the updater's side:
`UpdaterInv` (it works on detectors it knows from the table, and deletes records only of
detectors without pods), `KindInv` (only kinds that get a deployment have pods) and the
property. `ReconcileInv` is the workers' side: `TaskInv` (what is left of a
reconciliation), `AloneInv` (one that is alone is the only one, any other is marked as
mixed) and `ProgressInv` (one that is alone has added, or will add, each detector of its
configuration). Steps of the cluster and of the updater are frames for the workers' side,
and the other way round.

### Metrics (`MetricsProofs`)

| Theorem | Statement |
|---|---|
| `MetricsInductive` | `Spec => []IInv` |
| `MetricsTypes` | `Spec => []TypeOK` |
| `TotalsAreExact` | `Spec => []TotalsExact` |
| `RefusalsAreCuts` | `Spec => []RefusedOnlyByCut` |
| `ActiveCountIsKnown` | `Spec => []ActiveCountKnown` |
| `NewestRecordsKept` | `Spec => []RecordsKept` |

`IInv` has the state of a worker between two files (`WorkerInv`), why a file is empty
(`EmptyInv`), what the collector has read (`CollectorInv`), the sums (`CountInv`, `SumInv`)
and the records (`RecordInv`). A sum over process IDs is the number of points under a
function (`Under`, `Sum`), so that "the sum changes by one with one of its terms" is a
statement about one element of a finite set. `Potential` is what a counter file says or
will say when the write under way is finished; `SumInv` says that what was read and the
potentials of what is still to be read are together the activities of the hour. For the
records, the oldest of the listed ones exists by well-foundedness (`WFMin`).

### Reports (`ReportsProofs`)

| Theorem | Statement |
|---|---|
| `DeviceInductive` | `Spec => []DeviceInv` |
| `IdentityKept` | `Spec => DeviceIdStable` |
| `CleanupInductive` | `Spec => []CleanupInv` |
| `BenchmarkLeavesAsFound` | `Spec => []LeavesAsFound` |
| `ClusterInductive` | `Spec => []ClusterInv` |
| `ShownStatusRight` | `Spec => []StatusMatchesPods` |
| `StoreInductive` | `Spec => []StoreInv` |
| `TracesWithinWindowLoaded` | `Spec => []RecentTracesLoaded` |
| `TraceInductive` | `Spec => []TraceInv` |
| `RecordedTracesAreTrees` | `Spec => []TreeOfSpans` |
| `CallsInductive` | `Spec => []OnceInv` |
| `TracesAddUp` | `Spec => []TracesAreTrees` |
| `ResultInductive` | `Spec => []ResultInv` |
| `AnswersAreRight` | `Spec => []EdgeAnswerRight` |
| `ActivityInductive` | `Spec => []ActivityInv` |
| `HistogramIsRight` | `Spec => []HistogramRight` |
| `ResourceInductive` | `Spec => []ResourceInv` |
| `ResourcesAreRight` | `Spec => []ResourcesAddUp` |
| `MeasureInductive` | `Spec => []MeasureInv` |
| `RunsMeasureTheirOwn` | `Spec => []MeasuredOnOwnDetectors` |

The parts do not share variables (but for the cluster), so each has an invariant of its own.

*Device ID, status, traces on disk.* `DeviceInv`: a whole file, and a call that writes one,
has an ID. `ClusterInv`: no pod is from the future, so that among finitely many there is a
newest one, which the status page chooses; `StatusInv` then follows the two reads of
`get_detector_details`. `StoreInv`: a readable line is a record the disk took whole, and such
a record is in a file at least as young as its trace, or too old to load.

*Spans.* `TraceInv`: the open spans of the event loop are on its stack in order (`LoopInv`),
a thread of the parallel inference has at most the one call it was made for (`WorkerInv`),
what is open is one of these (`OpenInv`), and a closed span lies within its parent
(`SpanInv`); opening and closing a span are two lemmas (`SpanOpened`, `SpanClosed`) that all
actions cite. `OnceInv` adds that each thread leaves one span and that the request's span is
around all others, so that there are at most two intervals to join. What the join makes of
one and of two, overlapping or not, is the number of nanoseconds they cover
(`OneTogether`, `TwoTogether`), and the rest of the request is the edge pod's (`Remaining`).

*Sums.* A sum is the cardinality of a set of points, so that what it needs of induction is
what the library proves of finite sets: adding one (`SumGrows`), splitting (`SumSplit`),
comparing (`SumMonotone`). Where a sum of sums is taken, a least counterexample does for
induction (`SumOfSums`, `LeastExists`).

*The histogram.* `Accounts` is a ledger: for every hour, kind, class and bucket the counts in
the files named so are as many as the records made, less those whose second file, by class, is
still to be written. `NextHour` reads the ledger of the hour before. A file that an older
version left behind has another bucket width in its name, so it is in no place of the ledger
(`OldFilesLeft`); `FilesKept` says that the files are finitely many, each with a number in
it.

*The resources.* `ReadsKept` says only that what was read keeps to the pods there are; that
the report adds up is then a fact about one step: the active pods of the detectors are apart
from each other (`DetectorsAddUp`), so that detectors, loading pods and platform split what the
metrics server told of (`RamAddsUp`); what is in use of a device is at most what there is,
device by device and summed (`GpusRight`).

*The answer.* With `c / d` the primary's confidence and `l / n` that of a guess,
`l * d <= c * n` - the largest of `n` probabilities that add up to one is at least one n-th
(`SumAtMost`, by counting points in a rectangle) - and the average of the two that
`adjust_confidence_with_oodd` makes lies in between (`InBetween`).

*The benchmark.* `CleanupInv`: wherever the benchmark is interrupted, the cleanup knows the
detectors it has to delete, and the snapshot is the configuration there was. `MeasureInv`:
while cameras are alive the edge holds what was pushed for this run, and they are this run's.
For that, what a camera asks has to be among the detectors the run made active
(`AskedAreActive`), which rests on the validation of the configuration.

### What the attempts found

* `DuplicateOnlyAfterEviction` did not name the late lines among the escalations cut short
  (section 3).
* The `Exit` of `AppBenchmark` had the assignment of the next step within a
  quantifier over the cameras, so without cameras anything could follow. It is outside now.
* `MeasuredOnOwnDetectors` needs more of the configuration than `ValidConfig` said at
  first: pydantic's types of the sweeps and the stages of each kind of lens are part of it now.
* `ResourcesAddUp`, about GPU memory, needs that two pods which see the same device are told
  the same size of it: of each device the largest size and the largest use are taken, and
  without that a total of one answer and a use of another would be compared. It is an
  assumption about the inference servers.
* The cases of `get_inference_result` overlapped where TLC takes the first of them; they are
  tried in order now, as the code does.
* `RecentTracesLoaded` holds only if the window is no longer than files are kept, which the
  code's constants satisfy and `StoreAssumption` says.

### Only model-checked

* `EventuallySettled`, `PendingIsProcessed`, `UninterruptedModelServed` and
  `CollectedIsReported`: liveness under fairness is out of the prover's reach.
* The runs that expect a violation.

Every invariant and every action property of a passing run is stated by a theorem.

## 5. Plan

What is left: queue lines cut short by a full disk, and what the reader and the consumer
make of them.

## 6. Not modelled

* Queue lines cut short, and with them the consumer's branch for lines that are not JSON.
* The profiling dashboard and the statistics over loaded traces, the React frontend of the
  status page, the Markdown report and plots of the benchmark: presentation of what is
  modelled, with no state that outlives a rendering.
* The other load tests and the network and CI scripts: sequential drivers from outside.
* The deployment scripts: used for what they say about scheduling.
* Readings of the machine itself (CPU, memory, inference flavour): pure I/O.

The cloud, Kubernetes and the inference server are external and appear only as far as the
code depends on what they may answer.
