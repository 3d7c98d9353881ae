---------------------------- MODULE AppBenchmark ----------------------------
(***************************************************************************)
(* The application benchmark of load-testing/app_benchmark: it evicts the  *)
(* detectors of an edge endpoint, loads its own, measures one run per step *)
(* of a sweep with one process per camera, and puts everything back when   *)
(* the process exits.  Time is the part of the run the main process is in: *)
(* an event is counted when it is logged between the end of the warmup and *)
(* the end of the measurement.                                             *)
(***************************************************************************)
EXTENDS Naturals, FiniteSets, Sequences, FiniteSetsExt, SequencesExt

CONSTANTS
    Lenses,          \* the sequence of lenses of the configuration
    StagesOf,        \* lens -> <<"single">> or <<"bbox", "binary">>
    GivenById,       \* the lenses whose detectors are existing ones, given by ID
    Sweep,           \* lens -> [copies, cameras, objects], each a sequence: one
                     \*   element for a scalar, else one per run
    FramesNeeded,    \* frames in the window that meet 95% of the target, 0: no target
    Resident,        \* a detector of the edge's owner
    MaxEvents        \* bound: requests the processes of one run log

VARIABLES
    step,            \* where main is
    at,              \* the detector provision_all is at
    cloud,           \* detectors that exist in the cloud
    trained,         \* those whose edge pipeline has trained enough
    created,         \* DetectorManager._all_created
    before,          \* the configuration of the edge before the benchmark
    edge,            \* the detectors in the edge's configuration
    snapshot,        \* DetectorManager._pre_run_edge_config
    run,             \* the index of the run, from 1
    pushed,          \* prev_active_ids, {} for None
    worker,          \* process -> its state
    owed,            \* process -> binary requests left of its frame
    eventsOf,        \* process -> the lines of its log in this run's directory
    summary,         \* the summary of the last completed run
    mishap,          \* ghost: the steps that failed or were left out
    leaked,          \* ghost: own detectors whose provisioning or deletion failed
    measured         \* ghost: process -> frames it finished in the window while
                     \*   the edge held the run's detectors and no other

benchmarkVars ==
    <<step, at, cloud, trained, created, before, edge, snapshot, run, pushed, worker, owed,
      eventsOf, summary, mishap, leaked, measured>>
cloudVars == <<at, cloud, trained, created, leaked>>
edgeVars == <<before, edge, snapshot, pushed>>
workerVars == <<worker, owed, eventsOf, measured>>
runVars == <<run, summary>>

NoSnapshot == "none"
NoSummary == << >>

-----------------------------------------------------------------------------
\* The configuration.

SweepLists ==
    {Sweep[l][f] : l \in ToSet(Lenses), f \in {"copies", "cameras", "objects"}}

\* There are always copies, cameras and objects, lens names differ, sweep lists share a
\* length, and a detector given by ID cannot be shared by several copies.
ValidConfig ==
    /\ \A l \in ToSet(Lenses) :
          /\ StagesOf[l] \in {<<"single">>, <<"bbox", "binary">>}
          /\ \A f \in {"copies", "cameras", "objects"} : Sweep[l][f] \in Seq(Nat \ {0}) \ {<< >>}
    /\ IsInjective(Lenses)
    /\ \A s, t \in SweepLists : Len(s) > 1 /\ Len(t) > 1 => Len(s) = Len(t)
    /\ \A l \in GivenById : ToSet(Sweep[l].copies) = {1}
ASSUME ConfigAccepted == ValidConfig

NumRuns == Max({Len(s) : s \in SweepLists})
ForRun(l, field, i) == IF Len(Sweep[l][field]) = 1 THEN Sweep[l][field][1] ELSE Sweep[l][field][i]

\* The detectors in the order of provision_all: lens, copy, stage.
StageDetectors ==
    FlattenSeq([n \in DOMAIN Lenses |->
      FlattenSeq([c \in 1..Max(ToSet(Sweep[Lenses[n]].copies)) |->
        [s \in DOMAIN StagesOf[Lenses[n]] |->
           [lens |-> Lenses[n], copy |-> c - 1, stage |-> StagesOf[Lenses[n]][s]]]])])
AllDetectors ==
    UNION {{[lens |-> l, copy |-> c, stage |-> s] :
              c \in 0..Max(ToSet(Sweep[l].copies)) - 1, s \in ToSet(StagesOf[l])} : l \in ToSet(Lenses)}
Externals == {d \in AllDetectors : d.lens \in GivenById}

\* Mutant: one copy too many.
ActiveUpTo(i) == {d \in AllDetectors : d.copy <= ForRun(d.lens, "copies", i)}
\* What a run exercises: the first copies of every lens.
ActiveDetectorsForRun(i) == {d \in AllDetectors : d.copy < ForRun(d.lens, "copies", i)}

\* One process per lens, copy and camera, which asks the detectors of its copy.
Cameras ==
    UNION {{[lens |-> l, copy |-> c, camera |-> k] :
              c \in 0..Max(ToSet(Sweep[l].copies)) - 1, k \in 0..Max(ToSet(Sweep[l].cameras)) - 1} :
           l \in ToSet(Lenses)}
WorkersForRun(i) ==
    {w \in Cameras : w.copy < ForRun(w.lens, "copies", i) /\ w.camera < ForRun(w.lens, "cameras", i)}
AskedBy(w) == {d \in AllDetectors : d.lens = w.lens /\ d.copy = w.copy}

BenchmarkInit ==
    /\ step = "check" /\ at = 1
    /\ \E left \in {{}, AllDetectors \ Externals} :     \* kept by an earlier benchmark
         cloud = Externals \cup left /\ trained = cloud
    /\ created = {} /\ before \in {{}, {Resident}} /\ edge = before /\ snapshot = NoSnapshot
    /\ run = 1 /\ pushed = {}
    /\ worker = [w \in Cameras |-> "none"] /\ owed = [w \in Cameras |-> 0]
    /\ eventsOf = [w \in Cameras |-> << >>] /\ measured = [w \in Cameras |-> 0]
    /\ summary = NoSummary /\ mishap = {} /\ leaked = {}

-----------------------------------------------------------------------------
\* Before the runs.

\* ensure_host_clean: refuses only when it could read the configuration, found
\* a detector there and was told to refuse.
EnsureHostClean ==
    /\ step = "check"
    /\ \/ step' = "snapshot"
       \/ edge # {} /\ step' = "done"
    /\ UNCHANGED <<cloudVars, edgeVars, workerVars, runVars, mishap>>

\* snapshot_edge_config, then the cleanup is registered to run at exit.
SnapshotEdgeConfig ==
    /\ step = "snapshot" /\ step' = "provision"
    /\ \/ snapshot' = edge /\ mishap' = mishap
       \/ snapshot' = {} /\ mishap' = mishap \cup {"snapshot"}
    /\ UNCHANGED <<cloudVars, before, edge, pushed, workerVars, runVars>>

\* Mutant: only what did not exist is remembered.
TrackedIfNew(d) == created \cup ({d} \ cloud)
\* _provision remembers a detector for the cleanup, _fetch_external does not.
Tracked(d) == IF d \in Externals THEN created ELSE created \cup {d}

\* provision_detector gets or creates a detector and primes it unless it is
\* trained.
Provision ==
    /\ step = "provision" /\ at <= Len(StageDetectors)
    /\ cloud' = cloud \cup {StageDetectors[at]} /\ created' = Tracked(StageDetectors[at])
    /\ at' = at + 1
    /\ UNCHANGED <<step, trained, leaked, edgeVars, workerVars, runVars, mishap>>

Trains(d) ==
    /\ d \in cloud \ trained /\ trained' = trained \cup {d}
    /\ UNCHANGED <<step, at, cloud, created, leaked, edgeVars, workerVars, runVars, mishap>>

\* The second phase waits for the owned detectors one by one.
WaitForTraining ==
    /\ step = "provision" /\ at > Len(StageDetectors) /\ AllDetectors \ Externals \subseteq trained
    /\ step' = "loop"
    /\ UNCHANGED <<cloudVars, edgeVars, workerVars, runVars, mishap>>

-----------------------------------------------------------------------------
\* The loop over the runs.

\* push_edge_config when the active set differs from the last one.  A failure,
\* which may come after the edge took the configuration, ends the loop.
PushEdgeConfig ==
    /\ step = "loop" /\ run <= NumRuns
    /\ LET active == ActiveDetectorsForRun(run) IN
       \/ /\ active # pushed /\ edge' = active /\ pushed' = active /\ step' = "spawn"
       \/ /\ active = pushed /\ step' = "spawn" /\ UNCHANGED <<edge, pushed>>
       \/ /\ active # pushed /\ edge' \in {edge, active} /\ step' = "report" /\ pushed' = pushed
    /\ UNCHANGED <<cloudVars, before, snapshot, workerVars, runVars, mishap>>

\* _spawn_lens_workers, into the empty directory of the run.
SpawnLensWorkers ==
    /\ step = "spawn" /\ step' = "warmup"
    /\ worker' = [w \in Cameras |-> IF w \in WorkersForRun(run) THEN "alive" ELSE "none"]
    /\ eventsOf' = [w \in Cameras |-> << >>] /\ owed' = [w \in Cameras |-> 0]
    /\ measured' = [w \in Cameras |-> 0]
    /\ UNCHANGED <<cloudVars, edgeVars, runVars, mishap>>

\* The main process sleeps through the warmup and through the measurement.
Sleep ==
    /\ \/ step = "warmup" /\ step' = "main"
       \/ step = "main" /\ step' = "join"
    /\ UNCHANGED <<cloudVars, edgeVars, workerVars, runVars, mishap>>

\* A frame asks the single or the bounding box detector; a chained lens then
\* asks its binary detector once per object.  Failed requests are logged alike.
Logs(w, stage) ==
    eventsOf' = [eventsOf EXCEPT ![w] = Append(@, [stage |-> stage, counted |-> step = "main"])]
Room == FoldSet(LAMBDA w, n : n + Len(eventsOf[w]), 0, Cameras) < MaxEvents
Frame(w) ==
    /\ worker[w] = "alive" /\ owed[w] = 0 /\ Room
    /\ Logs(w, StagesOf[w.lens][1])
    /\ owed' = [owed EXCEPT ![w] =
                  IF Len(StagesOf[w.lens]) = 2 THEN ForRun(w.lens, "objects", run) ELSE 0]
    /\ measured' = [measured EXCEPT ![w] =
                      @ + IF step = "main" /\ edge = UNION {AskedBy(v) : v \in WorkersForRun(run)}
                          THEN 1 ELSE 0]
    /\ UNCHANGED <<step, cloudVars, edgeVars, worker, runVars, mishap>>
SubmitBinary(w) ==
    /\ worker[w] = "alive" /\ owed[w] > 0 /\ Room
    /\ Logs(w, "binary") /\ owed' = [owed EXCEPT ![w] = @ - 1]
    /\ UNCHANGED <<step, cloudVars, edgeVars, worker, measured, runVars, mishap>>

\* A process ends after its frame when its own deadline has passed, which is
\* never before the measurement has begun, or it fails.
WorkerEnds(w) ==
    /\ worker[w] = "alive"
    /\ \/ owed[w] = 0 /\ step # "warmup" /\ worker' = [worker EXCEPT ![w] = "ended"]
       \/ worker' = [worker EXCEPT ![w] = "failed"]
    /\ UNCHANGED <<step, cloudVars, edgeVars, owed, eventsOf, measured, runVars, mishap>>

\* write_run_artifacts: one row for every process the run should have had.
IsFrame(e) == e.stage # "binary"
Frames(events, S) == {i \in S : IsFrame(events[i])}
Summarize(events, S) ==
    LET frames == Cardinality(Frames(events, S)) IN
    [frames |-> frames, requests |-> Cardinality(S), noEvents |-> S = {},
     hit |-> IF FramesNeeded = 0 THEN "none" ELSE IF frames >= FramesNeeded THEN "yes" ELSE "no"]
InWindow(events) == {i \in DOMAIN events : events[i].counted}
WriteRunArtifacts ==
    [w \in WorkersForRun(run) |->
       LET stats == Summarize(eventsOf[w], InWindow(eventsOf[w])) IN
       IF stats.noEvents /\ FramesNeeded > 0 THEN [stats EXCEPT !.hit = "no"] ELSE stats]

\* _join_with_grace terminates the processes that outlive the grace period.
JoinWithGrace ==
    /\ step = "join" /\ step' = "loop"
    /\ worker' = [w \in Cameras |-> IF worker[w] = "alive" THEN "failed" ELSE worker[w]]
    /\ summary' = WriteRunArtifacts /\ run' = run + 1
    /\ UNCHANGED <<cloudVars, edgeVars, owed, eventsOf, measured, mishap>>

\* The runs are over, or a push failed: the completed runs are reported.
WriteTopLevel ==
    /\ step = "report" \/ (step = "loop" /\ run > NumRuns)
    /\ step' = "restore"
    /\ UNCHANGED <<cloudVars, edgeVars, workerVars, runVars, mishap>>

\* An error or an interrupt.
\* The processes of the run go on.  An interrupt may come while the edge takes
\* a configuration (PushEdgeConfig, then this).  A detector may exist without being known
\* to the cleanup when its pipeline check or its priming failed.
Raise ==
    /\ step \in {"provision", "loop", "spawn", "warmup", "main", "join", "report"}
    /\ step' = "restore"
    /\ \/ UNCHANGED <<cloud, leaked>>
       \/ /\ step = "provision" /\ at <= Len(StageDetectors)
          /\ StageDetectors[at] \notin Externals
          /\ cloud' = cloud \cup {StageDetectors[at]}
          /\ leaked' = leaked \cup {StageDetectors[at]}
    /\ UNCHANGED <<at, trained, created, edgeVars, workerVars, runVars, mishap>>

-----------------------------------------------------------------------------
\* The cleanup at exit.

RestoreEdgeConfig ==
    /\ step = "restore" /\ step' = "delete"
    /\ \/ edge' = snapshot /\ mishap' = mishap
       \/ edge' \in {edge, snapshot} /\ mishap' = mishap \cup {"restore"}
    /\ UNCHANGED <<cloudVars, before, snapshot, pushed, workerVars, runVars>>

\* delete_all tries every created detector once; preserve_detectors keeps them.
DeleteAll ==
    /\ step = "delete" /\ step' = "cleaned"
    /\ \/ \E failed \in SUBSET created :
            /\ cloud' = cloud \ (created \ failed) /\ leaked' = leaked \cup failed
            /\ mishap' = mishap
       \/ mishap' = mishap \cup {"preserved"} /\ UNCHANGED <<cloud, leaked>>
    /\ UNCHANGED <<at, trained, created, edgeVars, workerVars, runVars>>

\* --no-cleanup, or a kill that skips the exit handlers; cleanup_edge --wipe
\* empties the edge afterwards.
SkipCleanup ==
    /\ step \notin {"check", "snapshot", "cleaned", "done"} /\ step' = "done"
    /\ mishap' = mishap \cup {"skipped"}
    /\ UNCHANGED <<cloudVars, edgeVars, workerVars, runVars>>
CleanupEdge ==
    /\ step = "done" /\ "skipped" \in mishap /\ edge # {} /\ edge' = {}
    /\ UNCHANGED <<step, cloudVars, before, snapshot, pushed, workerVars, runVars, mishap>>

\* multiprocessing joins the processes that are left after the cleanup.
Exit ==
    /\ step = "cleaned" /\ step' = "done"
    /\ \A w \in Cameras : worker[w] # "alive"
    /\ UNCHANGED <<cloudVars, edgeVars, workerVars, runVars, mishap>>

BenchmarkNext ==
    \/ EnsureHostClean \/ SnapshotEdgeConfig \/ Provision \/ WaitForTraining
    \/ \E d \in AllDetectors : Trains(d)
    \/ PushEdgeConfig \/ SpawnLensWorkers \/ Sleep
    \/ \E w \in Cameras : Frame(w) \/ SubmitBinary(w) \/ WorkerEnds(w)
    \/ JoinWithGrace \/ WriteTopLevel \/ Raise
    \/ RestoreEdgeConfig \/ DeleteAll \/ SkipCleanup \/ CleanupEdge \/ Exit

-----------------------------------------------------------------------------
\* However the benchmark ended, after its cleanup the edge has the
\* configuration it had before (unless reading or restoring it failed), the
\* detectors given by ID exist, and none of the benchmark's own detectors it
\* got hold of is left but those whose deletion or whose provisioning failed
\* (cli.main's atexit handler, DetectorManager.restore_edge_config and
\* delete_all).
LeavesAsFound ==
    step = "done" =>
      /\ Externals \subseteq cloud
      /\ mishap \cap {"skipped", "snapshot", "restore"} = {} => edge = before
      /\ mishap \cap {"skipped", "preserved"} = {} =>
           \A n \in 1..at - 1 : StageDetectors[n] \in cloud => StageDetectors[n] \in leaked \cup Externals

\* The frames a run's summary counts for a camera are those it finished inside
\* the window while the edge held exactly the detectors the run asks, whatever
\* order processes start, fail and end in and however the sweep changes the
\* detectors between runs; a camera that counted none has not hit its target
\* (cli._run_one, push_edge_config, report.write_run_artifacts).
MeasuredOnOwnDetectors ==
    step = "loop" /\ summary # NoSummary =>
      \A w \in DOMAIN summary :
        /\ summary[w].frames = measured[w]
        /\ summary[w].hit = "yes" => measured[w] >= FramesNeeded

=============================================================================
