---------------------------- MODULE ControlState ----------------------------
(***************************************************************************)
(* What the control plane of the edge endpoint shares: the active          *)
(* configuration file, the table of inference deployments, the inference   *)
(* deployments in the cluster and the model repository, with the private   *)
(* state of the processes that act on them - the uvicorn workers and the   *)
(* model updater.                                                          *)
(***************************************************************************)
EXTENDS Naturals, Sequences, FiniteSets

CONSTANTS
    Detectors,      \* detector IDs
    Workers,        \* the uvicorn workers
    SeparateOodd,   \* separate_oodd_inference: OODD models have pods of their own
    EnvConfig,      \* the detectors of EDGE_CONFIG, or NoConfig
    HelmConfig,     \* the detectors of the Helm ConfigMap, or NoConfig
    NoConfig, NoDetector,
    Binary,         \* the cloud's model numbers that come with a model binary
    Preloaded,      \* the models that earlier runs left in the repository
    MaxTime,        \* bound: clock ticks
    Limit,          \* bounds: how often each event of Events happens
    MaxFaults       \* bound: how many of the events of Faults happen

\* PUT /edge-config, a query for a detector without inference, a look at the
\* configuration, the kill of a worker, a kill of the updater or an exception in its work, a new
\* model in the cloud, a restart of a pod.
Events == {"put", "query", "lookup", "kill", "fault", "publish", "restart"}
Faults == {"kill", "fault", "restart"}

Kinds == {"primary", "oodd"}
Models == Detectors \X Kinds

ASSUME ControlAssumption ==
    /\ SeparateOodd \in BOOLEAN
    /\ {EnvConfig, HelmConfig} \ {NoConfig} \subseteq SUBSET Detectors
    /\ NoDetector \notin Detectors
    /\ Binary \subseteq Nat
    /\ Preloaded \subseteq Models
    /\ MaxTime \in Nat
    /\ Limit \in [Events -> Nat]
    /\ MaxFaults \in Nat

\* The kinds that get an inference deployment.
PodKinds == IF SeparateOodd THEN Kinds ELSE {"primary"}

\* Loops over the models of S go detector by detector, the primary model first.
NextOf(S) ==
    LET half == {m \in S : m[2] = "oodd" /\ <<m[1], "primary">> \notin S}
    IN  IF half # {} THEN half ELSE {m \in S : m[2] = "primary"}

VARIABLES
    now,        \* the wall clock
    file,       \* the active configuration file: state, config, mtime
    cached,     \* of each worker: EdgeConfigManager._cached_config and _cached_mtime
    worker,     \* of each worker: pc, serving, config, stat, gone and adds still to apply, put
    tables,     \* do the database tables exist?
    db,         \* the record of a model: "none", "active" or "pending" (deletion)
    created,    \* its deployment_created flag
    dep,        \* the inference deployment of a model
    repo,       \* the versions of a model in the repository, oldest first
    low,        \* the lowest version that has not been deleted
    cloud,      \* the model the cloud offers for a model name
    updater,    \* of the model updater: pc, ids, left, base, det, info, new, made
    rewritten,  \* history: when the file was saved before its last save
    mixed,      \* history: reconciliations overlapped or were cut short
    erased,     \* history: detectors whose record was removed after they had been added again
    forgot,     \* history: detectors whose record a database reset dropped
    count       \* history: events so far

configVars == <<file, cached, rewritten>>
dbVars == <<tables, db, created>>
clusterVars == <<dep, repo, low, cloud>>
historyVars == <<mixed, erased, forgot>>
vars == <<now, configVars, worker, dbVars, clusterVars, updater, historyVars, count>>

Occurs(event) ==
    /\ count[event] < Limit[event]
    /\ event \in Faults => count["kill"] + count["fault"] + count["restart"] < MaxFaults
    /\ count' = [count EXCEPT ![event] = @ + 1]

Records(d) == {m \in Models : m[1] = d /\ db[m] # "none"}
\* get_active_detector_ids and get_pending_deletions.
ActiveIds == {d \in Detectors : \E k \in Kinds : db[<<d, k>>] = "active"}
PendingIds == {d \in Detectors : \E k \in Kinds : db[<<d, k>>] = "pending"}

DownWorker == [pc |-> "down", serving |-> FALSE, config |-> {}, stat |-> 0, gone |-> {},
               adds |-> {}, put |-> FALSE, alone |-> TRUE]
FreshUpdater == [pc |-> "pending", ids |-> {}, left |-> {}, base |-> {}, det |-> NoDetector,
                 info |-> [k \in Kinds |-> 0], new |-> {}, made |-> FALSE]
NoDeployment == [present |-> FALSE, patched |-> FALSE, pod |-> "none", ver |-> 0,
                 old |-> FALSE, serves |-> 0]

Init ==
    /\ now = 1
    /\ file = [state |-> "absent", config |-> {}, mtime |-> 0]
    /\ cached = [w \in Workers |-> [config |-> {}, mtime |-> 0]]
    /\ rewritten = 0
    /\ worker = [w \in Workers |-> DownWorker]
    /\ tables = FALSE
    /\ db = [m \in Models |-> "none"]
    /\ created = [m \in Models |-> FALSE]
    /\ dep = [m \in Models |-> NoDeployment]
    /\ repo = [m \in Models |->
                 IF m \in Preloaded
                 THEN <<[model |-> 1, files |-> IF 1 \in Binary THEN "id" ELSE "metadata"]>>
                 ELSE <<>>]
    /\ low = [m \in Models |-> 1]
    /\ cloud = [m \in Models |-> 1]
    /\ updater = FreshUpdater
    /\ mixed = FALSE /\ erased = {} /\ forgot = {}
    /\ count = [x \in Events |-> 0]

=============================================================================
