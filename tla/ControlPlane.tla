---------------------------- MODULE ControlPlane ----------------------------
(***************************************************************************)
(* The control plane as a whole: workers that start, reconcile and are     *)
(* killed, the model updater, the cluster and the cloud, interleaved.      *)
(***************************************************************************)
EXTENDS EdgeConfig, ModelUpdater

Tick ==
    /\ now < MaxTime
    /\ now' = now + 1
    /\ UNCHANGED <<configVars, worker, dbVars, clusterVars, updater, historyVars, count>>

Next ==
    \/ Tick
    \/ \E w \in Workers : WorkerStep(w) \/ WorkerEvent(w)
    \/ UpdaterStep
    \/ UpdaterFault
    \/ ClusterStep
    \/ ClusterEvent

Spec == Init /\ [][Next]_vars

\* The workers and the clock alone, while the updater has not started yet.
WorkersNext == Tick \/ \E w \in Workers : WorkerStep(w) \/ WorkerEvent(w)

WorkersSpec == Init /\ [][WorkersNext]_vars

\* The processes keep running and the cluster keeps its promises; nobody is made
\* to change the configuration, to publish a model or to fail.
FairSpec ==
    /\ Spec
    /\ \A w \in Workers : WF_vars(WorkerStep(w))
    /\ WF_vars(UpdaterStep)
    /\ \A m \in Models : /\ WF_vars(StartPod(m)) /\ WF_vars(PodReady(m))
                         /\ WF_vars(PodCannotLoad(m)) /\ WF_vars(PodGone(m))

-----------------------------------------------------------------------------
WorkerPCs == {"down", "create", "seed", "seedWrite", "stat", "load", "diff", "mark", "add",
              "update", "truncate", "write", "ready"}
UpdaterPCs == {"pending", "delete", "poll", "forget", "baseline", "list", "pick", "fetch", "save",
               "files", "ensure", "patch", "starting", "rolling", "cleanup", "complete", "flag",
               "changed", "wait", "status"}
Stages == {"dir", "buffer", "config", "metadata", "id"}

WorkerStates == [pc : WorkerPCs, serving : BOOLEAN, config : SUBSET Detectors, stat : Nat,
                 gone : SUBSET Detectors, adds : SUBSET Models, put : BOOLEAN, alone : BOOLEAN]
UpdaterStates == [pc : UpdaterPCs, ids : SUBSET Detectors, left : SUBSET Models,
                  base : SUBSET Detectors, det : Detectors \cup {NoDetector},
                  info : [Kinds -> Nat], new : SUBSET Kinds, made : BOOLEAN]
Deployments == [present : BOOLEAN, patched : BOOLEAN, pod : {"none", "loading", "ready"},
                ver : Nat, old : BOOLEAN, serves : Nat]

\* Every variable keeps to its type.
TypeOK ==
    /\ now \in Nat
    /\ file \in [state : {"absent", "torn", "whole"}, config : SUBSET Detectors, mtime : Nat]
    /\ cached \in [Workers -> [config : SUBSET Detectors, mtime : Nat]]
    /\ rewritten \in Nat
    /\ worker \in [Workers -> WorkerStates]
    /\ tables \in BOOLEAN
    /\ db \in [Models -> {"none", "active", "pending"}]
    /\ created \in [Models -> BOOLEAN]
    /\ dep \in [Models -> Deployments]
    /\ repo \in [Models -> Seq([model : Nat, files : Stages])]
    /\ low \in [Models -> Nat]
    /\ cloud \in [Models -> Nat]
    /\ updater \in UpdaterStates
    /\ mixed \in BOOLEAN
    /\ erased \in SUBSET Detectors
    /\ forgot \in SUBSET Detectors
    /\ count \in [Events -> Nat]

\* Once no reconciliation is under way, every detector of the active
\* configuration has an active record - unless reconciliations overlapped or were
\* cut short since one last ran alone, or the updater removed the record of a
\* detector that had been added again while its deletion was under way.
ConfiguredIsActive ==
    /\ tables /\ file.state = "whole" /\ ~mixed
    /\ \A w \in Workers : ~Reconciling(w)
    => file.config \subseteq ActiveIds \cup erased

\* The updater removes the records of a detector only when none of its pods is
\* left, whatever timed out or was killed on the way.
RecordOutlivesPods ==
    [][\A d \in Detectors :
          tables /\ tables' /\ Records(d) # {} /\ Records(d)' = {}
             => \A k \in PodKinds : FullyDeleted(<<d, k>>)]_vars

\* Pods that no record accounts for, which nothing will ever delete, come only
\* from a worker's reset of the database.
OrphanOnlyByReset ==
    \A m \in Models :
        dep[m].present \/ dep[m].old => Records(m[1]) # {} \/ m[1] \in forgot

\* A worker whose cache looks up to date by its mtime has the file's configuration,
\* unless the file was saved twice within the resolution of the clock or the
\* worker read the file in the middle of the save.
StaleOnlyWithinTick ==
    \A w \in Workers :
        /\ file.state = "whole" /\ cached[w].mtime = file.mtime
        /\ cached[w].config # file.config
        => rewritten = file.mtime \/ cached[w].config = {}

\* The clean-up deletes no version that a pod is loading, also when rollouts time
\* out, pods restart or the updater was killed between saves.  (A pod that has
\* loaded its model no longer needs the files: the version it serves may go when
\* an earlier rollout that completed late is taken for the present one.)
LoadingVersionKept ==
    [][\A m \in Models :
          low'[m] # low[m] /\ dep[m].pod = "loading" /\ dep[m].ver # 0
             => dep[m].ver >= low'[m]]_vars

\* A detector that is pending deletion does not stay so: its pods go and its
\* records are removed, or it is added again.
PendingIsProcessed == \A d \in Detectors : d \in PendingIds ~> d \notin PendingIds

\* The model that the pods of m answer with.
ServedModel(m) == IF dep[m].serves = 0 THEN 0 ELSE repo[m][dep[m].serves].model

UpToDate ==
    \A d \in ActiveIds : \A k \in PodKinds : ServedModel(<<d, k>>) = cloud[<<d, k>>]

\* A new model is rolled out: once the cloud publishes no more, the pods of every
\* active detector end up serving the cloud's model.
NewModelServed == <>[]UpToDate

\* The same of an updater whose work is never interrupted, whatever else happens:
\* polls that time out, pods and workers that restart, detectors that come and go.
UninterruptedModelServed == <>[](count["fault"] = 0 => UpToDate)

=============================================================================
