------------------------ MODULE InferenceDeployments ------------------------
(***************************************************************************)
(* InferenceDeploymentManager, and the cluster it talks to.  A deployment  *)
(* has one replica and a rolling update with maxSurge 1: while the pod of  *)
(* a new template loads its model the old pod keeps serving, and when the  *)
(* new one is ready the old one terminates.  The Service that is created   *)
(* and deleted with a deployment is not kept apart from it.                *)
(***************************************************************************)
EXTENDS ControlState

Changes(m, d) == dep' = [dep EXCEPT ![m] = d]

\* The highest version in the repository, 0 when there is none.
LatestVersion(m) == Len(repo[m])

\* A version directory that holds every file of its model.  A model without a
\* binary has no model.buf and no model_id.txt.
Complete(v) == v.files = IF v.model \in Binary THEN "id" ELSE "metadata"

Loadable(m, v) == v >= low[m] /\ v \in DOMAIN repo[m] /\ Complete(repo[m][v])

\* create_inference_deployment: 409 for one that exists is only logged.
CreateDeployment(m) ==
    Changes(m, IF dep[m].present THEN dep[m]
               ELSE [dep[m] EXCEPT !.present = TRUE, !.patched = TRUE])

\* Mutant: a deployment that exists is left as it is.
PatchDeploymentCreatesOnly(m) == CreateDeployment(m)

\* update_inference_deployment: created when missing, else its template is
\* patched (restartedAt), which makes the cluster start a new pod.
PatchDeployment(m) == Changes(m, [dep[m] EXCEPT !.present = TRUE, !.patched = TRUE])

\* delete_inference_deployment: 404 is ignored; the pods go later.
DeleteDeployment(m) ==
    Changes(m, [NoDeployment EXCEPT !.old = dep[m].old \/ dep[m].pod # "none"])

\* is_inference_deployment_fully_deleted
FullyDeleted(m) == ~dep[m].present /\ ~dep[m].old

\* is_inference_deployment_rollout_complete: by the status, which still shows the
\* previous rollout until the cluster has seen a patch, and by the pods.
RolloutComplete(m) == dep[m].present /\ dep[m].pod = "ready" /\ ~dep[m].old

-----------------------------------------------------------------------------
(* The cluster. *)
outsideCluster == <<now, configVars, worker, dbVars, repo, low, updater, historyVars>>

\* The deployment controller acts on a new template.  A pod loads the highest
\* version it finds when it starts.
StartPod(m) ==
    /\ dep[m].present /\ dep[m].patched
    /\ Changes(m, [dep[m] EXCEPT !.patched = FALSE, !.pod = "loading", !.ver = LatestVersion(m),
                                 !.old = @ \/ dep[m].pod # "none"])
    /\ UNCHANGED <<outsideCluster, cloud, count>>

\* /health/ready answers: the model is loaded, queries go to this pod.
PodReady(m) ==
    /\ dep[m].pod = "loading"
    /\ Loadable(m, dep[m].ver)
    /\ Changes(m, [dep[m] EXCEPT !.pod = "ready", !.serves = dep[m].ver])
    /\ UNCHANGED <<outsideCluster, cloud, count>>

\* A pod that found no model, or part of one, is restarted until it can load.
PodCannotLoad(m) ==
    /\ dep[m].pod = "loading"
    /\ ~Loadable(m, dep[m].ver)
    /\ dep[m].ver # LatestVersion(m)
    /\ Changes(m, [dep[m] EXCEPT !.ver = LatestVersion(m)])
    /\ UNCHANGED <<outsideCluster, cloud, count>>

\* The old pod has exited.
PodGone(m) ==
    /\ dep[m].old
    /\ ~dep[m].present \/ dep[m].pod = "ready"
    /\ Changes(m, [dep[m] EXCEPT !.old = FALSE])
    /\ UNCHANGED <<outsideCluster, cloud, count>>

\* A pod is evicted or dies and is started again.
RestartPod(m) ==
    /\ dep[m].pod # "none"
    /\ Occurs("restart")
    /\ Changes(m, [dep[m] EXCEPT !.pod = "loading", !.ver = LatestVersion(m),
                                 !.serves = IF dep[m].pod = "ready" THEN 0 ELSE @])
    /\ UNCHANGED <<outsideCluster, cloud>>

\* A new model is trained.
Publish(m) ==
    /\ Occurs("publish")
    /\ cloud' = [cloud EXCEPT ![m] = @ + 1]
    /\ UNCHANGED <<outsideCluster, dep>>

ClusterStep == \E m \in Models : StartPod(m) \/ PodReady(m) \/ PodCannotLoad(m) \/ PodGone(m)
ClusterEvent == \E m \in Models : RestartPod(m) \/ Publish(m)

=============================================================================
