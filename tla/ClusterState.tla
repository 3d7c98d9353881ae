---------------------------- MODULE ClusterState ----------------------------
(***************************************************************************)
(* What the status page reads of the cluster: the pods of the edge         *)
(* namespace and the deployments of the detectors' primary models.  All of *)
(* it is Kubernetes's: pods come, become ready, crash, are evicted and go  *)
(* between the reads of one report.                                        *)
(***************************************************************************)
EXTENDS Integers, FiniteSets

CONSTANTS
    Pods, Detectors,
    Owner,          \* the detector-id annotation of each pod, NoDetector when there is none
    Kind,           \* the model of each pod: "primary", "oodd" or "platform"
    NoDetector,
    OldPods,        \* pods made from the template before the last
    MaxClock,
    MaxChanges      \* bound: changes of the cluster

ASSUME ClusterAssumption ==
    /\ IsFiniteSet(Pods)
    /\ Owner \in [Pods -> Detectors \cup {NoDetector}]
    /\ Kind \in [Pods -> {"primary", "oodd", "platform"}]

VARIABLES
    pods,       \* state of each pod
    dep,        \* of each detector's primary deployment: template version and status
    clock,      \* hours
    changes     \* changes so far

clusterVars == <<pods, dep, clock, changes>>

Phases == {"absent", "Pending", "Running", "Failed"}
\* Reason a container waits for, or what it does: "none" when the pod has no container yet.
Containers == {"none", "ContainerCreating", "CrashLoopBackOff", "running", "ready"}
NoTime == -1

Absent == [phase |-> "absent", container |-> "none", cond |-> FALSE,
           created |-> 0, since |-> NoTime, version |-> 0]
\* Where a pod may be found: phase, container and Ready condition.
Shapes == {<<"absent", "none", FALSE>>, <<"Pending", "ContainerCreating", FALSE>>,
           <<"Running", "running", FALSE>>, <<"Running", "ready", TRUE>>,
           <<"Running", "CrashLoopBackOff", FALSE>>, <<"Failed", "none", FALSE>>}

Present == {p \in Pods : pods[p].phase # "absent"}
PrimariesOf(d) == {p \in Pods : Owner[p] = d /\ Kind[p] = "primary"}
Ready(pod) == pod.phase = "Running" /\ pod.cond /\ pod.container = "ready"

\* The status that the deployment controller gives when it has seen everything.
StatusOf(ps, d, version) ==
    LET live == {p \in PrimariesOf(d) : ps[p].phase \in {"Pending", "Running"}}
    IN  [total |-> Cardinality(live),
         updated |-> Cardinality({p \in live : ps[p].version = version}),
         available |-> Cardinality({p \in live : Ready(ps[p])})]
Settled(d) == dep[d].status = StatusOf(pods, d, dep[d].version)

\* Some snapshot of a cluster, its pods created at some times; the platform runs.
ClusterInit ==
    /\ clock = 2 /\ changes = 0
    /\ \E shape \in [{p \in Pods : Kind[p] # "platform"} -> Shapes],
          times \in [{p \in Pods : Kind[p] = "primary"} -> 1..2] :
       /\ \A p \in OldPods, q \in DOMAIN times \ OldPods : times[p] <= times[q]
       /\ pods = [p \in Pods |->
                    LET s == IF p \in DOMAIN shape THEN shape[p] ELSE <<"Running", "ready", TRUE>>
                        t == IF p \in DOMAIN times THEN times[p] ELSE 1
                    IN  IF s[1] = "absent" THEN Absent
                        ELSE [phase |-> s[1], container |-> s[2], cond |-> s[3], created |-> t,
                              since |-> IF s[2] = "ready" \/ s[1] = "Failed" THEN t ELSE NoTime,
                              version |-> IF p \in OldPods THEN 1 ELSE 2]]
    /\ dep = [d \in Detectors |-> [version |-> 2, status |-> StatusOf(pods, d, 2)]]

-----------------------------------------------------------------------------
Change == changes < MaxChanges /\ changes' = changes + 1

CreatePod(p) ==
    /\ Change
    /\ pods[p].phase = "absent"
    /\ pods' = [pods EXCEPT ![p] = [Absent EXCEPT !.phase = "Pending", !.created = clock,
                                         !.version = IF Owner[p] = NoDetector THEN 0
                                                     ELSE dep[Owner[p]].version]]
    /\ UNCHANGED <<dep, clock>>

\* The kubelet moves a pod from one shape to another.
Moves == {<<"none", "ContainerCreating">>, <<"ContainerCreating", "running">>,
          <<"running", "ready">>, <<"running", "CrashLoopBackOff">>,
          <<"ready", "CrashLoopBackOff">>, <<"CrashLoopBackOff", "running">>}
MoveContainer(p, m) ==
    /\ Change
    /\ pods[p].phase \in {"Pending", "Running"} /\ pods[p].container = m[1]
    /\ pods' = [pods EXCEPT ![p] = [pods[p] EXCEPT
                    !.container = m[2], !.cond = FALSE,
                    !.phase = IF m[2] = "ContainerCreating" THEN "Pending" ELSE "Running",
                    !.since = IF pods[p].cond THEN clock ELSE pods[p].since]]
    /\ UNCHANGED <<dep, clock>>

BecomeReady(p) ==
    /\ Change
    /\ pods[p].container = "ready" /\ ~pods[p].cond
    /\ pods' = [pods EXCEPT ![p] = [pods[p] EXCEPT !.cond = TRUE, !.since = clock]]
    /\ UNCHANGED <<dep, clock>>

Evict(p) ==
    /\ Change
    /\ pods[p].phase = "Running"
    /\ pods' = [pods EXCEPT ![p] = [pods[p] EXCEPT !.phase = "Failed", !.container = "none",
                                                   !.cond = FALSE, !.since = clock]]
    /\ UNCHANGED <<dep, clock>>

RemovePod(p) ==
    /\ Change
    /\ pods[p].phase # "absent"
    /\ pods' = [pods EXCEPT ![p] = Absent]
    /\ UNCHANGED <<dep, clock>>

\* The model updater patches the template; the controller follows in steps of its own.
PatchTemplate(d) ==
    /\ Change
    /\ dep' = [dep EXCEPT ![d] = [dep[d] EXCEPT !.version = dep[d].version + 1]]
    /\ UNCHANGED <<pods, clock>>

SyncStatus(d) ==
    /\ ~Settled(d)
    /\ dep' = [dep EXCEPT ![d] = [dep[d] EXCEPT !.status = StatusOf(pods, d, dep[d].version)]]
    /\ UNCHANGED <<pods, clock, changes>>

Hour ==
    /\ clock < MaxClock
    /\ clock' = clock + 1
    /\ UNCHANGED <<pods, dep, changes>>

ClusterNext ==
    \/ \E p \in Pods :
          \/ CreatePod(p) \/ BecomeReady(p) \/ Evict(p) \/ RemovePod(p)
          \/ \E m \in Moves : MoveContainer(p, m)
    \/ \E d \in Detectors : PatchTemplate(d) \/ SyncStatus(d)
    \/ Hour

=============================================================================
