--------------------------- MODULE DetectorStatus ---------------------------
(***************************************************************************)
(* get_detector_details, and the pods and images of the metrics payload:   *)
(* the deployments are listed, then the pods, and what is shown of a       *)
(* detector is derived from both.                                          *)
(***************************************************************************)
EXTENDS ClusterState, FiniteSetsExt

CONSTANTS
    Configured,     \* detectors with an entry in the edge configuration
    OnDisk,         \* model versions with a pipeline_config.yaml
    Described       \* model versions with a predictor_metadata.json

VARIABLES
    seen,       \* the deployments as they were listed, and the changes there had been then
    details,    \* of each detector
    recorded    \* of get_pods and get_container_images

statusVars == <<seen, details, recorded>>

Unknown == [status |-> "unknown"]
StatusInit ==
    /\ seen = [at |-> -1]
    /\ details = [d \in Detectors |-> Unknown]
    /\ recorded = [pods |-> {}, images |-> "none"]

NewestOf(S) == {p \in S : \A q \in S : pods[q].created <= pods[p].created}

\* _pod_is_progressing
Progressing(pod) ==
    \/ pod.container \in {"ContainerCreating", "running"}
    \/ pod.container = "none" /\ pod.phase = "Pending"

\* _get_waiting_reason
WaitingReason(pod) ==
    IF pod.container \in {"ContainerCreating", "CrashLoopBackOff"} THEN pod.container ELSE "None"

\* Mutant: what the deployment says of its replicas is not asked when a pod is available.
DeriveStatusFromPods(d, S) ==
    LET unready == {p \in S : ~Ready(pods[p])}
    IN  IF seen.dep[d].status.available >= 1
        THEN {<<"ready", "None">>}
        ELSE {IF Progressing(pods[p]) THEN <<"initializing", "None">>
              ELSE <<"error", WaitingReason(pods[p])>> : p \in NewestOf(S)}
             \cup IF S = {} THEN {<<"initializing", "None">>} ELSE {}

\* _derive_detector_status, of a deployment of one replica and its pods: the status and its
\* detail.  Of two pods created in the same second either is the newest.
DeriveStatus(d, S) ==
    LET st == seen.dep[d].status
        unready == {p \in S : ~Ready(pods[p])}
    IN  IF st.available >= 1
        THEN IF (st.total <= 1 /\ st.updated >= 1) \/ unready = {} THEN {<<"ready", "None">>}
             ELSE IF \E p \in unready : Progressing(pods[p]) THEN {<<"updating", "None">>}
             ELSE {<<"update_failed", WaitingReason(pods[p])>> : p \in NewestOf(unready)}
        ELSE {IF Progressing(pods[p]) THEN <<"initializing", "None">>
              ELSE <<"error", WaitingReason(pods[p])>> : p \in NewestOf(S)}
             \cup IF S = {} THEN {<<"initializing", "None">>} ELSE {}

ListDeployments ==
    /\ seen.at = -1
    /\ seen' = [at |-> changes, dep |-> dep]
    /\ UNCHANGED <<details, recorded>>

\* _enrich_detector_details: what is known of a version is on disk.
Enrich(version, serving) ==
    [version |-> version,
     pipeline |-> version \in OnDisk,
     query |-> version \in OnDisk \cap Described,
     updated |-> version \in OnDisk /\ serving]

\* The pods are listed.  The version shown is that of the newest ready pod, else that of
\* the template; only a ready pod says since when.
ShowDetails(d) ==
    /\ seen.at # -1 /\ details[d] = Unknown
    /\ LET S == PrimariesOf(d) \cap Present
           serving == NewestOf({p \in S : Ready(pods[p])})
           versions == IF serving = {} THEN {seen.dep[d].version}
                       ELSE {pods[p].version : p \in serving}
       IN  \E st \in DeriveStatus(d, S), version \in versions :
              details' = [details EXCEPT ![d] =
                            [status |-> st[1], detail |-> st[2],
                             model |-> Enrich(version, serving # {}),
                             config |-> d \in Configured,
                             steady |-> seen = [at |-> changes, dep |-> dep] /\ Settled(d),
                             of |-> pods]]
    /\ UNCHANGED <<seen, recorded>>

\* should_record_pod: a pod that failed more than an hour ago is left out.
ShouldRecord(pod) ==
    pod.phase = "Failed" /\ pod.since # NoTime => pod.since > clock - 1

\* get_pods and get_container_images: of a pod without container statuses there is no list
\* to go through, and no images are reported at all.
RecordPods ==
    /\ recorded.images = "none"
    /\ recorded' = [pods |-> {p \in Present : ShouldRecord(pods[p])},
                    images |-> IF \E p \in Present : pods[p].container = "none"
                               THEN "TypeError" ELSE "reported"]
    /\ UNCHANGED <<seen, details>>

StatusNext ==
    \/ ListDeployments \/ RecordPods
    \/ \E d \in Detectors : ShowDetails(d)

\* What is shown of a detector is how its pods are, when nothing changed between the two
\* reads and the deployment's status was up to date: ready only if every pod it has, but
\* for evicted ones, is ready; updating or failing to update only while a ready pod serves
\* and another one is not ready; initializing or in error only if none serves.  The version
\* shown is one that a pod serves if any does.
StatusMatchesPods ==
    \A d \in Detectors : details[d] # Unknown /\ details[d].steady =>
        LET was == details[d].of
            live == {p \in PrimariesOf(d) : was[p].phase \in {"Pending", "Running"}}
            serving == {p \in live : Ready(was[p])}
        IN  /\ details[d].status = "ready" => serving = live /\ live # {}
            /\ details[d].status \in {"updating", "update_failed"} =>
                  serving # {} /\ \E p \in PrimariesOf(d) : was[p].phase # "absent" /\ p \notin serving
            /\ details[d].status \in {"initializing", "error"} => serving = {}
            /\ serving # {} => \E p \in serving : details[d].model.version = was[p].version

=============================================================================
