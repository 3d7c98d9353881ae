------------------------------ MODULE Reports ------------------------------
(***************************************************************************)
(* What the edge endpoint tells about itself and its answers: the device   *)
(* ID, the answer made of an inference, the activity of the last hour, the *)
(* resources and the status of the detectors, the traces of requests, and  *)
(* the benchmark that measures it from outside.  No part reads what        *)
(* another writes, so a behaviour is one part's.                           *)
(***************************************************************************)
EXTENDS DeviceId, InferenceResults, ActivityReport, ResourceReport, DetectorStatus, Profiling,
        TraceStore, AppBenchmark

VARIABLE part

Parts == {"device", "results", "activity", "resources", "status", "profiling", "store",
          "benchmark"}
vars == <<part, deviceVars, resultVars, activityVars, clusterVars, resourceVars, statusVars,
          profilingVars, storeVars, benchmarkVars>>

\* The cluster, the inference and what the benchmark finds vary only where they
\* matter.
Init ==
    /\ part \in Parts
    /\ DeviceInit /\ ActivityInit /\ ResourceInit /\ StatusInit /\ ProfilingInit /\ StoreInit
    /\ BenchmarkInit /\ (part # "benchmark" => before = {} /\ cloud = Externals)
    /\ IF part = "results" THEN ResultInit
       ELSE input = Nothing /\ result = Nothing /\ iq = Nothing /\ metadata = Nothing
    /\ IF part \in {"resources", "status"} THEN ClusterInit
       ELSE /\ pods = [p \in Pods |-> Absent] /\ clock = 2 /\ changes = 0
            /\ dep = [d \in Detectors |-> [version |-> 2, status |-> StatusOf(pods, d, 2)]]

DeviceStep ==
    /\ part = "device" /\ DeviceNext
    /\ UNCHANGED <<part, resultVars, activityVars, clusterVars, resourceVars, statusVars,
                   profilingVars, storeVars, benchmarkVars>>
ResultStep ==
    /\ part = "results" /\ ResultNext
    /\ UNCHANGED <<part, deviceVars, activityVars, clusterVars, resourceVars, statusVars,
                   profilingVars, storeVars, benchmarkVars>>
ActivityStep ==
    /\ part = "activity" /\ ActivityNext
    /\ UNCHANGED <<part, deviceVars, resultVars, clusterVars, resourceVars, statusVars,
                   profilingVars, storeVars, benchmarkVars>>
\* The cluster changes between the reads of a report, which has no use for the
\* clock.
ResourceStep ==
    /\ part = "resources"
    /\ \/ ResourceNext /\ UNCHANGED clusterVars
       \/ clock' = clock /\ ClusterNext /\ UNCHANGED resourceVars
    /\ UNCHANGED <<part, deviceVars, resultVars, activityVars, statusVars, profilingVars,
                   storeVars, benchmarkVars>>
StatusStep ==
    /\ part = "status"
    /\ \/ StatusNext /\ UNCHANGED clusterVars
       \/ ClusterNext /\ UNCHANGED statusVars
    /\ UNCHANGED <<part, deviceVars, resultVars, activityVars, resourceVars, profilingVars,
                   storeVars, benchmarkVars>>
ProfilingStep ==
    /\ part = "profiling" /\ ProfilingNext
    /\ UNCHANGED <<part, deviceVars, resultVars, activityVars, clusterVars, resourceVars,
                   statusVars, storeVars, benchmarkVars>>
StoreStep ==
    /\ part = "store" /\ StoreNext
    /\ UNCHANGED <<part, deviceVars, resultVars, activityVars, clusterVars, resourceVars,
                   statusVars, profilingVars, benchmarkVars>>
BenchmarkStep ==
    /\ part = "benchmark" /\ BenchmarkNext
    /\ UNCHANGED <<part, deviceVars, resultVars, activityVars, clusterVars, resourceVars,
                   statusVars, profilingVars, storeVars>>

Next ==
    \/ DeviceStep \/ ResultStep \/ ActivityStep \/ ResourceStep \/ StatusStep
    \/ ProfilingStep \/ StoreStep \/ BenchmarkStep

Spec == Init /\ [][Next]_vars

=============================================================================
