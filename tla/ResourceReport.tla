--------------------------- MODULE ResourceReport ---------------------------
(***************************************************************************)
(* collect(), the payload of /status/resources.json: it lists the pods,    *)
(* reads the node, reads the metrics server and asks every inference pod   *)
(* for its GPU use, one after the other, and attributes what it got.       *)
(* Memory bandwidth of the GPUs is treated like compute and is left out.   *)
(***************************************************************************)
EXTENDS ClusterState, Sequences, FiniteSetsExt, Sums

CONSTANTS
    Kilo, Kibi,     \* 1000 and 1024 in Kubernetes
    MemoryOf,       \* quantities of the containers of each pod
    CpuOf,          \* quantity of each pod
    GpuOf,          \* response of each inference pod: devices and process
    Node,           \* capacity, use by others and k3s.io/node-args of the node
    None

UnitSuffixes == {"", "n", "u", "m", "K", "Ki", "M", "Mi", "G", "Gi", "T", "Ti"}
Quantities == [tenths : Nat, suffix : UnitSuffixes]

\* A GPU is not used beyond its memory, and all pods are told the same memory of it.
ASSUME ResourceAssumption ==
    /\ Kilo \in Nat /\ Kibi \in Nat /\ None \notin Nat
    /\ MemoryOf \in [Pods -> Seq(Quantities \cup {None})]
    /\ \A p \in Pods :
          /\ IsFiniteSet(GpuOf[p].devices)
          /\ \A v \in GpuOf[p].devices : v.total \in Nat /\ v.used \in 0..v.total
          /\ \A q \in Pods : \A v \in GpuOf[p].devices, u \in GpuOf[q].devices :
                v.named /\ u.named /\ v.key = u.key => v.total = u.total

VARIABLES
    rpc,        \* where collect() is
    listed,     \* the pods as they were listed
    node, usage, gpu,       \* what the next reads gave
    report

resourceVars == <<rpc, listed, node, usage, gpu, report>>

ResourceInit ==
    /\ rpc = "idle"
    /\ listed = None /\ node = None /\ usage = None /\ gpu = None /\ report = None

-----------------------------------------------------------------------------
(* Quantities: tenths of a number and a suffix. *)
MemoryFactor(suffix) ==
    CASE suffix = "K" -> Kilo           [] suffix = "Ki" -> Kibi
      [] suffix = "M" -> Kilo * Kilo [] suffix = "Mi" -> Kibi * Kibi
      [] suffix = "G" -> Kilo * Kilo * Kilo        [] suffix = "Gi" -> Kibi * Kibi * Kibi
      [] suffix = "T" -> Kilo * Kilo * Kilo * Kilo [] suffix = "Ti" -> Kibi * Kibi * Kibi * Kibi
      [] OTHER -> 1

\* _parse_k8s_memory, in bytes; what is not a number and a suffix of at most two letters is 0.
ParseMemory(q) == IF q = None THEN 0 ELSE (q.tenths * MemoryFactor(q.suffix)) \div 10

\* _parse_k8s_cpu, in tenths of nanocores.
ParseCpu(q) ==
    IF q = None THEN 0
    ELSE q.tenths * (CASE q.suffix = "n" -> 1 [] q.suffix = "u" -> Kilo
                       [] q.suffix = "m" -> Kilo ^ 2 [] q.suffix = "" -> Kilo ^ 3)

\* _percentage, in units of a hundredth of the node.
Percentage(part, whole) == IF whole <= 0 THEN 0 ELSE part

\* _parse_eviction_threshold: of the first soft, else hard, limit that is a percentage.
EvictionThreshold(args) ==
    LET found(flag) == {i \in DOMAIN args : args[i].flag = flag /\ args[i].percent # None}
        first(S) == args[CHOOSE i \in S : \A j \in S : i <= j].percent
    IN  CASE found("soft") # {} -> 100 - first(found("soft"))
          [] found("soft") = {} /\ found("hard") # {} -> 100 - first(found("hard"))
          [] OTHER -> None

-----------------------------------------------------------------------------
(* The reads. *)
ListPods ==
    /\ rpc = "idle"
    /\ listed' = [p \in Present |-> pods[p]]
    /\ rpc' = "node"
    /\ UNCHANGED <<node, usage, gpu, report>>

RamOf(p) ==
    SumOver([i \in DOMAIN MemoryOf[p] |-> ParseMemory(MemoryOf[p][i])], DOMAIN MemoryOf[p])
Using == {p \in Pods : pods[p].phase = "Running"}

\* _get_node_resources; of a failure nothing is left but zeros.
ReadNode(ok) ==
    /\ rpc = "node"
    /\ node' = IF ok
               THEN [ramTotal |-> ParseMemory(Node.memory), cpuTotal |-> ParseCpu(Node.cpu),
                     ramUsed |-> Node.ramOther + SumOver([p \in Using |-> RamOf(p)], Using),
                     cpuUsed |-> Node.cpuOther + SumOver([p \in Using |-> ParseCpu(CpuOf[p])], Using),
                     eviction |-> EvictionThreshold(Node.args)]
               ELSE [ramTotal |-> 0, cpuTotal |-> 0, ramUsed |-> 0, cpuUsed |-> 0,
                     eviction |-> None]
    /\ rpc' = "metrics"
    /\ UNCHANGED <<listed, usage, gpu, report>>

\* _get_pod_resource_metrics
ReadMetrics(ok) ==
    /\ rpc = "metrics"
    /\ usage' = [p \in IF ok THEN Using ELSE {} |->
                   [ram |-> RamOf(p), cpu |-> ParseCpu(CpuOf[p])]]
    /\ rpc' = "gpus"
    /\ UNCHANGED <<listed, node, gpu, report>>

\* _find_inference_pods, of the pods listed
InferencePods == {p \in DOMAIN listed : listed[p].phase = "Running" /\ Kind[p] # "platform"}

\* _query_all_pod_gpus: a pod that is gone, hangs or errs gives None.
QueryGpus(silent) ==
    /\ rpc = "gpus"
    /\ gpu' = [p \in InferencePods |->
                 IF pods[p].phase = "Running" /\ p \notin silent THEN GpuOf[p] ELSE None]
    /\ rpc' = "attribute"
    /\ UNCHANGED <<listed, node, usage, report>>

-----------------------------------------------------------------------------
(* Attribution. *)
Group(d, kind) == {p \in InferencePods : Owner[p] = d /\ Kind[p] = kind}
Newest(S) == {p \in S : \A q \in S : listed[q].created <= listed[p].created}

\* Mutant: every ready pod is active.
PickActiveAll ==
    {{p \in InferencePods : Ready(listed[p])}}

\* _pick_active_pods: one of the newest ready pods of each detector's each model; of two
\* created in the same second, the one listed first.
PickActive ==
    {S \in SUBSET InferencePods :
        \A d \in Detectors, kind \in {"primary", "oodd"} :
            LET ready == {p \in Group(d, kind) : Ready(listed[p])}
            IN  IF ready = {} THEN S \cap Group(d, kind) = {}
                ELSE \E p \in Newest(ready) : S \cap Group(d, kind) = {p}}

\* _build_gpu_summary: devices by their key, with the most any pod saw of each; the pods
\* all see the same GPUs, so the totals are those of the pod that saw most.
Most(S) == IF S = {} THEN 0 ELSE Max(S)
Responses == {gpu[p].devices : p \in {q \in DOMAIN gpu : gpu[q] # None}}
GpuSummary ==
    LET named == {v \in UNION Responses : v.named}
        of(k) == {v \in named : v.key = k}
    IN  [total |-> Most({SumOver([v \in s |-> v.total], s) : s \in Responses}),
         used |-> Most({SumOver([v \in s |-> v.used], s) : s \in Responses}),
         devices |-> [k \in {v.key : v \in named} |->
                        [total |-> Most({v.total : v \in of(k)}),
                         used |-> Most({v.used : v \in of(k)}),
                         compute |-> Most({v.compute : v \in of(k)})]]]

\* What each pod uses.
Ram == [p \in Pods |-> IF p \in DOMAIN usage THEN usage[p].ram ELSE 0]
Cpu == [p \in Pods |-> IF p \in DOMAIN usage THEN usage[p].cpu ELSE 0]
CpuShare == [p \in Pods |-> Percentage(Cpu[p], node.cpuTotal)]
Vram == [p \in InferencePods |-> IF gpu[p] = None THEN 0 ELSE gpu[p].vram]
Compute == [p \in InferencePods |-> IF gpu[p] = None THEN 0 ELSE gpu[p].compute]
Capped(x) == IF x > 100 THEN 100 ELSE x
Beyond(x) == IF x < 0 THEN 0 ELSE x

\* One detector's entry in the report: a model without an active pod has None.
Slot(v, S) == IF S = {} THEN None ELSE SumOver(v, S)
Number(x) == IF x = None THEN 0 ELSE x
Split(v, d, active) ==
    LET primary == Slot(v, Group(d, "primary") \cap active)
        oodd == Slot(v, Group(d, "oodd") \cap active)
    IN  [primary |-> primary, oodd |-> oodd, total |-> Number(primary) + Number(oodd)]
Entry(d, active) ==
    [ram |-> Split(Ram, d, active), vram |-> Split(Vram, d, active),
     cpu |-> Split(CpuShare, d, active),
     compute |-> [Split(Compute, d, active) EXCEPT !.total = Capped(@)]]

\* _attribute_detector_resources and the rest of collect()
ReportOf(active) ==
    LET entries == [d \in {Owner[p] : p \in active} |-> Entry(d, active)]
        loading == InferencePods \ active
        platform == DOMAIN usage \ InferencePods
        sum(f) == SumOver([d \in DOMAIN entries |-> entries[d][f].total], DOMAIN entries)
        share(S) == Percentage(SumOver(Cpu, S), node.cpuTotal)
        vram == GpuSummary
        ramParts == [detectors |-> sum("ram"), loading |-> SumOver(Ram, loading),
                     edge |-> SumOver(Ram, platform)]
        cpuParts == [detectors |-> sum("cpu"), loading |-> share(loading), edge |-> share(platform)]
        vramParts == [detectors |-> sum("vram"), loading |-> SumOver(Vram, loading), edge |-> 0]
        rest(used, x) == Beyond(used - x.detectors - x.loading - x.edge)
    IN  [detectors |-> entries, devices |-> vram.devices, eviction |-> node.eviction,
         ram |-> [parts |-> ramParts, used |-> node.ramUsed, other |-> rest(node.ramUsed, ramParts)],
         cpu |-> [parts |-> cpuParts, used |-> Percentage(node.cpuUsed, node.cpuTotal),
                  other |-> rest(Percentage(node.cpuUsed, node.cpuTotal), cpuParts)],
         vram |-> [parts |-> vramParts, used |-> vram.used, total |-> vram.total,
                   other |-> rest(vram.used, vramParts)],
         compute |-> [detectors |-> sum("compute"),
                      loading |-> Capped(SumOver(Compute, loading))]]

Attribute ==
    /\ rpc = "attribute"
    /\ \E active \in PickActive : report' = ReportOf(active)
    /\ rpc' = "done"
    /\ UNCHANGED <<listed, node, usage, gpu>>

ResourceNext ==
    \/ ListPods \/ Attribute
    \/ \E ok \in BOOLEAN : ReadNode(ok) \/ ReadMetrics(ok)
    \/ \E silent \in {S \in SUBSET Pods : Cardinality(S) <= 1} : QueryGpus(silent)

\* Whatever came, went or failed between the reads: the memory the metrics server told of
\* is all in the report, each pod's in one part of it; a detector's model has the memory of
\* one pod, which was ready and had no newer ready one beside it; no GPU memory is counted
\* twice because two pods see it, or is in use beyond what there is; and of a node that
\* could not be read no share of CPU is given.
ResourcesAddUp ==
    rpc = "done" =>
        LET parts == report.ram.parts
            server(d, kind) == {p \in DOMAIN listed : /\ Owner[p] = d /\ Kind[p] = kind
                                                      /\ Ready(listed[p])}
        IN  /\ parts.detectors + parts.loading + parts.edge
                 = SumOver([p \in DOMAIN usage |-> usage[p].ram], DOMAIN usage)
            /\ \A d \in Detectors, kind \in {"primary", "oodd"} :
                  IF server(d, kind) = {}
                  THEN d \in DOMAIN report.detectors => report.detectors[d].ram[kind] = None
                  ELSE \E p \in Newest(server(d, kind)) : report.detectors[d].ram[kind] = Ram[p]
            /\ report.vram.used <= report.vram.total
            /\ \A k \in DOMAIN report.devices :
                  \A p \in {q \in DOMAIN gpu : gpu[q] # None} : \A v \in gpu[p].devices :
                      v.named /\ v.key = k => report.devices[k].total = v.total
            /\ node.cpuTotal = 0 => report.cpu.parts.detectors = 0 /\ report.cpu.parts.edge = 0

=============================================================================
