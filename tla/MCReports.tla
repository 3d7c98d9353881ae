----------------------------- MODULE MCReports -----------------------------
(***************************************************************************)
(* One detector with two pods of its primary model, one from before the    *)
(* last patch, a pod of its OODD model and a pod of the platform, on a     *)
(* node with two GPUs that every inference pod sees differently.  The      *)
(* benchmark has a chained lens with detectors given by ID and a plain one *)
(* that asks two copies of its detector in the first run and one in the    *)
(* second.                                                                 *)
(***************************************************************************)
EXTENDS Reports

CONSTANTS a1, a2, o1, e1, d1

Quantity(n, s) == [tenths |-> n, suffix |-> s]
Device(k, n, u, c) == [key |-> k, named |-> n, total |-> 4, used |-> u, compute |-> c]

MCPods == {a1, a2, o1, e1}
MCOwner == [p \in MCPods |-> IF p = e1 THEN NoDetector ELSE d1]
MCKind == [p \in MCPods |-> CASE p = e1 -> "platform" [] p = o1 -> "oodd" [] OTHER -> "primary"]
MCMemory ==
    [p \in MCPods |->
       CASE p = a1 -> <<Quantity(10, "Ki")>>
         [] p = a2 -> <<Quantity(20, "Ki"), Quantity(15, "K")>>
         [] p = o1 -> <<Quantity(10, "Mi")>>
         [] p = e1 -> <<Quantity(10, ""), None>>]
MCCpu ==
    [p \in MCPods |->
       CASE p = a1 -> Quantity(10, "n") [] p = a2 -> Quantity(10, "u") [] OTHER -> Quantity(20, "m")]
MCGpu ==
    [p \in MCPods |->
       CASE p = a1 -> [devices |-> {Device("g0", TRUE, 2, 50), Device("g1", TRUE, 1, 0)},
                       vram |-> 1, compute |-> 50]
         [] p = a2 -> [devices |-> {Device("g0", TRUE, 4, 60), Device("g1", TRUE, 0, 0)},
                       vram |-> 2, compute |-> 70]
         [] OTHER -> [devices |-> {Device("g0", TRUE, 3, 50), Device("g1", FALSE, 2, 0)},
                      vram |-> 1, compute |-> 60]]
MCNode ==
    [memory |-> Quantity(10, "Gi"), cpu |-> Quantity(40, ""), ramOther |-> 1, cpuOther |-> 1,
     args |-> <<[flag |-> "soft", percent |-> None], [flag |-> "hard", percent |-> 5]>>]

MCLenses == <<"chain", "plain">>
MCStages == [l \in ToSet(MCLenses) |-> IF l = "chain" THEN <<"bbox", "binary">> ELSE <<"single">>]
MCSweep ==
    [l \in ToSet(MCLenses) |->
       [copies |-> IF l = "plain" THEN <<2, 1>> ELSE <<1>>, cameras |-> <<1>>, objects |-> <<1>>]]

=============================================================================
