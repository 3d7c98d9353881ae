--------------------------- MODULE MCControlPlane ---------------------------
(* Small instances of the control plane for TLC. *)
EXTENDS ControlPlane, TLC

CONSTANTS d1, w1, w2

OneDetector == {d1}
BothBinary == {1, 2, 3}
FirstBinary == {1}
NoBinary == {}

AllPreloaded == Models

SmallLimits(put, query, lookup, kill, fault, publish, restart) ==
    [x \in Events |->
        CASE x = "put" -> put [] x = "query" -> query [] x = "lookup" -> lookup
          [] x = "kill" -> kill [] x = "fault" -> fault
          [] x = "publish" -> publish [] x = "restart" -> restart]

ConfigLimits == SmallLimits(2, 1, 1, 1, 0, 0, 0)
RolloutLimits == SmallLimits(2, 0, 0, 1, 1, 1, 1)
StuckLimits == SmallLimits(0, 0, 0, 0, 1, 1, 0)

Symmetry == Permutations({w1, w2})
=============================================================================
