----------------------------- MODULE MCMetrics -----------------------------
(* A small instance of the metrics for TLC. *)
EXTENDS Metrics, TLC

CONSTANTS p1, p2

\* The activity files and the failed escalations share nothing but the clock: a behaviour
\* bounds the events of one of them to none.
Busy(of, atMost) == [x \in Events |-> IF x \in DOMAIN of THEN of[x] ELSE IF x \in atMost THEN 1 ELSE 0]
MetricsLimits ==
    {Busy([query |-> 2], {"kill", "disk"}),
     Busy([query |-> 1], {"killMonitor", "outage"}),
     Busy([failure |-> 4], {"expire", "killReader"})}

=============================================================================
