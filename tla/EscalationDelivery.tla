------------------------- MODULE EscalationDelivery -------------------------
(***************************************************************************)
(* What the escalation queue promises to those who write to it, without    *)
(* files, readers or crashes: an escalation is held until a decision about *)
(* it has been taken, the cloud may take it in any number of times while   *)
(* it is held and never afterwards, and only an escalation about which     *)
(* nothing was decided can be lost.                                        *)
(***************************************************************************)
EXTENDS Naturals

CONSTANT Escalations

VARIABLES
    stage,      \* of each escalation: "new", "held", "done" or "lost"
    decided,    \* escalations that were submitted, skipped, recorded or dropped
    taken       \* of each escalation: how often the cloud has taken it in

vars == <<stage, decided, taken>>

Init ==
    /\ stage = [e \in Escalations |-> "new"]
    /\ decided = {}
    /\ taken = [e \in Escalations |-> 0]

Put(e) ==
    /\ stage[e] = "new"
    /\ stage' = [stage EXCEPT ![e] = "held"]
    /\ UNCHANGED <<decided, taken>>

\* The cloud takes e in; the decision may be reached with it, or the reply be lost.
Take(e) ==
    /\ stage[e] = "held"
    /\ taken' = [taken EXCEPT ![e] = @ + 1]
    /\ decided' \in {decided, decided \cup {e}}
    /\ UNCHANGED stage

\* A decision without the cloud, at once or some time before the escalation is settled.
Decide(e) ==
    /\ stage[e] = "held"
    /\ decided' = decided \cup {e}
    /\ stage' \in {stage, [stage EXCEPT ![e] = "done"]}
    /\ UNCHANGED taken

Settle(e) ==
    /\ stage[e] = "held" /\ e \in decided
    /\ stage' = [stage EXCEPT ![e] = "done"]
    /\ UNCHANGED <<decided, taken>>

\* A file is lost with every line in it.
Lose(S) ==
    /\ \A e \in S : stage[e] \in {"new", "held"} /\ e \notin decided
    /\ stage' = [e \in Escalations |-> IF e \in S THEN "lost" ELSE stage[e]]
    /\ UNCHANGED <<decided, taken>>

Next ==
    \/ \E e \in Escalations : Put(e) \/ Take(e) \/ Decide(e) \/ Settle(e)
    \/ \E S \in SUBSET Escalations : Lose(S)

Spec == Init /\ [][Next]_vars

=============================================================================
