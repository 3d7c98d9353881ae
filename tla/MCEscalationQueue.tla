------------------------- MODULE MCEscalationQueue -------------------------
(***************************************************************************)
(* Small instances of EscalationQueue for TLC, with liveness and what the  *)
(* documentation promises.                                                 *)
(***************************************************************************)
EXTENDS EscalationQueue, TLC

CONSTANTS e1, e2, e3, e4, r1, r2, r3, MaxCrashes, MaxFaults, MaxLostReplies, MaxSweeps

\* e1 and e2 are SDK retries of one request.
MCRequestOf == [e \in Escalations |-> CASE e = e3 -> r2 [] e = e4 -> r3 [] OTHER -> r1]

MCLimit == [crash |-> MaxCrashes, fault |-> MaxFaults, lostReply |-> MaxLostReplies,
            sweep |-> MaxSweeps]

WorkerSymmetry == Permutations(Workers)

-----------------------------------------------------------------------------
(* Processes that are alive make progress; the cloud is reached again after *)
(* an outage, however often attempts fail in between.                       *)

LiveSpec ==
    /\ Spec
    /\ \A w \in Workers : WF_vars(WorkerStep(w))
    /\ WF_vars(ReaderStep)
    /\ WF_vars(ConsumerStep)
    /\ SF_vars(SubmitAccepted)

\* Every written escalation is eventually settled, unless it fell into a gap.
EventuallySettled ==
    \A e \in Escalations :
        e \in written ~>
            \/ Handled(e)
            \/ e \in late
            \/ \E f \in Files : Stranded(f) /\ \E i \in DOMAIN content[f] : content[f][i] = e

-----------------------------------------------------------------------------
\* queue_reader.py, __iter__: "guaranteeing that we don't miss any" line.
NoLineMissed ==
    \A e \in written :
        \/ Handled(e)
        \/ \E f \in Files : \E i \in DOMAIN content[f] : content[f][i] = e /\ Queued(f, i)

\* queue_reader.py, _choose_new_file: "We finish processing the in-progress
\* files": a file in reading/ is always found again.
InterruptedFileFound == \A f \in Files : ~Stranded(f)

=============================================================================
