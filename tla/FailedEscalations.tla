------------------------- MODULE FailedEscalations -------------------------
(***************************************************************************)
(* record_failed_escalation and prune_failed_escalations in the queue      *)
(* reader, while the retention job removes old records from the same       *)
(* directory.                                                              *)
(***************************************************************************)
EXTENDS MetricsState

outsideFailed == <<hour, activityVars, monitorVars, blurred, limit>>

RAt(pc) == recorder.pc = pc
RGoto(pc) == recorder' = [recorder EXCEPT !.pc = pc]

WriteTmp ==
    /\ RAt("idle")
    /\ Occurs("failure")
    /\ tmp' = tmp \cup {next}
    /\ next' = next + 1
    /\ unpruned' = unpruned + 1
    /\ RGoto("replace")
    /\ UNCHANGED <<outsideFailed, failed, expired>>

\* The rename makes the record visible whole; then the directory is pruned.
Replace ==
    /\ RAt("replace")
    /\ tmp' = tmp \ {next - 1}
    /\ failed' = failed \cup {next - 1}
    /\ RGoto("clean")
    /\ UNCHANGED <<outsideFailed, next, expired, unpruned, count>>

\* The temporary files that killed writers left are removed, and the records listed.
Clean ==
    /\ RAt("clean")
    /\ tmp' = {}
    /\ recorder' = [pc |-> "stat", todo |-> failed]
    /\ UNCHANGED <<outsideFailed, failed, next, expired, unpruned, count>>

\* The sort stats them one by one; one that is gone raises, and nothing is pruned.
Stat ==
    /\ RAt("stat")
    /\ \/ /\ recorder.todo \subseteq failed
          /\ recorder' = [recorder EXCEPT !.pc = "prune"]
       \/ /\ ~(recorder.todo \subseteq failed)
          /\ recorder' = IdleRecorder
    /\ UNCHANGED <<outsideFailed, tmp, failed, next, expired, unpruned, count>>

Oldest(S) == CHOOSE x \in S : \A y \in S : x <= y
Newest(S) == CHOOSE x \in S : \A y \in S : x >= y

\* Mutant: the newest records are removed.
PruneNewest ==
    /\ RAt("prune")
    /\ IF Cardinality(recorder.todo) > MaxRecords
       THEN LET x == Newest(recorder.todo) IN
            /\ failed' = failed \ {x}
            /\ recorder' = [recorder EXCEPT !.todo = @ \ {x}]
            /\ UNCHANGED unpruned
       ELSE recorder' = IdleRecorder /\ unpruned' = 0 /\ UNCHANGED failed
    /\ UNCHANGED <<outsideFailed, tmp, next, expired, count>>

\* The oldest go, by the listing, until MAX_RECORDS are left.
Prune ==
    /\ RAt("prune")
    /\ IF Cardinality(recorder.todo) > MaxRecords
       THEN LET x == Oldest(recorder.todo) IN
            /\ failed' = failed \ {x}
            /\ recorder' = [recorder EXCEPT !.todo = @ \ {x}]
            /\ UNCHANGED unpruned
       ELSE recorder' = IdleRecorder /\ unpruned' = 0 /\ UNCHANGED failed
    /\ UNCHANGED <<outsideFailed, tmp, next, expired, count>>

KillReader ==
    /\ ~RAt("idle")
    /\ Occurs("killReader")
    /\ recorder' = IdleRecorder
    /\ UNCHANGED <<outsideFailed, tmp, failed, next, expired, unpruned>>

\* prune_expired_queue_data: a record past the retention period is removed.
Expire ==
    /\ failed # {}
    /\ Occurs("expire")
    /\ failed' = failed \ {Oldest(failed)}
    /\ expired' = expired \cup {Oldest(failed)}
    /\ UNCHANGED <<outsideFailed, recorder, tmp, next, unpruned>>

RecorderStep == Replace \/ Clean \/ Stat \/ Prune
RecorderEvent == WriteTmp \/ KillReader \/ Expire

=============================================================================
