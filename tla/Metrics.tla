------------------------------ MODULE Metrics ------------------------------
(***************************************************************************)
(* Workers, status monitor, queue reader and retention on the files of the *)
(* metrics, interleaved.                                                   *)
(***************************************************************************)
EXTENDS ActivityMetrics, FailedEscalations

Tick ==
    /\ hour < MaxHours
    /\ hour' = hour + 1
    /\ UNCHANGED <<activityVars, monitorVars, blurred, failedVars, count, limit>>

Next ==
    \/ Tick
    \/ \E p \in Pids : WorkerStep(p) \/ WorkerEvent(p)
    \/ CollectStep \/ ReportStep \/ ClearStep \/ KillMonitor
    \/ RecorderStep \/ RecorderEvent

\* The scheduler runs its jobs hour after hour.
Spec == Init /\ [][Next]_vars /\ WF_vars(CollectStep) /\ WF_vars(ReportStep)

-----------------------------------------------------------------------------
\* Every variable keeps to its type.
TypeOK ==
    /\ hour \in Hours
    /\ file \in [Files -> Nat]
    /\ {folder, last} \subseteq BOOLEAN
    /\ proc \in [Pids -> [pc : {"idle", "count", "write", "touch"}, h : Hours \cup {0},
                          todo : {Names, Tail(Names), <<>>}, n : Nat]]
    /\ \A p \in Pids : PAt(p, "idle") \/ proc[p].h \in Hours
    /\ collector \in [pc : {"idle", "read"}, h : Hours \cup {0}, todo : SUBSET Files,
                      sum : [Counters -> Nat]]
    /\ reporter \in [pc : {"idle", "send"}, todo : SUBSET Hours]
    /\ {pending, collected, blurred} \subseteq SUBSET Hours
    /\ {clearing, cut, refused} \subseteq SUBSET Files
    /\ recorder \in [pc : {"idle", "replace", "clean", "stat", "prune"}, todo : SUBSET Records]
    /\ {tmp, failed, expired} \subseteq SUBSET Records
    /\ begun \in [Hours -> Nat] /\ sent \in [Hours -> Nat]
    /\ total \in [Hours -> [Counters -> Nat]]
    /\ next \in Nat /\ unpruned \in Nat
    /\ count \in [Events -> Nat] /\ limit \in Limits

\* The payload of an hour never counts more than happened in it, and exactly that when
\* nothing of that hour was still being written as it was collected, or was cut short;
\* workers that came and went, with process IDs used again, change nothing.
TotalsExact ==
    \A h \in Hours : \A c \in Counters :
        /\ total[h][c] <= begun[h]
        /\ h \in pending \ blurred => total[h][c] = begun[h]

\* Counting fails a query only in the hour, and for the process ID, whose counter file a
\* kill or a full disk left empty.
RefusedOnlyByCut == refused \subseteq cut

\* The number of active detectors cannot be told - the time of a file that is not there is
\* compared - only while the first activity of a detector is being recorded, or when that
\* was cut short.
ActiveCountKnown == ActiveCountFails => blurred # {} \/ \E p \in Pids : ~PAt(p, "idle")

\* A collected payload reaches the cloud, unless the status monitor is killed first.
CollectedIsReported ==
    \A h \in Hours : h \in pending ~> (sent[h] > 0 \/ count["killMonitor"] > 0)

\* The records are the newest: there are never more than MAX_RECORDS and those written
\* since a prune last ran to its end - retention that removes records under the sort, and
\* kills, only delay it - and one is gone only because it expired, because MAX_RECORDS
\* newer ones were written, or because the reader was killed before the rename.
RecordsKept ==
    /\ Cardinality(failed) <= MaxRecords + unpruned
    /\ \A x \in 1..(next - 1) :
          x \in failed \cup expired \cup tmp \/ next - 1 - x >= MaxRecords \/ count["killReader"] > 0

=============================================================================
