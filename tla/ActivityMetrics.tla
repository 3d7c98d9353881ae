-------------------------- MODULE ActivityMetrics --------------------------
(***************************************************************************)
(* record_activity_for_metrics in the workers, and the jobs of the status  *)
(* monitor that read, report and clear: they share files and no lock.      *)
(***************************************************************************)
EXTENDS MetricsState

outsideActivity == <<hour, monitorVars, failedVars, limit>>

PAt(p, pc) == proc[p].pc = pc
PBecomes(p, s) == proc' = [proc EXCEPT ![p] = s]
FileOf(p) == <<proc[p].h, p, Head(proc[p].todo)>>

\* The hour is read once; the files are named by it.
BeginRecord(p) ==
    /\ PAt(p, "idle")
    /\ Occurs("query")
    /\ PBecomes(p, [pc |-> "count", h |-> hour, todo |-> Names, n |-> 0])
    /\ begun' = [begun EXCEPT ![hour] = @ + 1]
    /\ folder' = TRUE
    /\ UNCHANGED <<outsideActivity, file, last, refused, cut, blurred>>

\* Mutant: the count starts again at one in a file that was left empty.
CountFromOne(p) ==
    LET f == FileOf(p) IN
    /\ PAt(p, "count")
    /\ file' = [file EXCEPT ![f] = Empty]
    /\ PBecomes(p, [proc[p] EXCEPT !.pc = "write", !.n = 1])
    /\ UNCHANGED <<outsideActivity, folder, last, begun, refused, cut, blurred, count>>

\* increment_counter_file up to the write: the file is created, or read and truncated.
\* The number in an empty file does not parse: the query fails.
Count(p) ==
    LET f == FileOf(p) IN
    /\ PAt(p, "count")
    /\ \/ /\ file[f] # Empty
          /\ file' = [file EXCEPT ![f] = Empty]
          /\ PBecomes(p, [proc[p] EXCEPT !.pc = "write",
                                         !.n = IF file[f] = Absent THEN 1 ELSE file[f]])
          /\ UNCHANGED <<refused, blurred>>
       \/ /\ file[f] = Empty
          /\ PBecomes(p, Idle)
          /\ refused' = refused \cup {f}
          /\ blurred' = blurred \cup {f[1]}
          /\ UNCHANGED file
    /\ UNCHANGED <<outsideActivity, folder, last, begun, cut, count>>

\* Mutant: a new counter file is created and the one is not written.
WriteOnlyTouches(p) ==
    LET f == FileOf(p)
        rest == Tail(proc[p].todo)
    IN
    /\ PAt(p, "write")
    /\ file' = [file EXCEPT ![f] = IF proc[p].n = 1 THEN Empty ELSE proc[p].n + 1]
    /\ PBecomes(p, [proc[p] EXCEPT !.pc = IF rest = <<>> THEN "touch" ELSE "count", !.todo = rest])
    /\ UNCHANGED <<outsideActivity, folder, last, begun, refused, cut, blurred, count>>

Write(p) ==
    LET f == FileOf(p)
        rest == Tail(proc[p].todo)
    IN
    /\ PAt(p, "write")
    /\ file' = [file EXCEPT ![f] = proc[p].n + 1]
    /\ PBecomes(p, [proc[p] EXCEPT !.pc = IF rest = <<>> THEN "touch" ELSE "count", !.todo = rest])
    /\ UNCHANGED <<outsideActivity, folder, last, begun, refused, cut, blurred, count>>

\* The disk is full: the query fails and the file stays empty.
WriteFails(p) ==
    /\ PAt(p, "write")
    /\ Occurs("disk")
    /\ cut' = cut \cup {FileOf(p)}
    /\ blurred' = blurred \cup {proc[p].h}
    /\ PBecomes(p, Idle)
    /\ UNCHANGED <<outsideActivity, file, folder, last, begun, refused>>

\* Mutant: only the endpoint's own last_<activity> is touched.
TouchNotDetector(p) ==
    /\ PAt(p, "touch")
    /\ PBecomes(p, Idle)
    /\ UNCHANGED <<outsideActivity, file, folder, last, begun, refused, cut, blurred, count>>

\* last_<activity> is touched last.
Touch(p) ==
    /\ PAt(p, "touch")
    /\ last' = TRUE
    /\ PBecomes(p, Idle)
    /\ UNCHANGED <<outsideActivity, file, folder, begun, refused, cut, blurred, count>>

\* A worker is killed; another starts, sooner or later with the same process ID.
KillWorker(p) ==
    /\ ~PAt(p, "idle")
    /\ Occurs("kill")
    /\ PBecomes(p, Idle)
    /\ cut' = IF PAt(p, "write") THEN cut \cup {FileOf(p)} ELSE cut
    /\ blurred' = blurred \cup {proc[p].h}
    /\ UNCHANGED <<outsideActivity, file, folder, last, begun, refused>>

WorkerStep(p) == Count(p) \/ Write(p) \/ Touch(p)
WorkerEvent(p) == BeginRecord(p) \/ WriteFails(p) \/ KillWorker(p)

-----------------------------------------------------------------------------
(* The status monitor. *)
outsideMonitor == <<hour, file, folder, last, proc, begun, refused, cut, failedVars, limit>>

\* num_detectors_active compares the time of last_iqs, which a detector that is being
\* recorded for the first time does not have: that metric is an error.
ActiveCountFails == folder /\ ~last

\* collect_metrics_for_cloud, on the hour, for the hour before: the files are listed.
CollectStart ==
    LET h == hour - 1 IN
    /\ collector.pc = "idle"
    /\ h > 0 /\ h \notin collected
    /\ collector' = [IdleCollector EXCEPT !.pc = "read", !.h = h,
                        !.todo = {f \in Files : f[1] = h /\ file[f] # Absent}]
    /\ collected' = collected \cup {h}
    /\ blurred' = IF \E p \in Pids : proc[p].h = h THEN blurred \cup {h} ELSE blurred
    /\ UNCHANGED <<outsideMonitor, pending, reporter, clearing, total, sent, count>>

\* get_activity_from_file: a file that is empty, or gone, counts for nothing.
ValueOf(f) == IF file[f] > Empty THEN file[f] - 1 ELSE 0

CollectRead ==
    /\ collector.pc = "read"
    /\ \E f \in collector.todo :
          collector' = [collector EXCEPT !.todo = collector.todo \ {f},
                          !.sum = [collector.sum EXCEPT ![f[3]] = @ + ValueOf(f)]]
    /\ UNCHANGED <<outsideMonitor, pending, reporter, clearing, collected, total, sent, blurred, count>>

CollectStore ==
    /\ collector.pc = "read" /\ collector.todo = {}
    /\ pending' = pending \cup {collector.h}
    /\ total' = [total EXCEPT ![collector.h] = collector.sum]
    /\ collector' = IdleCollector
    /\ UNCHANGED <<outsideMonitor, reporter, clearing, collected, sent, blurred, count>>

\* report_metrics_to_cloud: the payloads there are, oldest first.
ReportStart ==
    /\ reporter.pc = "idle" /\ pending # {}
    /\ reporter' = [pc |-> "send", todo |-> pending]
    /\ UNCHANGED <<outsideMonitor, collector, pending, clearing, collected, total, sent, blurred, count>>

\* Mutant: the payload is forgotten whatever the status of the answer.
ReportOneForgets ==
    LET h == CHOOSE x \in reporter.todo : \A y \in reporter.todo : x <= y
        rest == [pc |-> IF reporter.todo = {h} THEN "idle" ELSE "send", todo |-> reporter.todo \ {h}]
    IN
    /\ reporter.pc = "send"
    /\ reporter' = rest
    /\ pending' = pending \ {h}
    /\ \/ sent' = [sent EXCEPT ![h] = @ + 1] /\ UNCHANGED count
       \/ Occurs("outage") /\ UNCHANGED sent
    /\ UNCHANGED <<outsideMonitor, collector, clearing, collected, total, blurred>>

\* Only status 200 removes a payload.  Another status goes on to the next one, an
\* exception - the cloud may have the payload - ends the job.
ReportOne ==
    LET h == CHOOSE x \in reporter.todo : \A y \in reporter.todo : x <= y
        rest == [pc |-> IF reporter.todo = {h} THEN "idle" ELSE "send", todo |-> reporter.todo \ {h}]
        over == [pc |-> "idle", todo |-> {}]
    IN
    /\ reporter.pc = "send"
    /\ \/ /\ sent' = [sent EXCEPT ![h] = @ + 1]
          /\ pending' = pending \ {h}
          /\ reporter' = rest
          /\ UNCHANGED count
       \/ /\ Occurs("outage")
          /\ UNCHANGED pending
          /\ \/ reporter' = rest /\ UNCHANGED sent
             \/ reporter' = over /\ sent' \in {sent, [sent EXCEPT ![h] = @ + 1]}
    /\ UNCHANGED <<outsideMonitor, collector, clearing, collected, total, blurred>>

\* clear_old_activity_files: by the hour in the name.
ClearStart ==
    LET old == {f \in Files : file[f] # Absent /\ f[1] + KeepHours < hour} IN
    /\ clearing = {} /\ old # {}
    /\ clearing' = old
    /\ UNCHANGED <<outsideMonitor, collector, pending, reporter, collected, total, sent, blurred, count>>

ClearOne ==
    /\ \E f \in clearing :
          /\ file' = [file EXCEPT ![f] = Absent]
          /\ clearing' = clearing \ {f}
          /\ blurred' = IF f \in collector.todo THEN blurred \cup {f[1]} ELSE blurred
    /\ UNCHANGED <<hour, folder, last, proc, begun, refused, cut, failedVars, limit, collector, pending,
                   reporter, collected, total, sent, count>>

\* The payloads that wait for a report are only in memory.
KillMonitor ==
    /\ Occurs("killMonitor")
    /\ pending' = {} /\ clearing' = {}
    /\ collector' = IdleCollector
    /\ reporter' = [pc |-> "idle", todo |-> {}]
    /\ UNCHANGED <<outsideMonitor, collected, total, sent, blurred>>

CollectStep == CollectStart \/ CollectRead \/ CollectStore
ReportStep == ReportStart \/ ReportOne
ClearStep == ClearStart \/ ClearOne

=============================================================================
