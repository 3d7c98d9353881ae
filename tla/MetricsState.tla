---------------------------- MODULE MetricsState ----------------------------
(***************************************************************************)
(* What the metrics live on: the hourly counter files of one detector, a   *)
(* set per process, the payloads that the status monitor has collected and *)
(* not yet reported, and the records of failed escalations.                *)
(***************************************************************************)
EXTENDS Naturals, Sequences, FiniteSets

CONSTANTS
    Pids,           \* process IDs of the uvicorn workers; a new worker may get an old one
    KeepHours,      \* clear_old_activity_files keeps this many hours before the present one
    MaxRecords,     \* MAX_RECORDS of failed escalations
    MaxHours,       \* bound: hours
    Limits          \* bounds: how often each event of Events happens, one choice per behaviour

\* An activity is recorded, a worker is killed, a full disk, the status monitor is killed,
\* a report fails, an escalation fails, retention removes a record, the queue reader is killed.
Events == {"query", "kill", "disk", "killMonitor", "outage", "failure", "expire", "killReader"}

ASSUME MetricsAssumption ==
    /\ {KeepHours, MaxRecords, MaxHours} \subseteq Nat \ {0}
    /\ IsFiniteSet(Pids)
    /\ Limits \subseteq [Events -> Nat]

Hours == 1..MaxHours
\* The counters of an activity with a class index, in the order in which they are written.
Names == <<"all", "class">>
Counters == {"all", "class"}
Files == Hours \X Pids \X Counters

Absent == 0     \* no file
Empty == 1      \* an empty file; a file that says n is n + 1

VARIABLES
    hour,       \* the hour of the wall clock
    file,       \* the counter files
    folder,     \* does the detector's folder exist?
    last,       \* does its last_iqs exist?
    proc,       \* of each worker: pc, the hour it records for, counters left, count to write
    collector,  \* the job collect_metrics_for_cloud: pc, hour, files left, sums
    pending,    \* metrics_to_send, by the hour the payload is about
    reporter,   \* the job report_metrics_to_cloud: pc, payloads left
    clearing,   \* the job clear_old_activity_files: files left
    recorder,   \* record_failed_escalation in the queue reader: pc, record, files left
    tmp, failed,    \* its *.json.tmp and *.json files
    begun,      \* history: activities by hour
    collected,  \* history: hours that have been collected
    total,      \* history: what the payload of an hour says
    blurred,    \* history: hours in whose collection a write was cut or under way
    sent,       \* history: how often the cloud took the payload of an hour
    refused,    \* history: counter files that failed a query
    cut,        \* history: counter files left empty by a kill or a full disk
    next,       \* history: the next failed escalation
    expired,    \* history: records that retention removed
    unpruned,   \* history: records since the last prune that ended
    count,      \* history: events so far
    limit       \* the bound on them

Records == 1..count["failure"]     \* failed escalations, oldest first

activityVars == <<file, folder, last, proc, begun, refused, cut>>
monitorVars == <<collector, pending, reporter, clearing, collected, total, sent>>
failedVars == <<recorder, tmp, failed, next, expired, unpruned>>
vars == <<hour, activityVars, monitorVars, blurred, failedVars, count, limit>>

Occurs(event) ==
    /\ count[event] < limit[event]
    /\ count' = [count EXCEPT ![event] = @ + 1]

Idle == [pc |-> "idle", h |-> 0, todo |-> <<>>, n |-> 0]
IdleCollector == [pc |-> "idle", h |-> 0, todo |-> {}, sum |-> [c \in Counters |-> 0]]
IdleRecorder == [pc |-> "idle", todo |-> {}]

Init ==
    /\ hour = 1
    /\ file = [f \in Files |-> Absent]
    /\ folder = FALSE /\ last = FALSE
    /\ proc = [p \in Pids |-> Idle]
    /\ begun = [h \in Hours |-> 0]
    /\ refused = {} /\ cut = {}
    /\ collector = IdleCollector
    /\ pending = {} /\ clearing = {} /\ collected = {} /\ blurred = {}
    /\ reporter = [pc |-> "idle", todo |-> {}]
    /\ total = [h \in Hours |-> [c \in Counters |-> 0]]
    /\ sent = [h \in Hours |-> 0]
    /\ recorder = IdleRecorder
    /\ tmp = {} /\ failed = {} /\ expired = {}
    /\ next = 1 /\ unpruned = 0
    /\ count = [x \in Events |-> 0]
    /\ limit \in Limits

=============================================================================
