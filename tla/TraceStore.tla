----------------------------- MODULE TraceStore -----------------------------
(***************************************************************************)
(* Where traces are kept: files that each process appends to for a while,  *)
(* an hourly clean-up, and what the dashboard loads of them.  The edge     *)
(* endpoint's processes and the inference servers write records of the     *)
(* same trace, each with spans of its own.                                 *)
(***************************************************************************)
EXTENDS Integers, Sequences, FiniteSets, SequencesExt

CONSTANTS
    Processes,      \* workers of the edge endpoint and inference servers
    Servers,        \* the inference servers among them
    Rotation,       \* ROTATION_INTERVAL_SECONDS, 5 minutes
    MaxAge,         \* MAX_FILE_AGE_HOURS, 24 hours
    Window,         \* since_minutes of the dashboard; at most MaxAge
    Delay,          \* bound: time between the start of a trace and its record
    MaxTraces, MaxStored, MaxTime

ASSUME StoreAssumption ==
    /\ MaxAge \in Nat /\ Window \in Nat /\ Window <= MaxAge
    /\ MaxTraces \in Nat

VARIABLES
    time,
    store,      \* files: process, modification time, lines
    appendTo,   \* of each process: the file it appends to and when it was made
    traces      \* history: records made, and whether the disk took them

storeVars == <<time, store, appendTo, traces>>

Unreadable(end) == [id |-> 0, by |-> end, start |-> 0]
Half == Unreadable("no newline")
Garbled == Unreadable("newline")
NoFile == [file |-> 0, created |-> 0]

StoreInit ==
    /\ time = 1 /\ store = <<>> /\ traces = {}
    /\ appendTo = [p \in Processes |-> NoFile]

\* One line more; what comes behind half a line is lost in it.
AppendLine(lines, line) ==
    IF lines # <<>> /\ Last(lines) = Half
    THEN Append(Front(lines), IF line = Half THEN Half ELSE Garbled)
    ELSE Append(lines, line)

\* record_trace, under the lock, with _rotate_file when the file has been used long enough.
\* A disk that is full, or a kill, leaves half a line; the kill also a process without a file.
RecordTrace(p, id, start, outcome) ==
    /\ \A r \in traces : r.id = id => r.by # p
    /\ Cardinality(traces) < MaxStored
    /\ LET old == appendTo[p]
           rotate == old = NoFile \/ time - old.created >= Rotation
           file == IF rotate THEN Len(store) + 1 ELSE old.file
           line == IF outcome = "written" THEN [id |-> id, by |-> p, start |-> start] ELSE Half
           lines == IF rotate THEN <<>> ELSE store[file].lines
           glued == lines # <<>> /\ Last(lines) = Half
           entry == [lines |-> AppendLine(lines, line), mtime |-> time, there |-> TRUE]
       IN  /\ store' = IF rotate THEN Append(store, entry) ELSE [store EXCEPT ![file] = entry]
           /\ appendTo' = [appendTo EXCEPT ![p] =
                             IF outcome = "killed" THEN NoFile
                             ELSE [file |-> file, created |-> IF rotate THEN time ELSE old.created]]
           /\ traces' = traces \cup {[id |-> id, by |-> p, start |-> start,
                                      whole |-> outcome = "written" /\ ~glued]}
    /\ UNCHANGED time

\* cleanup_old_files
Cleanup ==
    /\ \E f \in DOMAIN store : store[f].there /\ store[f].mtime < time - MaxAge
    /\ store' = [f \in DOMAIN store |->
                   IF store[f].mtime < time - MaxAge THEN [store[f] EXCEPT !.there = FALSE, !.lines = <<>>]
                   ELSE store[f]]
    /\ UNCHANGED <<time, appendTo, traces>>

Minute ==
    /\ time < MaxTime
    /\ time' = time + 1
    /\ UNCHANGED <<store, appendTo, traces>>

StoreNext ==
    \/ \E p \in Processes, id \in 1..MaxTraces, start \in 1..time,
         outcome \in {"written", "full", "killed"} :
          time - start <= Delay /\ RecordTrace(p, id, start, outcome)
    \/ Cleanup \/ Minute

-----------------------------------------------------------------------------
\* Lines of the files that have been written to since the cutoff
RecentLines ==
    UNION {{store[f].lines[i] : i \in DOMAIN store[f].lines} :
             f \in {g \in DOMAIN store : store[g].there /\ store[g].mtime >= time - Window}}

\* Mutant: a file that has been written to lately is loaded whole.
LoadWholeFiles == RecentLines \ {Half, Garbled}

\* load_traces: of these the readable ones, of traces that started since.
LoadTraces == {r \in RecentLines \ {Half, Garbled} : r.start >= time - Window}

\* _merge_trace_records, of the records loaded of one trace: the spans of all of them, and
\* the detector of a worker's record, an inference server's being unknown.
Merged(id) ==
    LET records == {r \in LoadTraces : r.id = id}
    IN  [spansOf |-> {r.by : r \in records},
         detector |-> IF \E r \in records : r.by \notin Servers THEN "known" ELSE "unknown"]

\* What is loaded are the records of the traces that started within the window: every one
\* that the disk took whole, in whatever file and by whatever process, however files were
\* rotated and cleaned up, and no other.  A line cut short costs itself and at most the
\* next of its process.  Merged, a trace has the spans of all its records.
RecentTracesLoaded ==
    LET recent == {r \in traces : r.whole /\ r.start >= time - Window}
    IN  \A id \in 1..MaxTraces :
           /\ Merged(id).spansOf = {r.by : r \in {q \in recent : q.id = id}}
           /\ Merged(id).detector = "known" <=> \E r \in recent : r.id = id /\ r.by \notin Servers

=============================================================================
