----------------------------- MODULE QueueState -----------------------------
(***************************************************************************)
(* What the processes of the escalation queue share: the directories under *)
(* /opt/groundlight/queue, and the private state each process keeps.       *)
(*                                                                         *)
(* A queue file is its name: a QueueWriter generates a new name for every  *)
(* file and creates it at most once, names sort in the order they are      *)
(* generated, and a rename keeps the name.  So a name also stands for the  *)
(* inode that an open descriptor keeps alive after an unlink.              *)
(***************************************************************************)
EXTENDS Naturals, Sequences, FiniteSets

CONSTANTS
    Workers,            \* the uvicorn workers, one QueueWriter each
    Escalations,        \* the escalations that may be queued, one image query ID each
    Requests,           \* request IDs; SDK retries of a request share one
    RequestOf,          \* the request ID of an escalation
    MaxQueueFileLines,  \* MAX_QUEUE_FILE_LINES
    MaxCacheEntries,    \* DEFAULT_REQUEST_CACHE_MAX_ENTRIES
    RetentionDays,      \* QUEUE_RETENTION_DAYS, in clock ticks
    MaxFiles,           \* bound: file names generated
    MaxTime,            \* bound: clock ticks
    Limit,              \* bounds: how often each event of Events happens
    NoEscalation, NoWorker

\* Kills of a process, file operations that raise OSError, submissions the cloud
\* takes in without the reply arriving, runs of the retention job.
Events == {"crash", "fault", "lostReply", "sweep"}

ASSUME QueueAssumption ==
    /\ RequestOf \in [Escalations -> Requests]
    /\ NoEscalation \notin Escalations
    /\ MaxQueueFileLines \in Nat \ {0}
    /\ MaxCacheEntries \in Nat \ {0}
    /\ RetentionDays \in Nat \ {0}
    /\ MaxFiles \in Nat
    /\ MaxTime \in Nat
    /\ Limit \in [Events -> Nat]

Files == 1..MaxFiles
NoFile == 0

\* Directory entries: a queue file, its tracking file, the image of an escalation.
Data(f) == <<"data", f>>
Tracker(f) == <<"tracker", f>>
Image(e) == <<"image", e>>
Entries == {Data(f) : f \in Files} \cup {Tracker(f) : f \in Files}
              \cup {Image(e) : e \in Escalations}
NoEntry == <<"none", NoFile>>

Dirs == {"images", "writing", "reading"}

VARIABLES
    now,        \* the wall clock
    writer,     \* of each worker: pc, esc in hand, file (last_file_path), lines written to it
    names,      \* file names generated so far
    loc,        \* the directory an entry is in: "none" before creation, "gone" once unlinked
    mtime,      \* its modification time
    content,    \* the lines of a queue file
    tracked,    \* the length of a tracking file
    cache,      \* the request cache, oldest entry first
    reader,     \* of the reader: pc, file, pos (lines taken), last (in the final read?)
    sweep,      \* of the retention job: dir being swept, at (start), todo, victim
    fresh,      \* escalations not yet handed to the queue
    stamp,      \* EscalationInfo.timestamp
    owner,      \* history: the worker that generated a file name
    written,    \* history: escalations whose write_escalation returned True
    late,       \* history: lines appended to a file the reader had finished with
    purged,     \* history: lines of the queue files that retention unlinked
    outcome,    \* history: what the consumer did with an escalation
    accepted,   \* history: submissions of an escalation the cloud took in
    count       \* history: events so far

diskVars == <<loc, mtime>>
nameVars == <<names, owner>>
vars == <<now, writer, nameVars, diskVars, content, tracked, cache, reader, sweep,
          fresh, stamp, written, late, purged, outcome, accepted, count>>

Exists(x) == loc[x] \in Dirs

Occurs(event) ==
    /\ count[event] < Limit[event]
    /\ count' = [count EXCEPT ![event] = @ + 1]

\* The line in the reader's hand.
Line == content[reader.file][reader.pos]

Handled(e) == outcome[e] # {}

\* _escalation_is_expired: by the escalation's own timestamp.
Expired(e) == now >= stamp[e] + RetentionDays

Init ==
    /\ now = 0
    /\ writer = [w \in Workers |->
                    [pc |-> "idle", esc |-> NoEscalation, file |-> NoFile, lines |-> 0]]
    /\ names = 0
    /\ owner = [f \in Files |-> NoWorker]
    /\ loc = [x \in Entries |-> "none"]
    /\ mtime = [x \in Entries |-> 0]
    /\ content = [f \in Files |-> <<>>]
    /\ tracked = [f \in Files |-> 0]
    /\ cache = <<>>
    /\ reader = [pc |-> "choose", file |-> NoFile, pos |-> 0, last |-> "no"]
    /\ sweep = [dir |-> "idle", at |-> 0, todo |-> {}, victim |-> NoEntry]
    /\ fresh = Escalations
    /\ stamp = [e \in Escalations |-> 0]
    /\ written = {} /\ late = {} /\ purged = {}
    /\ outcome = [e \in Escalations |-> {}]
    /\ accepted = [e \in Escalations |-> 0]
    /\ count = [x \in Events |-> 0]

=============================================================================
