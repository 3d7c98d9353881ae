-------------------------- MODULE EscalationQueue --------------------------
(***************************************************************************)
(* The escalation queue as a whole: the workers' QueueWriters, the reader  *)
(* process and the retention job, interleaved.  A step is a system call    *)
(* whose effect another process can see, or a decision between two such    *)
(* calls, and a process may be killed between any two steps.               *)
(***************************************************************************)
EXTENDS QueueWriter, QueueConsumer, QueueRetention

Tick ==
    /\ now < MaxTime
    /\ now' = now + 1
    /\ UNCHANGED <<writer, nameVars, diskVars, content, tracked, cache, reader, sweep,
                   fresh, stamp, written, late, purged, outcome, accepted, count>>

Next ==
    \/ \E w \in Workers : WorkerStep(w) \/ WorkerFault(w)
    \/ ReaderStep
    \/ ReaderCrash
    \/ ConsumerStep
    \/ SweepStep
    \/ Tick

Spec == Init /\ [][Next]_vars

-----------------------------------------------------------------------------
WriterPCs == {"idle", "image", "choose", "open", "create", "append"}
\* The consumer has a line it has not settled yet.
Undecided == {"consume", "submit", "wait", "failed"}
\* The consumer has settled the line, the reader has not counted it yet.
Settled == {"cache", "unlinkImage", "track"}
\* The reader has the data file open and is at a definite line of it.
Iterating == {"read", "sleep"} \cup Undecided \cup Settled
ReaderPCs == {"choose", "rename", "exists", "open", "count", "unlinkData", "unlinkTracker"}
                \cup Iterating
Outcomes == {"accepted", "skipped", "recorded", "dropped", "unrecorded"}

WriterStates == [pc : WriterPCs, esc : Escalations \cup {NoEscalation},
                 file : Files \cup {NoFile}, lines : Nat]
ReaderStates == [pc : ReaderPCs, file : Files \cup {NoFile}, pos : Nat, last : {"yes", "no"}]
SweepStates == [dir : Dirs \cup {"idle"}, at : Nat, todo : SUBSET Entries,
                victim : Entries \cup {NoEntry}]

\* Every variable keeps to its type.
TypeOK ==
    /\ now \in Nat
    /\ writer \in [Workers -> WriterStates]
    /\ names \in 0..MaxFiles
    /\ owner \in [Files -> Workers \cup {NoWorker}]
    /\ loc \in [Entries -> Dirs \cup {"none", "gone"}]
    /\ mtime \in [Entries -> Nat]
    /\ content \in [Files -> Seq(Escalations)]
    /\ tracked \in [Files -> Nat]
    /\ cache \in Seq(Requests)
    /\ reader \in ReaderStates
    /\ sweep \in SweepStates
    /\ fresh \in SUBSET Escalations
    /\ stamp \in [Escalations -> Nat]
    /\ written \in SUBSET Escalations
    /\ late \in SUBSET Escalations
    /\ purged \in SUBSET Escalations
    /\ outcome \in [Escalations -> SUBSET Outcomes]
    /\ accepted \in [Escalations -> Nat]
    /\ count \in [Events -> Nat]

\* Line i of file f will still be given to the consumer: the file waits in
\* writing/, or it was interrupted before line i was counted, or the reader is
\* about to open it, or the reader has it open and has not settled line i.
Queued(f, i) ==
    \/ loc[Data(f)] = "writing"
    \/ loc[Data(f)] = "reading" /\ f \in Trackers /\ i > tracked[f]
    \/ loc[Data(f)] = "reading" /\ f = reader.file /\ reader.pc \in {"exists", "open"}
    \/ /\ f = reader.file
       /\ \/ reader.pc = "count"
          \/ reader.pc \in Iterating /\ i > reader.pos
          \/ reader.pc \in Undecided /\ i = reader.pos

\* f was moved to reading/ but has no tracking file, and the reader is not at it:
\* no step of the reader ever chooses it again.
Stranded(f) == loc[Data(f)] = "reading" /\ f \notin Trackers /\ f # reader.file

\* A written escalation is never lost silently: the consumer has settled it, or
\* its line will still be read, or it fell into one of three known gaps - a line
\* appended after the final read, a file left in reading/ without its tracking
\* file, a file the retention job removed.
NoSilentLoss ==
    \A e \in written :
        \/ Handled(e) \/ e \in late \/ e \in purged
        \/ \E f \in Files : \E i \in DOMAIN content[f] :
              content[f][i] = e /\ (Queued(f, i) \/ Stranded(f))

\* The tracking file never counts a line the consumer has not settled, so a
\* restarted reader skips nothing that still has to be escalated.
TrackerNeverAhead ==
    \A f \in Trackers : \A i \in 1..tracked[f] :
        i \in DOMAIN content[f] /\ Handled(content[f][i])

\* At most one file is in progress, and it is the one the reader works on: taking
\* an arbitrary tracking file after a restart cannot go wrong.
OneFileInProgress ==
    /\ \A f, g \in Trackers : f = g
    /\ reader.pc # "choose" => Trackers \subseteq {reader.file}

\* A file gets stranded only by a kill: between the rename and the creation of
\* the tracking file, or after retention removed the tracking file in use.
StrandedOnlyByCrash == (\E f \in Files : Stranded(f)) => count["crash"] > 0

\* The image outlives the line: until the consumer has settled a written
\* escalation only the retention job removes its image, and then the escalation
\* has expired by its own timestamp.
ImageOutlivesLine ==
    \A e \in written : Handled(e) \/ Exists(Image(e)) \/ Expired(e)

\* An image that is missing is never recorded as a failed escalation: not after
\* retention removed it, not when a restarted reader takes a line again.
MissingImageNotRecorded ==
    ReaderAt("failed") /\ ~Exists(Image(Line)) => Expired(Line)

\* The escalations of one worker are settled in the order it wrote them, across
\* the files it went through, unless they fell into a gap.
InWorkerOrder ==
    \A f, g \in Files : \A i \in DOMAIN content[f], j \in DOMAIN content[g] :
        /\ owner[f] = owner[g]
        /\ f < g \/ (f = g /\ i < j)
        /\ Handled(content[g][j])
        => \/ Handled(content[f][i])
           \/ content[f][i] \in late \cup purged
           \/ Stranded(f)

\* What the cloud took in beyond the first submission of each escalation.
Duplicates == UNION {{e} \X (2..accepted[e]) : e \in Escalations}

\* The cloud takes an escalation in again only because a process was killed or a
\* reply was lost, and each such event costs at most one duplicate.
DuplicatesBounded == Cardinality(Duplicates) <= count["crash"] + count["lostReply"]

\* The requests of the settled escalations.
SettledRequests == {RequestOf[e] : e \in {d \in Escalations : Handled(d)}}

\* d fell into a gap when the reader was killed before it had cached the request.
CutShort(d) ==
    \/ d \in late \cup purged
    \/ \E f \in Files : Stranded(f) /\ \E i \in DOMAIN content[f] : content[f][i] = d

\* The cloud takes in a second escalation of a request, an SDK retry, only after so
\* many other requests have been settled that the cache had to evict its ID.
DuplicateOnlyAfterEviction ==
    [][\A e \in Escalations :
          /\ accepted'[e] # accepted[e]
          /\ \E d \in Escalations \ {e} :
                RequestOf[d] = RequestOf[e] /\ Handled(d) /\ ~CutShort(d)
          => Cardinality(SettledRequests \ {RequestOf[e]}) >= MaxCacheEntries]_vars

-----------------------------------------------------------------------------
(* The queue implements what EscalationDelivery promises.  An escalation is *)
(* held while its line can still be given to the consumer and, once it is   *)
(* decided, until its image is deleted.                                     *)

InQueue(e) == \E f \in Files : \E i \in DOMAIN content[f] : content[f][i] = e /\ Queued(f, i)

Stage(e) ==
    IF e \notin written THEN "new"
    ELSE IF Handled(e) THEN IF Exists(Image(e)) THEN "held" ELSE "done"
    ELSE IF InQueue(e) THEN "held" ELSE "lost"

Delivery == INSTANCE EscalationDelivery
            WITH stage <- [e \in Escalations |-> Stage(e)],
                 decided <- {e \in Escalations : Handled(e)},
                 taken <- accepted

\* Every step of writers, reader, consumer, cloud and retention, kills, restarts and
\* lost replies among them, is a step of EscalationDelivery or leaves its state as it
\* is: the cloud takes in nothing that was settled or given up before, and nothing
\* that was decided is ever lost.
DeliveryImplemented == Delivery!Spec

=============================================================================
