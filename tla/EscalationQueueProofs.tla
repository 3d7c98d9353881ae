----------------------- MODULE EscalationQueueProofs -----------------------
(***************************************************************************)
(* Proofs about EscalationQueue, for any number of workers, escalations,   *)
(* files, kills, faults, lost replies and sweeps: the invariant IInv is    *)
(* inductive and implies the safety properties.                            *)
(***************************************************************************)
EXTENDS EscalationQueue, TLAPS

\* A line that needs no reading any more, or never will be read.
Accounted(e) == Handled(e) \/ e \in late \/ e \in purged

\* What a worker holds: a file name is generated before it is used, belongs to
\* one worker, is created once, and has been created when a line is appended.
WriterInv ==
    /\ \A w \in Workers :
          /\ writer[w].file <= names
          /\ writer[w].pc # "idle" => writer[w].esc \in Escalations
          /\ writer[w].pc \in {"open", "create", "append"} => writer[w].file \in Files
          /\ writer[w].pc = "create" => loc[Data(writer[w].file)] = "none"
          /\ writer[w].pc = "append" => loc[Data(writer[w].file)] # "none"
    /\ \A v, w \in Workers : v # w /\ writer[v].file = writer[w].file
                                => writer[v].file = NoFile
    /\ \A f \in Files : f > names => loc[Data(f)] = "none"
    /\ \A f \in Files : loc[Data(f)] = "none" => content[f] = <<>>

\* What the reader holds at each point.
ReaderInv ==
    /\ reader.pc = "choose" => reader.file = NoFile
    /\ reader.pc # "choose" => reader.file \in Files
    /\ reader.pc = "rename" => loc[Data(reader.file)] \in {"writing", "gone"}
    /\ reader.pc \notin {"choose", "rename"} => loc[Data(reader.file)] \in {"reading", "gone"}
    /\ reader.pc = "unlinkTracker" => loc[Data(reader.file)] = "gone"
    /\ reader.pc \in Undecided \cup Settled => reader.pos >= 1
    /\ reader.last = "yes" => reader.pc \in Undecided \cup Settled \cup {"unlinkData", "unlinkTracker"}
    /\ \A f \in Trackers : loc[Data(f)] \in {"reading", "gone"}

\* Every line up to the reader's position is there and settled, except perhaps
\* the one in the consumer's hand; the tracking file agrees with the position.
PositionInv ==
    LET f == reader.file IN
    /\ reader.pc \in Iterating \cup {"unlinkData"} =>
          /\ reader.pos <= Len(content[f])
          /\ \A i \in 1..reader.pos :
                i < reader.pos \/ reader.pc \notin Undecided => Handled(content[f][i])
          /\ f \in Trackers =>
                tracked[f] = IF reader.pc \in Undecided \cup Settled
                             THEN reader.pos - 1 ELSE reader.pos

\* Once the reader has met the end of the file, at most one line can follow: that
\* of the worker that had it open; after the final read any such line is late.
TailInv ==
    LET f == reader.file IN
    /\ reader.pc = "sleep" =>
          /\ Len(content[f]) <= reader.pos + 1
          /\ (\E w \in Workers : writer[w].pc = "append" /\ writer[w].file = f)
                => Len(content[f]) = reader.pos
    /\ reader.pc = "unlinkData" \/ (reader.last = "yes" /\ reader.pc # "unlinkTracker") =>
          \A i \in 1..Len(content[f]) : i > reader.pos => content[f][i] \in late

\* Every line of a file that is in no directory any more is accounted for.
GoneInv ==
    \A f \in Files : loc[Data(f)] = "gone" =>
        \A i \in 1..Len(content[f]) : Accounted(content[f][i])

\* Every written escalation is a line of some file.
WrittenInv ==
    \A e \in written : \E f \in Files : \E i \in 1..Len(content[f]) : content[f][i] = e

IInv ==
    /\ TypeOK
    /\ WriterInv
    /\ ReaderInv
    /\ PositionInv
    /\ TailInv
    /\ GoneInv
    /\ WrittenInv
    /\ TrackerNeverAhead
    /\ OneFileInProgress

-----------------------------------------------------------------------------
(* The shape of directory entries. *)

\* Entries of different kinds, files or escalations are different.
LEMMA EntryFacts ==
    /\ \A f \in Files : Data(f) \in Entries /\ Tracker(f) \in Entries
    /\ \A e \in Escalations : Image(e) \in Entries
    /\ \A f, g : Data(f) = Data(g) => f = g
    /\ \A f, g : Tracker(f) = Tracker(g) => f = g
    /\ \A f, g : Data(f) # Tracker(g) /\ Data(f) # Image(g) /\ Tracker(f) # Image(g)
    /\ NoEntry \notin Entries
    /\ \A f : Data(f) # NoEntry /\ Tracker(f) # NoEntry
BY DEF Data, Tracker, Image, Entries, NoEntry

\* The initial states are type-correct.
LEMMA InitType == Init => TypeOK
BY QueueAssumption DEF Init, TypeOK, WriterStates, ReaderStates, SweepStates, WriterPCs,
    ReaderPCs, Files, NoFile, Dirs

\* Giving a worker a well-formed state keeps the function of the workers' states typed.
LEMMA BecomesType ==
    ASSUME TypeOK, NEW w \in Workers, NEW s \in WriterStates, Becomes(w, s)
    PROVE  writer' \in [Workers -> WriterStates]
<1>1. writer \in [Workers -> WriterStates]
  BY DEF TypeOK
<1> QED BY <1>1 DEF Becomes

\* A worker's state changed in one of the ways its steps change it is well-formed.
LEMMA WriterFields ==
    ASSUME TypeOK, NEW w \in Workers
    PROVE  /\ writer[w] \in WriterStates
           /\ \A pc \in WriterPCs : [writer[w] EXCEPT !.pc = pc] \in WriterStates
           /\ \A pc \in WriterPCs, e \in Escalations \cup {NoEscalation} :
                 [writer[w] EXCEPT !.pc = pc, !.esc = e] \in WriterStates
           /\ \A pc \in WriterPCs, f \in Files :
                 [writer[w] EXCEPT !.pc = pc, !.file = f, !.lines = 0] \in WriterStates
           /\ \A pc \in WriterPCs, e \in Escalations \cup {NoEscalation} :
                 [writer[w] EXCEPT !.pc = pc, !.esc = e, !.lines = @ + 1] \in WriterStates
           /\ {"idle", "image", "choose", "open", "create", "append"} \subseteq WriterPCs
<1>1. writer[w] \in WriterStates
  BY DEF TypeOK
<1>2. {"idle", "image", "choose", "open", "create", "append"} \subseteq WriterPCs
  BY DEF WriterPCs
<1>3. \A pc \in WriterPCs : [writer[w] EXCEPT !.pc = pc] \in WriterStates
  BY <1>1 DEF WriterStates
<1>4. \A pc \in WriterPCs, e \in Escalations \cup {NoEscalation} :
         [writer[w] EXCEPT !.pc = pc, !.esc = e] \in WriterStates
  BY <1>1 DEF WriterStates
<1>5. \A pc \in WriterPCs, f \in Files :
         [writer[w] EXCEPT !.pc = pc, !.file = f, !.lines = 0] \in WriterStates
  BY <1>1 DEF WriterStates
<1>6. \A pc \in WriterPCs, e \in Escalations \cup {NoEscalation} :
         [writer[w] EXCEPT !.pc = pc, !.esc = e, !.lines = @ + 1] \in WriterStates
  <2>1. writer[w].lines + 1 \in Nat
    BY <1>1 DEF WriterStates
  <2> QED BY <1>1, <2>1 DEF WriterStates
<1> QED BY <1>1, <1>2, <1>3, <1>4, <1>5, <1>6

\* The moves a worker makes keep its state, the names and the owners typed.
LEMMA WriterMoves ==
    ASSUME TypeOK, NEW w \in Workers
    PROVE  /\ \A pc \in WriterPCs : Goto(w, pc) => writer' \in [Workers -> WriterStates]
           /\ Done(w) => writer' \in [Workers -> WriterStates]
           /\ ResetToNewFile(w) => /\ writer' \in [Workers -> WriterStates]
                                   /\ names' \in 0..MaxFiles
                                   /\ owner' \in [Files -> Workers \cup {NoWorker}]
<1>1. ASSUME NEW pc \in WriterPCs, Goto(w, pc) PROVE writer' \in [Workers -> WriterStates]
  BY <1>1, BecomesType, WriterFields DEF Goto
<1>2. ASSUME Done(w) PROVE writer' \in [Workers -> WriterStates]
  BY <1>2, BecomesType, WriterFields DEF Done
<1>3. ASSUME ResetToNewFile(w) PROVE names + 1 \in Files
  BY <1>3, QueueAssumption DEF TypeOK, ResetToNewFile, Files
<1>4. ASSUME ResetToNewFile(w)
      PROVE  /\ writer' \in [Workers -> WriterStates]
             /\ names' \in 0..MaxFiles
             /\ owner' \in [Files -> Workers \cup {NoWorker}]
  <2>1. writer' \in [Workers -> WriterStates]
    BY <1>3, <1>4, BecomesType, WriterFields DEF ResetToNewFile
  <2>2. names' \in 0..MaxFiles
    BY <1>4, QueueAssumption DEF TypeOK, ResetToNewFile
  <2>3. owner' \in [Files -> Workers \cup {NoWorker}]
    BY <1>3, <1>4 DEF TypeOK, ResetToNewFile
  <2> QED BY <2>1, <2>2, <2>3
<1> QED BY <1>1, <1>2, <1>4

\* The moves the reader and the consumer make keep the reader's state typed.
LEMMA ReaderMoves ==
    ASSUME TypeOK
    PROVE  /\ \A pc \in ReaderPCs : ReaderGoto(pc) => reader' \in ReaderStates
           /\ ReaderReset => reader' \in ReaderStates
           /\ \A p \in Nat, l \in {"yes", "no"}, pc \in ReaderPCs :
                 reader' = [reader EXCEPT !.pc = pc, !.pos = p, !.last = l]
                    => reader' \in ReaderStates
           /\ \A p \in Nat, pc \in ReaderPCs :
                 reader' = [reader EXCEPT !.pc = pc, !.pos = p] => reader' \in ReaderStates
           /\ {"choose", "exists", "open", "count", "read", "consume", "submit", "wait",
               "failed", "cache", "unlinkImage", "track", "sleep", "unlinkData",
               "unlinkTracker"} \subseteq ReaderPCs
           /\ reader.pos \in Nat /\ reader.pos + 1 \in Nat
<1>0. reader \in ReaderStates
  BY DEF TypeOK
<1>1. \A pc \in ReaderPCs : ReaderGoto(pc) => reader' \in ReaderStates
  BY <1>0 DEF ReaderGoto, ReaderStates
<1>2. {"choose", "exists", "open", "count", "read", "consume", "submit", "wait",
       "failed", "cache", "unlinkImage", "track", "sleep", "unlinkData",
       "unlinkTracker"} \subseteq ReaderPCs
  BY DEF ReaderPCs, Iterating, Undecided, Settled
<1>3. ReaderReset => reader' \in ReaderStates
  BY <1>2 DEF ReaderReset, ReaderStates, NoFile
<1>4. \A p \in Nat, l \in {"yes", "no"}, pc \in ReaderPCs :
         reader' = [reader EXCEPT !.pc = pc, !.pos = p, !.last = l] => reader' \in ReaderStates
  BY <1>0 DEF ReaderStates
<1>5. \A p \in Nat, pc \in ReaderPCs :
         reader' = [reader EXCEPT !.pc = pc, !.pos = p] => reader' \in ReaderStates
  BY <1>0 DEF ReaderStates
<1>6. reader.pos \in Nat /\ reader.pos + 1 \in Nat
  BY <1>0 DEF ReaderStates
<1> QED BY <1>1, <1>2, <1>3, <1>4, <1>5, <1>6

\* No step of a worker, failing ones and kills included, breaks the types.
LEMMA WorkerType ==
    ASSUME TypeOK, WriterInv, NEW w \in Workers, WorkerStep(w) \/ WorkerFault(w)
    PROVE  TypeOK'
<1>1. ASSUME NEW e \in Escalations, TakeTimestamp(w, e) PROVE TypeOK'
  <2>1. writer' \in [Workers -> WriterStates]
    BY <1>1, BecomesType, WriterFields DEF TakeTimestamp
  <2>2. fresh' \in SUBSET Escalations /\ stamp' \in [Escalations -> Nat]
    BY <1>1 DEF TypeOK, TakeTimestamp, At
  <2> QED BY <1>1, <2>1, <2>2 DEF TypeOK, TakeTimestamp, outsideWriter, nameVars, diskVars
<1>2. CASE WriteImage(w)
  <2>1. writer' \in [Workers -> WriterStates]
    BY <1>2, WriterMoves, WriterFields DEF WriteImage
  <2>2. loc' \in [Entries -> Dirs \cup {"none", "gone"}] /\ mtime' \in [Entries -> Nat]
    BY <1>2, EntryFacts DEF TypeOK, WriteImage, WriterInv, At, PutImage, Dirs
  <2> QED BY <1>2, <2>1, <2>2 DEF TypeOK, WriteImage, outsideWriter, nameVars, diskVars
<1>3. CASE ChooseFile(w)
  <2>1. writer' \in [Workers -> WriterStates]
    BY <1>3, WriterMoves, WriterFields DEF ChooseFile
  <2>2. names' \in 0..MaxFiles /\ owner' \in [Files -> Workers \cup {NoWorker}]
    BY <1>3, WriterMoves DEF TypeOK, ChooseFile, nameVars
  <2> QED BY <1>3, <2>1, <2>2 DEF TypeOK, ChooseFile, ResetToNewFile, outsideWriter, nameVars, diskVars
<1>4. CASE OpenExisting(w)
  <2>1. writer' \in [Workers -> WriterStates]
    BY <1>4, WriterMoves, WriterFields DEF OpenExisting
  <2>2. names' \in 0..MaxFiles /\ owner' \in [Files -> Workers \cup {NoWorker}]
    BY <1>4, WriterMoves DEF TypeOK, OpenExisting, nameVars
  <2> QED BY <1>4, <2>1, <2>2 DEF TypeOK, OpenExisting, ResetToNewFile, outsideWriter, nameVars, diskVars
<1>5. CASE CreateFile(w)
  <2>1. writer' \in [Workers -> WriterStates]
    BY <1>5, WriterMoves, WriterFields DEF CreateFile
  <2>2. loc' \in [Entries -> Dirs \cup {"none", "gone"}] /\ mtime' \in [Entries -> Nat]
    BY <1>5, EntryFacts DEF TypeOK, CreateFile, WriterInv, At, Dirs
  <2> QED BY <1>5, <2>1, <2>2 DEF TypeOK, CreateFile, outsideWriter, nameVars, diskVars
<1>6. CASE AppendLine(w)
  <2>1. writer' \in [Workers -> WriterStates]
    BY <1>6, BecomesType, WriterFields DEF AppendLine
  <2>2. content' \in [Files -> Seq(Escalations)] /\ written' \in SUBSET Escalations /\ late' \in SUBSET Escalations
    BY <1>6 DEF TypeOK, AppendLine, WriterInv, At
  <2>3. mtime' \in [Entries -> Nat]
    BY <1>6, EntryFacts DEF TypeOK, AppendLine, WriterInv, At
  <2> QED BY <1>6, <2>1, <2>2, <2>3 DEF TypeOK, AppendLine, outsideWriter, nameVars, diskVars
<1>7. CASE WriteImageFails(w)
  <2>1. writer' \in [Workers -> WriterStates]
    BY <1>7, WriterMoves DEF WriteImageFails
  <2>2. loc' \in [Entries -> Dirs \cup {"none", "gone"}] /\ mtime' \in [Entries -> Nat]
    <3>1. CASE PutImage(writer[w].esc)
      BY <1>7, <3>1, EntryFacts DEF TypeOK, WriteImageFails, WriterInv, At, PutImage, Dirs
    <3>2. CASE UNCHANGED diskVars
      BY <3>2 DEF TypeOK, diskVars
    <3> QED BY <1>7, <3>1, <3>2 DEF WriteImageFails
  <2>3. count' \in [Events -> Nat]
    BY <1>7 DEF TypeOK, WriteImageFails, Occurs, Events
  <2> QED BY <1>7, <2>1, <2>2, <2>3 DEF TypeOK, WriteImageFails, PutImage, outsideWriter, nameVars, diskVars
<1>8. CASE WriteFails(w)
  <2>1. writer' \in [Workers -> WriterStates]
    BY <1>8, WriterMoves DEF WriteFails
  <2>2. count' \in [Events -> Nat]
    BY <1>8 DEF TypeOK, WriteFails, Occurs, Events
  <2> QED BY <1>8, <2>1, <2>2 DEF TypeOK, WriteFails, outsideWriter, nameVars, diskVars
<1>9. CASE WorkerCrash(w)
  <2>1. writer' \in [Workers -> WriterStates]
    BY <1>9 DEF TypeOK, WorkerCrash, Becomes, WriterStates, WriterPCs, NoFile
  <2>2. count' \in [Events -> Nat]
    BY <1>9 DEF TypeOK, WorkerCrash, Occurs, Events
  <2> QED BY <1>9, <2>1, <2>2 DEF TypeOK, WorkerCrash, outsideWriter, nameVars, diskVars
<1> QED BY <1>1, <1>2, <1>3, <1>4, <1>5, <1>6, <1>7, <1>8, <1>9 DEF WorkerStep, WorkerFault

\* No step of the reader, kills included, breaks the types.
LEMMA ReaderType ==
    ASSUME TypeOK, ReaderInv, ReaderStep \/ ReaderCrash
    PROVE  TypeOK'
<1>1. CASE ChooseTracked
  <2>1. reader' \in ReaderStates
    BY <1>1 DEF TypeOK, ChooseTracked, Trackers, ReaderStates, ReaderPCs, Iterating, Undecided, Settled, NoFile
  <2> QED BY <1>1, <2>1 DEF TypeOK, ChooseTracked, outsideReader, nameVars, diskVars
<1>2. CASE ChooseOldest
  <2>1. reader' \in ReaderStates
    BY <1>2 DEF TypeOK, ChooseOldest, WritingFiles, ReaderStates, ReaderPCs, Iterating, Undecided, Settled, NoFile
  <2> QED BY <1>2, <2>1 DEF TypeOK, ChooseOldest, outsideReader, nameVars, diskVars
<1>3. CASE RenameFile
  <2>1. reader' \in ReaderStates
    BY <1>3, ReaderMoves DEF TypeOK, RenameFile, ReaderAt
  <2>2. loc' \in [Entries -> Dirs \cup {"none", "gone"}]
    BY <1>3, EntryFacts DEF TypeOK, RenameFile, ReaderInv, ReaderAt, Dirs
  <2> QED BY <1>3, <2>1, <2>2 DEF TypeOK, RenameFile, outsideReader, nameVars, diskVars
<1>4. CASE CheckDataExists
  <2>1. reader' \in ReaderStates
    BY <1>4, ReaderMoves DEF TypeOK, CheckDataExists, ReaderAt
  <2>2. loc' \in [Entries -> Dirs \cup {"none", "gone"}]
    BY <1>4, EntryFacts DEF TypeOK, CheckDataExists, ReaderInv, ReaderAt, UnlinkIfPresent, Unlink, Dirs
  <2> QED BY <1>4, <2>1, <2>2 DEF TypeOK, CheckDataExists, UnlinkIfPresent, Unlink, outsideReader, nameVars, diskVars
<1>5. CASE OpenFiles
  <2>1. reader' \in ReaderStates
    BY <1>5, ReaderMoves DEF TypeOK, OpenFiles, ReaderAt
  <2>2. loc' \in [Entries -> Dirs \cup {"none", "gone"}] /\ mtime' \in [Entries -> Nat] /\ tracked' \in [Files -> Nat]
    <3>1. CASE UNCHANGED <<diskVars, tracked>>
      BY <3>1 DEF TypeOK, diskVars
    <3>2. CASE /\ loc' = [loc EXCEPT ![Tracker(reader.file)] = "reading"]
               /\ mtime' = [mtime EXCEPT ![Tracker(reader.file)] = now]
               /\ tracked' = [tracked EXCEPT ![reader.file] = 0]
      BY <1>5, <3>2, EntryFacts DEF TypeOK, OpenFiles, ReaderInv, ReaderAt, Dirs
    <3> QED BY <1>5, <3>1, <3>2 DEF OpenFiles
  <2> QED BY <1>5, <2>1, <2>2 DEF TypeOK, OpenFiles, outsideReader, nameVars, diskVars
<1>6. CASE CountTracked
  <2>1. reader' \in ReaderStates
    <3>1. content[reader.file] \in Seq(Escalations) /\ tracked[reader.file] \in Nat
      BY <1>6 DEF TypeOK, CountTracked, ReaderInv, ReaderAt
    <3>2. Len(content[reader.file]) \in Nat
      BY <3>1
    <3> QED BY <1>6, <3>1, <3>2, ReaderMoves DEF CountTracked
  <2> QED BY <1>6, <2>1 DEF TypeOK, CountTracked, outsideReader, nameVars, diskVars
<1>7. CASE ReadLine
  <2>1. reader' \in ReaderStates
    BY <1>7, ReaderMoves DEF TypeOK, ReadLine, ReaderAt
  <2> QED BY <1>7, <2>1 DEF TypeOK, ReadLine, outsideReader, nameVars, diskVars
<1>8. CASE FinalRead
  <2>1. reader' \in ReaderStates
    BY <1>8, ReaderMoves DEF TypeOK, FinalRead, ReaderAt
  <2> QED BY <1>8, <2>1 DEF TypeOK, FinalRead, outsideReader, nameVars, diskVars
<1>9. CASE TrackLine
  <2>1. reader' \in ReaderStates
    BY <1>9, ReaderMoves DEF TypeOK, TrackLine, ReaderAt
  <2>2. tracked' \in [Files -> Nat] /\ mtime' \in [Entries -> Nat]
    <3>1. reader.file \in Files /\ tracked[reader.file] + 1 \in Nat
      BY <1>9 DEF TypeOK, TrackLine, ReaderInv, ReaderAt
    <3>2. CASE UNCHANGED <<tracked, mtime>>
      BY <3>2 DEF TypeOK
    <3>3. CASE /\ tracked' = [tracked EXCEPT ![reader.file] = @ + 1]
               /\ mtime' = [mtime EXCEPT ![Tracker(reader.file)] = now]
      BY <3>1, <3>3, EntryFacts DEF TypeOK
    <3> QED BY <1>9, <3>2, <3>3 DEF TrackLine
  <2> QED BY <1>9, <2>1, <2>2 DEF TypeOK, TrackLine, outsideReader, nameVars, diskVars
<1>10. CASE UnlinkData
  <2>1. reader' \in ReaderStates
    BY <1>10, ReaderMoves DEF TypeOK, UnlinkData, ReaderAt
  <2>2. loc' \in [Entries -> Dirs \cup {"none", "gone"}]
    BY <1>10, EntryFacts DEF TypeOK, UnlinkData, ReaderInv, ReaderAt, Unlink, Dirs
  <2> QED BY <1>10, <2>1, <2>2 DEF TypeOK, UnlinkData, outsideReader, nameVars, diskVars
<1>11. CASE UnlinkTracker
  <2>1. reader' \in ReaderStates
    BY <1>11, ReaderMoves DEF TypeOK, UnlinkTracker, ReaderAt
  <2>2. loc' \in [Entries -> Dirs \cup {"none", "gone"}]
    BY <1>11, EntryFacts DEF TypeOK, UnlinkTracker, ReaderInv, ReaderAt, UnlinkIfPresent, Unlink, Dirs
  <2> QED BY <1>11, <2>1, <2>2 DEF TypeOK, UnlinkTracker, outsideReader, nameVars, diskVars
<1>12. CASE ReaderCrash
  <2>1. reader' \in ReaderStates
    BY <1>12, ReaderMoves DEF TypeOK, ReaderCrash, ReaderAt
  <2>2. count' \in [Events -> Nat]
    BY <1>12 DEF TypeOK, ReaderCrash, Occurs, Events
  <2> QED BY <1>12, <2>1, <2>2 DEF TypeOK, ReaderCrash, outsideReader, nameVars, diskVars
<1> QED BY <1>1, <1>2, <1>3, <1>4, <1>5, <1>6, <1>7, <1>8, <1>9, <1>10, <1>11, <1>12 DEF ReaderStep

\* While a line is in the consumer's hand it is a line of the file.
LEMMA LineType ==
    ASSUME TypeOK, ReaderInv, PositionInv, reader.pc \in Undecided \cup Settled
    PROVE  Line \in Escalations
BY DEF TypeOK, ReaderInv, PositionInv, Line, Iterating, Undecided, Settled, ReaderStates

\* RequestCache.add leaves a sequence of request IDs.
LEMMA CacheAddType ==
    ASSUME NEW c \in Seq(Requests), NEW r \in Requests
    PROVE  CacheAdd(c, r) \in Seq(Requests)
BY QueueAssumption DEF CacheAdd

\* No step of the consumer breaks the types.
LEMMA ConsumerType ==
    ASSUME TypeOK, ReaderInv, PositionInv, ConsumerStep
    PROVE  TypeOK'
<1>1. CASE CheckCache
  <2>1. reader' \in ReaderStates
    BY <1>1, ReaderMoves DEF TypeOK, CheckCache, ReaderAt
  <2>2. outcome' \in [Escalations -> SUBSET Outcomes]
    <3>1. CASE Result("skipped")
      BY <1>1, <3>1, LineType DEF TypeOK, CheckCache, ReaderAt, Result, Outcomes, Undecided
    <3>2. CASE UNCHANGED outcome
      BY <3>2 DEF TypeOK
    <3> QED BY <1>1, <3>1, <3>2 DEF CheckCache
  <2> QED BY <1>1, <2>1, <2>2 DEF TypeOK, CheckCache, outsideConsumer, nameVars, diskVars
<1>2. CASE SubmitAccepted
  <2>1. reader' \in ReaderStates
    BY <1>2, ReaderMoves DEF TypeOK, SubmitAccepted, ReaderAt
  <2>2. outcome' \in [Escalations -> SUBSET Outcomes] /\ accepted' \in [Escalations -> Nat]
    BY <1>2, LineType DEF TypeOK, SubmitAccepted, ReaderAt, Result, Outcomes, CloudTakesIn, Undecided
  <2> QED BY <1>2, <2>1, <2>2 DEF TypeOK, SubmitAccepted, outsideConsumer, nameVars, diskVars
<1>3. CASE SubmitRetryable
  <2>1. reader' \in ReaderStates
    BY <1>3, ReaderMoves DEF TypeOK, SubmitRetryable, ReaderAt
  <2> QED BY <1>3, <2>1 DEF TypeOK, SubmitRetryable, outsideConsumer, nameVars, diskVars
<1>4. CASE SubmitReplyLost
  <2>1. reader' \in ReaderStates
    BY <1>4, ReaderMoves DEF TypeOK, SubmitReplyLost, ReaderAt
  <2>2. accepted' \in [Escalations -> Nat]
    BY <1>4, LineType DEF TypeOK, SubmitReplyLost, ReaderAt, CloudTakesIn, Undecided
  <2>3. count' \in [Events -> Nat]
    BY <1>4 DEF TypeOK, SubmitReplyLost, Occurs, Events
  <2> QED BY <1>4, <2>1, <2>2, <2>3 DEF TypeOK, SubmitReplyLost, outsideConsumer, nameVars, diskVars
<1>5. CASE RetryWait
  <2>1. reader' \in ReaderStates
    BY <1>5, ReaderMoves DEF TypeOK, RetryWait, ReaderAt
  <2> QED BY <1>5, <2>1 DEF TypeOK, RetryWait, outsideConsumer, nameVars, diskVars
<1>6. CASE SubmitFails
  <2>1. reader' \in ReaderStates
    BY <1>6, ReaderMoves DEF TypeOK, SubmitFails, ReaderAt
  <2> QED BY <1>6, <2>1 DEF TypeOK, SubmitFails, outsideConsumer, nameVars, diskVars
<1>7. CASE HandleFailure
  <2>1. reader' \in ReaderStates
    BY <1>7, ReaderMoves DEF TypeOK, HandleFailure, ReaderAt
  <2>2. outcome' \in [Escalations -> SUBSET Outcomes]
    BY <1>7, LineType DEF TypeOK, HandleFailure, ReaderAt, Result, Outcomes, Undecided
  <2>3. count' \in [Events -> Nat]
    BY <1>7 DEF TypeOK, HandleFailure, Occurs, Events
  <2> QED BY <1>7, <2>1, <2>2, <2>3 DEF TypeOK, HandleFailure, outsideConsumer, nameVars, diskVars
<1>8. CASE CacheRequest
  <2>1. reader' \in ReaderStates
    BY <1>8, ReaderMoves DEF TypeOK, CacheRequest, ReaderAt
  <2>2. cache' \in Seq(Requests)
    BY <1>8, LineType, CacheAddType, QueueAssumption DEF TypeOK, CacheRequest, ReaderAt, Settled
  <2> QED BY <1>8, <2>1, <2>2 DEF TypeOK, CacheRequest, outsideConsumer, nameVars, diskVars
<1>9. CASE UnlinkImage
  <2>1. reader' \in ReaderStates
    BY <1>9, ReaderMoves DEF TypeOK, UnlinkImage, ReaderAt
  <2>2. loc' \in [Entries -> Dirs \cup {"none", "gone"}]
    BY <1>9, LineType, EntryFacts DEF TypeOK, UnlinkImage, ReaderAt, UnlinkIfPresent, Unlink, Dirs, Settled
  <2> QED BY <1>9, <2>1, <2>2 DEF TypeOK, UnlinkImage, UnlinkIfPresent, Unlink, outsideConsumer, nameVars, diskVars
<1> QED BY <1>1, <1>2, <1>3, <1>4, <1>5, <1>6, <1>7, <1>8, <1>9 DEF ConsumerStep

\* No step of the retention job breaks the types.
LEMMA SweepType ==
    ASSUME TypeOK, SweepStep
    PROVE  TypeOK'
<1>1. CASE SweepStart
  <2>1. sweep' \in SweepStates
    BY <1>1 DEF TypeOK, SweepStart, SweepStates, Dirs, Listing
  <2>2. count' \in [Events -> Nat]
    BY <1>1 DEF TypeOK, SweepStart, Occurs, Events
  <2> QED BY <1>1, <2>1, <2>2 DEF TypeOK, SweepStart, outsideSweep, nameVars, diskVars
<1>2. CASE SweepStat
  <2>1. sweep' \in SweepStates
    <3>1. PICK x \in sweep.todo :
             sweep' = [sweep EXCEPT !.todo = sweep.todo \ {x},
                                    !.victim = IF BeforeCutoff(x) THEN x ELSE NoEntry]
      BY <1>2 DEF SweepStat
    <3>2. x \in Entries /\ sweep.todo \ {x} \in SUBSET Entries
      BY DEF TypeOK, SweepStates
    <3>3. (IF BeforeCutoff(x) THEN x ELSE NoEntry) \in Entries \cup {NoEntry}
      BY <3>2
    <3> QED BY <3>1, <3>2, <3>3 DEF TypeOK, SweepStates
  <2> QED BY <1>2, <2>1 DEF TypeOK, SweepStat, outsideSweep, nameVars, diskVars
<1>3. CASE SweepUnlink
  <2>1. sweep' \in SweepStates
    BY <1>3 DEF TypeOK, SweepUnlink, SweepStates, Dirs
  <2>2. loc' \in [Entries -> Dirs \cup {"none", "gone"}] /\ purged' \in SUBSET Escalations
    BY <1>3 DEF TypeOK, SweepUnlink, SweepStates, Dirs
  <2> QED BY <1>3, <2>1, <2>2 DEF TypeOK, SweepUnlink, outsideSweep, nameVars, diskVars
<1>4. CASE SweepNextDir
  <2>1. sweep' \in SweepStates
    BY <1>4 DEF TypeOK, SweepNextDir, SweepStates, Dirs, Listing, NextDir
  <2> QED BY <1>4, <2>1 DEF TypeOK, SweepNextDir, outsideSweep, nameVars, diskVars
<1> QED BY <1>1, <1>2, <1>3, <1>4 DEF SweepStep

-----------------------------------------------------------------------------
(* The rest of the invariant. *)

\* No queue file and no tracking file is created, moved or unlinked.
FilesStay ==
    \A f \in Files : loc'[Data(f)] = loc[Data(f)] /\ loc'[Tracker(f)] = loc[Tracker(f)]

\* What is settled stays settled.
StaysHandled == \A e \in Escalations : Handled(e) => Handled(e)'

-----------------------------------------------------------------------------
(* The initial states. *)

\* The invariant holds when everything is empty.
LEMMA InitInv == Init => IInv
<1> SUFFICES ASSUME Init PROVE IInv
  OBVIOUS
<1>1. TypeOK
  BY InitType
<1>2. WriterInv
  BY EntryFacts DEF Init, WriterInv, NoFile, Files
<1>3. ReaderInv /\ PositionInv /\ TailInv
  BY EntryFacts DEF Init, ReaderInv, PositionInv, TailInv, NoFile, Trackers, Iterating, Undecided, Settled
<1>4. GoneInv /\ WrittenInv
  BY EntryFacts DEF Init, GoneInv, WrittenInv
<1>5. TrackerNeverAhead /\ OneFileInProgress
  BY EntryFacts DEF Init, TrackerNeverAhead, OneFileInProgress, Trackers
<1> QED BY <1>1, <1>2, <1>3, <1>4, <1>5 DEF IInv

-----------------------------------------------------------------------------
(* Frames: what keeps a part of the invariant when little changes. *)

\* Without a new file or line, only the workers can disturb WriterInv.
LEMMA WriterFrame ==
    ASSUME IInv, UNCHANGED <<writer, names, content>>,
           \A f \in Files : loc'[Data(f)] = "none" <=> loc[Data(f)] = "none"
    PROVE  WriterInv'
BY DEF IInv, TypeOK, WriterInv, WriterStates, NoFile

\* No file disappears: the lines of those that have are still accounted for.
LEMMA GoneFrame ==
    ASSUME IInv, UNCHANGED <<content, late, purged>>, StaysHandled,
           \A f \in Files : loc'[Data(f)] = "gone" => loc[Data(f)] = "gone"
    PROVE  GoneInv'
<1> SUFFICES ASSUME NEW f \in Files, loc'[Data(f)] = "gone", NEW i \in 1..Len(content[f])
             PROVE  Accounted(content[f][i])'
  BY DEF GoneInv
<1>1. content[f][i] \in Escalations /\ Accounted(content[f][i])
  BY DEF IInv, TypeOK, GoneInv
<1> QED BY <1>1 DEF Accounted, StaysHandled

\* No line is added and none is reported as written.
LEMMA WrittenFrame ==
    ASSUME IInv, UNCHANGED <<content, written>>
    PROVE  WrittenInv'
BY DEF IInv, WrittenInv

\* A tracking file that is not extended stays right when lines are only added.
LEMMA TrackerFrame ==
    ASSUME IInv, UNCHANGED <<content, tracked>>, StaysHandled,
           \A f \in Files : loc'[Tracker(f)] = "reading" => loc[Tracker(f)] = "reading"
    PROVE  TrackerNeverAhead'
<1> SUFFICES ASSUME NEW f \in Files, loc'[Tracker(f)] = "reading", NEW i \in 1..tracked[f]
             PROVE  i \in DOMAIN content[f] /\ Handled(content[f][i])'
  BY DEF TrackerNeverAhead, Trackers
<1>1. i \in DOMAIN content[f] /\ Handled(content[f][i])
  BY DEF IInv, TrackerNeverAhead, Trackers
<1>2. content[f][i] \in Escalations
  BY <1>1 DEF IInv, TypeOK
<1> QED BY <1>1, <1>2 DEF StaysHandled

\* Everything but WriterInv and TailInv survives a step of a worker that
\* touches no queue file.
LEMMA ReaderSideFrame ==
    ASSUME IInv, FilesStay,
           UNCHANGED <<content, tracked, reader, outcome, late, purged, written>>
    PROVE  /\ ReaderInv' /\ PositionInv' /\ GoneInv' /\ WrittenInv'
           /\ TrackerNeverAhead' /\ OneFileInProgress'
<1>1. StaysHandled
  BY DEF StaysHandled, Handled
<1>2. Trackers' = Trackers
  BY DEF Trackers, FilesStay
<1>3. ReaderInv'
  BY <1>2 DEF IInv, ReaderInv, FilesStay, Trackers
<1>4. PositionInv'
  BY <1>2 DEF IInv, PositionInv, Handled
<1>5. GoneInv' /\ WrittenInv' /\ TrackerNeverAhead'
  BY <1>1, GoneFrame, WrittenFrame, TrackerFrame DEF FilesStay
<1>6. OneFileInProgress'
  BY <1>2 DEF IInv, OneFileInProgress
<1> QED BY <1>3, <1>4, <1>5, <1>6

-----------------------------------------------------------------------------
(* The workers. *)

\* A new name is not on disk, and no worker has it.
LEMMA NewName ==
    ASSUME IInv, NEW w \in Workers, ResetToNewFile(w), UNCHANGED <<loc, content>>,
           writer[w].pc # "idle"
    PROVE  WriterInv'
<1>1. /\ names \in Nat /\ names + 1 \in Files /\ names' = names + 1
      /\ writer' = [writer EXCEPT ![w] =
             [writer[w] EXCEPT !.pc = "create", !.file = names + 1, !.lines = 0]]
  BY QueueAssumption DEF IInv, TypeOK, ResetToNewFile, Becomes, Files
<1>2. \A v \in Workers : writer[v].file \in Nat /\ writer[v].file <= names
  BY DEF IInv, TypeOK, WriterInv, WriterStates, Files, NoFile
<1>3. \A v \in Workers \ {w} : writer'[v] = writer[v]
  BY <1>1 DEF IInv, TypeOK
<1>4. writer'[w].pc = "create" /\ writer'[w].file = names + 1 /\ writer'[w].esc = writer[w].esc
  BY <1>1 DEF IInv, TypeOK, WriterStates
<1>5. \A v \in Workers :
          /\ writer'[v].file <= names'
          /\ writer'[v].pc # "idle" => writer'[v].esc \in Escalations
          /\ writer'[v].pc \in {"open", "create", "append"} => writer'[v].file \in Files
          /\ writer'[v].pc = "create" => loc[Data(writer'[v].file)] = "none"
          /\ writer'[v].pc = "append" => loc[Data(writer'[v].file)] # "none"
  <2>1. ASSUME NEW v \in Workers \ {w} PROVE writer'[v].file <= names'
    BY <1>1, <1>2, <1>3
  <2>2. loc[Data(names + 1)] = "none"
    BY <1>1 DEF IInv, WriterInv
  <2> QED BY <1>1, <1>3, <1>4, <2>1, <2>2 DEF IInv, WriterInv
<1>6. \A v, u \in Workers : v # u /\ writer'[v].file = writer'[u].file
                                => writer'[v].file = NoFile
  <2>1. \A v \in Workers \ {w} : writer'[v].file # writer'[w].file
    BY <1>1, <1>2, <1>3, <1>4
  <2> QED BY <1>3, <2>1 DEF IInv, WriterInv
<1>7. \A f \in Files : f > names' => loc[Data(f)] = "none"
  BY <1>1 DEF IInv, WriterInv, Files
<1> QED BY <1>5, <1>6, <1>7 DEF IInv, WriterInv

\* A worker that keeps its file and neither creates nor appends.
LEMMA SameName ==
    ASSUME IInv, NEW w \in Workers, NEW s \in WriterStates, Becomes(w, s),
           s.file = writer[w].file \/ s.file = NoFile,
           s.pc # "idle" => s.esc \in Escalations,
           s.pc # "create",
           s.pc \in {"open", "append"} => s.file \in Files,
           s.pc = "append" => loc[Data(s.file)] # "none",
           UNCHANGED <<names, content>>,
           \A f \in Files : loc'[Data(f)] = loc[Data(f)]
    PROVE  WriterInv'
<1>1. writer'[w] = s /\ \A v \in Workers \ {w} : writer'[v] = writer[v]
  BY DEF IInv, TypeOK, Becomes
<1>2. s.file <= names
  BY DEF IInv, TypeOK, WriterInv, WriterStates, NoFile
<1>3. \A v \in Workers :
          /\ writer'[v].file <= names'
          /\ writer'[v].pc # "idle" => writer'[v].esc \in Escalations
          /\ writer'[v].pc \in {"open", "create", "append"} => writer'[v].file \in Files
          /\ writer'[v].pc = "create" => loc'[Data(writer'[v].file)] = "none"
          /\ writer'[v].pc = "append" => loc'[Data(writer'[v].file)] # "none"
  BY <1>1, <1>2 DEF IInv, WriterInv
<1>4. \A v, u \in Workers : v # u /\ writer'[v].file = writer'[u].file
                                => writer'[v].file = NoFile
  BY <1>1 DEF IInv, WriterInv
<1> QED BY <1>3, <1>4 DEF IInv, WriterInv

\* Nobody can have the file open in whose tail the reader sleeps, unless it had.
LEMMA TailFrame ==
    ASSUME IInv, UNCHANGED <<content, reader, late>>,
           \A w \in Workers : writer'[w].pc = "append" =>
              \/ writer[w].pc = "append" /\ writer'[w].file = writer[w].file
              \/ loc[Data(writer'[w].file)] \in {"none", "writing"}
    PROVE  TailInv'
<1>1. reader.pc = "sleep" => loc[Data(reader.file)] \notin {"none", "writing"}
  BY DEF IInv, ReaderInv
<1> QED BY <1>1 DEF IInv, TailInv

\* A step in which a worker only moves on, with what it may have open.
LEMMA WorkerMoves ==
    ASSUME IInv, NEW w \in Workers, NEW s \in WriterStates, Becomes(w, s),
           s.pc = "append" => loc[Data(s.file)] \in {"none", "writing"},
           FilesStay, TypeOK', WriterInv',
           UNCHANGED <<content, tracked, reader, outcome, late, purged, written>>
    PROVE  IInv'
<1>1. \A v \in Workers : writer'[v] = IF v = w THEN s ELSE writer[v]
  BY DEF IInv, TypeOK, Becomes
<1>2. TailInv'
  BY <1>1, TailFrame
<1> QED BY <1>2, ReaderSideFrame DEF IInv

\* A new file is one that neither the reader nor a tracking file refers to.
LEMMA CreateFileInv ==
    ASSUME IInv, NEW w \in Workers, CreateFile(w), TypeOK'
    PROVE  IInv'
<1> DEFINE f == writer[w].file
<1>1. f \in Files /\ loc[Data(f)] = "none" /\ f <= names
  BY DEF IInv, WriterInv, CreateFile, At
<1>2. /\ loc'[Data(f)] = "writing"
      /\ \A g \in Files \ {f} : loc'[Data(g)] = loc[Data(g)]
      /\ \A g \in Files : loc'[Tracker(g)] = loc[Tracker(g)]
  BY <1>1, EntryFacts DEF IInv, TypeOK, CreateFile
<1>3. /\ writer'[w].pc = "append" /\ writer'[w].file = f /\ writer'[w].esc = writer[w].esc
      /\ \A v \in Workers \ {w} : writer'[v] = writer[v]
  BY DEF IInv, TypeOK, WriterStates, CreateFile, Goto, Becomes
<1>4. UNCHANGED <<names, content, tracked, reader, outcome, late, purged, written>>
  BY DEF CreateFile, outsideWriter, nameVars
<1>5. StaysHandled /\ Trackers' = Trackers
  BY <1>2, <1>4 DEF StaysHandled, Handled, Trackers
<1>6. WriterInv'
  <2>1. \A v \in Workers \ {w} : writer[v].file # f
    BY <1>1 DEF IInv, WriterInv, Files, NoFile
  <2>2. \A v \in Workers :
          /\ writer'[v].file <= names'
          /\ writer'[v].pc # "idle" => writer'[v].esc \in Escalations
          /\ writer'[v].pc \in {"open", "create", "append"} => writer'[v].file \in Files
          /\ writer'[v].pc = "create" => loc'[Data(writer'[v].file)] = "none"
          /\ writer'[v].pc = "append" => loc'[Data(writer'[v].file)] # "none"
    BY <1>1, <1>2, <1>3, <1>4, <2>1 DEF IInv, WriterInv, CreateFile, At
  <2>3. \A v, u \in Workers : v # u /\ writer'[v].file = writer'[u].file
                                => writer'[v].file = NoFile
    BY <1>3 DEF IInv, WriterInv
  <2>4. \A g \in Files : g > names' => loc'[Data(g)] = "none"
    BY <1>1, <1>2, <1>4 DEF IInv, TypeOK, WriterInv, Files
  <2>5. \A g \in Files : loc'[Data(g)] = "none" => content'[g] = <<>>
    BY <1>1, <1>2, <1>4 DEF IInv, WriterInv
  <2> QED BY <2>2, <2>3, <2>4, <2>5 DEF WriterInv
<1>7. ReaderInv'
  <2>1. reader.pc # "choose" => reader.file # f
    BY <1>1 DEF IInv, ReaderInv
  <2>2. \A g \in Trackers : g # f
    BY <1>1 DEF IInv, ReaderInv
  <2> QED BY <1>2, <1>4, <1>5, <2>1, <2>2 DEF IInv, ReaderInv, Trackers
<1>8. PositionInv'
  BY <1>4, <1>5 DEF IInv, PositionInv, Handled
<1>9. TailInv'
  BY <1>1, <1>3, <1>4, TailFrame
<1>10. GoneInv' /\ WrittenInv' /\ TrackerNeverAhead'
  BY <1>1, <1>2, <1>4, <1>5, GoneFrame, WrittenFrame, TrackerFrame
<1>11. OneFileInProgress'
  BY <1>4, <1>5 DEF IInv, OneFileInProgress
<1> QED BY <1>6, <1>7, <1>8, <1>9, <1>10, <1>11 DEF IInv

\* Wherever the file went since it was opened, the line it gets is one that
\* will be read or one that counts as late.
LEMMA AppendLineInv ==
    ASSUME IInv, NEW w \in Workers, AppendLine(w), TypeOK'
    PROVE  IInv'
<1> DEFINE f == writer[w].file
           e == writer[w].esc
           n == Len(content[f])
<1>1. f \in Files /\ e \in Escalations /\ loc[Data(f)] # "none" /\ f # NoFile
  BY DEF IInv, WriterInv, AppendLine, At, Files, NoFile
<1>2. content[f] \in Seq(Escalations) /\ n \in Nat
  BY <1>1 DEF IInv, TypeOK
<1>3. /\ \A g \in Files \ {f} : content'[g] = content[g]
      /\ Len(content'[f]) = n + 1 /\ content'[f][n + 1] = e
      /\ \A i \in 1..n : content'[f][i] = content[f][i]
  BY <1>1, <1>2, SMTT(40) DEF IInv, TypeOK, AppendLine
<1>4. /\ writer'[w].pc = "idle" /\ writer'[w].file = f
      /\ \A v \in Workers \ {w} : writer'[v] = writer[v] /\ writer[v].file # f
  BY <1>1 DEF IInv, TypeOK, WriterInv, WriterStates, AppendLine, Becomes
<1>5. UNCHANGED <<names, loc, tracked, reader, outcome, purged>>
  BY DEF AppendLine, outsideWriter, nameVars
<1>6. late \subseteq late' /\ (FinishedWith(f) => e \in late')
  BY DEF AppendLine
<1>7. Trackers' = Trackers
  BY <1>5 DEF Trackers
<1>8. WriterInv'
  <2>1. \A v \in Workers :
          /\ writer'[v].file <= names'
          /\ writer'[v].pc # "idle" => writer'[v].esc \in Escalations
          /\ writer'[v].pc \in {"open", "create", "append"} => writer'[v].file \in Files
          /\ writer'[v].pc = "create" => loc'[Data(writer'[v].file)] = "none"
          /\ writer'[v].pc = "append" => loc'[Data(writer'[v].file)] # "none"
    BY <1>4, <1>5 DEF IInv, WriterInv
  <2>2. \A v, u \in Workers : v # u /\ writer'[v].file = writer'[u].file
                                => writer'[v].file = NoFile
    BY <1>4 DEF IInv, WriterInv
  <2>3. \A g \in Files : loc'[Data(g)] = "none" => content'[g] = <<>>
    BY <1>1, <1>3, <1>5 DEF IInv, WriterInv
  <2> QED BY <1>5, <2>1, <2>2, <2>3 DEF IInv, WriterInv
<1>9. ReaderInv' /\ OneFileInProgress'
  BY <1>5, <1>7 DEF IInv, ReaderInv, OneFileInProgress
<1>10. PositionInv'
  <2>1. CASE reader.file = f
    <3> SUFFICES ASSUME reader.pc \in Iterating \cup {"unlinkData"}
                 PROVE  /\ reader.pos <= n + 1
                        /\ \A i \in 1..reader.pos :
                              i < reader.pos \/ reader.pc \notin Undecided
                                 => Handled(content[reader.file][i])'
                        /\ f \in Trackers => tracked[f] =
                              IF reader.pc \in Undecided \cup Settled
                              THEN reader.pos - 1 ELSE reader.pos
      BY <1>3, <1>5, <1>7, <2>1 DEF PositionInv, Handled
    <3>1. reader.pos \in Nat /\ reader.pos <= n
      BY <2>1 DEF IInv, TypeOK, PositionInv, ReaderStates
    <3>2. ASSUME NEW i \in 1..reader.pos, i < reader.pos \/ reader.pc \notin Undecided
          PROVE  Handled(content[f][i]) /\ content'[f][i] = content[f][i]
      BY <1>2, <1>3, <2>1, <3>1, <3>2 DEF IInv, PositionInv
    <3>3. f \in Trackers => tracked[f] = IF reader.pc \in Undecided \cup Settled
                                        THEN reader.pos - 1 ELSE reader.pos
      BY <2>1 DEF IInv, PositionInv
    <3> QED BY <1>2, <1>5, <2>1, <3>1, <3>2, <3>3 DEF Handled
  <2>2. CASE reader.file # f
    <3>1. reader.pc # "choose" => content'[reader.file] = content[reader.file]
      BY <1>3, <2>2 DEF IInv, ReaderInv
    <3> QED BY <1>5, <1>7, <3>1 DEF IInv, PositionInv, Iterating, Undecided, Settled, Handled
  <2> QED BY <2>1, <2>2
<1>11. TailInv'
  <2>1. CASE reader.file = f
    <3>1. reader.pc = "sleep" => n = reader.pos
      BY <2>1 DEF IInv, TailInv, AppendLine, At
    <3>2. reader.pc = "sleep" =>
            /\ Len(content'[f]) <= reader.pos + 1
            /\ ~ \E v \in Workers : writer'[v].pc = "append" /\ writer'[v].file = f
      BY <1>2, <1>3, <1>4, <3>1
    <3>3. ASSUME reader.pc = "unlinkData" \/ (reader.last = "yes" /\ reader.pc # "unlinkTracker"),
                 NEW i \in 1..Len(content'[f]), i > reader.pos
          PROVE  content'[f][i] \in late'
      <4>1. CASE i = n + 1
        BY <1>3, <1>6, <2>1, <3>3, <4>1 DEF FinishedWith
      <4>2. CASE i \in 1..n
        BY <1>3, <1>6, <2>1, <3>3, <4>2 DEF IInv, TailInv
      <4> QED BY <1>2, <1>3, <4>1, <4>2, SMTT(40)
    <3> QED BY <1>5, <2>1, <3>2, <3>3 DEF TailInv
  <2>2. CASE reader.file # f
    <3>1. reader.pc # "choose" => content'[reader.file] = content[reader.file]
      BY <1>3, <2>2 DEF IInv, ReaderInv
    <3>2. reader.last = "yes" => reader.pc # "choose"
      BY DEF IInv, ReaderInv, Undecided, Settled
    <3>3. \A v \in Workers : writer'[v].pc = "append" => writer'[v] = writer[v]
      BY <1>4
    <3> QED BY <1>5, <1>6, <3>1, <3>2, <3>3 DEF IInv, TailInv
  <2> QED BY <2>1, <2>2
<1>12. GoneInv'
  <2> SUFFICES ASSUME NEW g \in Files, loc'[Data(g)] = "gone", NEW i \in 1..Len(content'[g])
               PROVE  Accounted(content[g][i])'
    BY DEF GoneInv
  <2>1. CASE g = f /\ i = n + 1
    BY <1>3, <1>5, <1>6, <2>1 DEF FinishedWith, Accounted
  <2>2. CASE g # f \/ i \in 1..n
    <3>1. content'[g][i] = content[g][i] /\ i \in 1..Len(content[g])
      BY <1>2, <1>3, <2>2
    <3>2. Accounted(content[g][i])
      BY <1>5, <3>1 DEF IInv, GoneInv
    <3> QED BY <1>5, <1>6, <3>1, <3>2 DEF Accounted, Handled
  <2> QED BY <1>2, <1>3, <2>1, <2>2
<1>13. WrittenInv'
  <2> SUFFICES ASSUME NEW x \in written'
               PROVE  \E g \in Files : \E i \in 1..Len(content'[g]) : content'[g][i] = x
    BY DEF WrittenInv
  <2>1. CASE x = e
    BY <1>1, <1>2, <1>3, <2>1
  <2>2. CASE x \in written
    <3>1. PICK g \in Files : \E i \in 1..Len(content[g]) : content[g][i] = x
      BY <2>2 DEF IInv, WrittenInv
    <3>2. PICK i \in 1..Len(content[g]) : content[g][i] = x
      BY <3>1
    <3>3. i \in 1..Len(content'[g]) /\ content'[g][i] = x
      BY <1>2, <1>3, <3>2
    <3> QED BY <3>3
  <2> QED BY <2>1, <2>2 DEF AppendLine
<1>14. TrackerNeverAhead'
  <2> SUFFICES ASSUME NEW g \in Trackers, NEW i \in 1..tracked[g]
               PROVE  i \in DOMAIN content'[g] /\ Handled(content[g][i])'
    BY <1>5, <1>7 DEF TrackerNeverAhead
  <2>1. i \in DOMAIN content[g] /\ Handled(content[g][i]) /\ g \in Files
    BY DEF IInv, TrackerNeverAhead, Trackers
  <2>2. content[g] \in Seq(Escalations) /\ content'[g] \in Seq(Escalations)
    BY <2>1 DEF IInv, TypeOK
  <2>3. i \in 1..Len(content'[g]) /\ content'[g][i] = content[g][i]
    BY <1>2, <1>3, <2>1, <2>2, SMTT(40)
  <2> QED BY <1>5, <2>1, <2>2, <2>3 DEF Handled
<1> QED BY <1>8, <1>9, <1>10, <1>11, <1>12, <1>13, <1>14 DEF IInv

\* Every step of a worker keeps the invariant.
LEMMA WorkerInv ==
    ASSUME IInv, NEW w \in Workers, WorkerStep(w) \/ WorkerFault(w)
    PROVE  IInv'
<1>1. TypeOK'
  BY WorkerType DEF IInv
<1>2. writer[w] \in WriterStates /\ (writer[w].file \in Files \/ writer[w].file = NoFile)
  BY DEF IInv, TypeOK, WriterStates
<1>3. FilesStay \/ CreateFile(w)
  <2>1. ASSUME NEW x \in Escalations, PutImage(x) PROVE FilesStay
    BY <2>1, EntryFacts DEF IInv, TypeOK, PutImage, FilesStay
  <2>2. writer[w].pc # "idle" => writer[w].esc \in Escalations
    BY DEF IInv, WriterInv
  <2>3. UNCHANGED loc => FilesStay
    BY DEF FilesStay
  <2> QED BY <2>1, <2>2, <2>3 DEF WorkerStep, WorkerFault, TakeTimestamp, WriteImage,
             ChooseFile, OpenExisting, AppendLine, WriteImageFails, WriteFails, WorkerCrash,
             diskVars, At
<1>4. CASE \E e \in Escalations : TakeTimestamp(w, e)
  <2>1. PICK e \in Escalations : TakeTimestamp(w, e)
    BY <1>4
  <2> DEFINE s == [writer[w] EXCEPT !.pc = "image", !.esc = e]
  <2>2. s \in WriterStates /\ s.pc = "image" /\ s.esc = e /\ s.file = writer[w].file
    BY <1>2 DEF WriterStates, WriterPCs
  <2>3. /\ Becomes(w, s) /\ FilesStay
        /\ UNCHANGED <<names, content, tracked, reader, outcome, late, purged, written>>
    BY <2>1 DEF TakeTimestamp, outsideWriter, nameVars, diskVars, FilesStay
  <2>4. WriterInv'
    BY <2>2, <2>3, SameName DEF FilesStay
  <2> QED BY <1>1, <2>2, <2>3, <2>4, WorkerMoves
<1>5. CASE WriteImage(w)
  <2> DEFINE s == [writer[w] EXCEPT !.pc = "choose"]
  <2>1. s \in WriterStates /\ s.pc = "choose" /\ s.esc \in Escalations /\ s.file = writer[w].file
    BY <1>2, <1>5 DEF IInv, WriterInv, WriterStates, WriterPCs, WriteImage, At
  <2>2. /\ Becomes(w, s) /\ FilesStay
        /\ UNCHANGED <<names, content, tracked, reader, outcome, late, purged, written>>
    BY <1>3, <1>5 DEF WriteImage, CreateFile, At, Goto, outsideWriter, nameVars
  <2>3. WriterInv'
    BY <2>1, <2>2, SameName DEF FilesStay
  <2> QED BY <1>1, <2>1, <2>2, <2>3, WorkerMoves
<1>6. CASE ChooseFile(w) \/ OpenExisting(w)
  <2>1. /\ FilesStay /\ writer[w].pc # "idle"
        /\ UNCHANGED <<loc, content, tracked, reader, outcome, late, purged, written>>
    BY <1>6 DEF ChooseFile, OpenExisting, At, outsideWriter, diskVars, FilesStay
  <2>2. CASE ResetToNewFile(w)
    <3> DEFINE s == [writer[w] EXCEPT !.pc = "create", !.file = names + 1, !.lines = 0]
    <3>1. names + 1 \in Files
      BY <2>2, QueueAssumption DEF IInv, TypeOK, ResetToNewFile, Files
    <3>2. s \in WriterStates /\ s.pc = "create" /\ Becomes(w, s)
      BY <1>2, <2>2, <3>1 DEF ResetToNewFile, WriterStates, WriterPCs
    <3>3. WriterInv'
      BY <2>1, <2>2, NewName
    <3> QED BY <1>1, <2>1, <3>2, <3>3, WorkerMoves
  <2>3. CASE ChooseFile(w) /\ ~ResetToNewFile(w)
    <3> DEFINE s == [writer[w] EXCEPT !.pc = "open"]
    <3>1. writer[w].file \in Files /\ Becomes(w, s) /\ UNCHANGED names
      BY <1>2, <2>3 DEF ChooseFile, NeedsNewFile, Goto, nameVars
    <3>2. s \in WriterStates /\ s.pc = "open" /\ s.esc \in Escalations /\ s.file = writer[w].file
      BY <1>2, <2>1 DEF IInv, WriterInv, WriterStates, WriterPCs
    <3>3. WriterInv'
      BY <2>1, <3>1, <3>2, SameName DEF FilesStay
    <3> QED BY <1>1, <2>1, <3>1, <3>2, <3>3, WorkerMoves
  <2>4. CASE OpenExisting(w) /\ ~ResetToNewFile(w)
    <3> DEFINE s == [writer[w] EXCEPT !.pc = "append"]
    <3>1. /\ loc[Data(writer[w].file)] = "writing" /\ Becomes(w, s) /\ UNCHANGED names
          /\ writer[w].file \in Files
      BY <2>4 DEF IInv, WriterInv, OpenExisting, Goto, nameVars, At
    <3>2. s \in WriterStates /\ s.pc = "append" /\ s.esc \in Escalations /\ s.file = writer[w].file
      BY <1>2, <2>1 DEF IInv, WriterInv, WriterStates, WriterPCs
    <3>3. WriterInv'
      BY <2>1, <3>1, <3>2, SameName DEF FilesStay
    <3> QED BY <1>1, <2>1, <3>1, <3>2, <3>3, WorkerMoves
  <2> QED BY <1>6, <2>2, <2>3, <2>4
<1>7. CASE CreateFile(w)
  BY <1>1, <1>7, CreateFileInv
<1>8. CASE AppendLine(w)
  BY <1>1, <1>8, AppendLineInv
<1>9. CASE WriteImageFails(w) \/ WriteFails(w)
  <2> DEFINE s == [writer[w] EXCEPT !.pc = "idle", !.esc = NoEscalation]
  <2>1. s \in WriterStates /\ s.pc = "idle" /\ s.file = writer[w].file
    BY <1>2 DEF WriterStates, WriterPCs
  <2>2. FilesStay
    <3>1. CASE WriteImageFails(w)
      BY <1>3, <3>1 DEF WriteImageFails, CreateFile, At
    <3>2. CASE WriteFails(w)
      BY <3>2 DEF WriteFails, FilesStay, diskVars
    <3> QED BY <1>9, <3>1, <3>2
  <2>3. /\ Becomes(w, s)
        /\ UNCHANGED <<names, content, tracked, reader, outcome, late, purged, written>>
    BY <1>9 DEF WriteImageFails, WriteFails, Done, outsideWriter, nameVars
  <2>4. WriterInv'
    BY <2>1, <2>2, <2>3, SameName DEF FilesStay
  <2> QED BY <1>1, <2>1, <2>2, <2>3, <2>4, WorkerMoves
<1>10. CASE WorkerCrash(w)
  <2> DEFINE s == [pc |-> "idle", esc |-> NoEscalation, file |-> NoFile, lines |-> 0]
  <2>1. s \in WriterStates
    BY DEF WriterStates, WriterPCs
  <2>2. /\ Becomes(w, s) /\ FilesStay
        /\ UNCHANGED <<names, content, tracked, reader, outcome, late, purged, written>>
    BY <1>10 DEF WorkerCrash, outsideWriter, nameVars, diskVars, FilesStay
  <2>3. WriterInv'
    BY <2>1, <2>2, SameName DEF FilesStay
  <2> QED BY <1>1, <2>1, <2>2, <2>3, WorkerMoves
<1> QED BY <1>4, <1>5, <1>6, <1>7, <1>8, <1>9, <1>10 DEF WorkerStep, WorkerFault

-----------------------------------------------------------------------------
(* The consumer. *)

\* What the consumer does to the queue: it moves on within a line, and a line
\* that it has settled has an outcome.
LEMMA ConsumerMoves ==
    ASSUME IInv, NEW pc \in Undecided \cup Settled, ReaderGoto(pc),
           reader.pc \in Undecided \cup Settled, reader.pc \in Settled => pc \in Settled,
           pc \in Settled => Handled(content[reader.file][reader.pos])',
           StaysHandled, FilesStay, TypeOK',
           UNCHANGED <<writer, names, content, tracked, late, purged, written>>
    PROVE  IInv'
<1>1. /\ reader'.pc = pc /\ reader'.file = reader.file /\ reader'.pos = reader.pos
      /\ reader'.last = reader.last
  BY DEF IInv, TypeOK, ReaderStates, ReaderGoto
<1>2. /\ reader.pc \notin {"choose", "rename", "sleep", "unlinkData", "unlinkTracker"}
      /\ pc \notin {"choose", "rename", "sleep", "unlinkData", "unlinkTracker"}
      /\ reader.pc \in Iterating /\ pc \in Iterating
  BY DEF Undecided, Settled, Iterating
<1>3. Trackers' = Trackers
  BY DEF Trackers, FilesStay
<1>4. WriterInv'
  BY WriterFrame DEF FilesStay
<1>5. ReaderInv'
  BY <1>1, <1>2, <1>3 DEF IInv, ReaderInv, FilesStay, Trackers
<1>6. PositionInv'
  <2> DEFINE f == reader.file
  <2>1. f \in Files /\ reader.pos \in Nat /\ reader.pos >= 1 /\ reader.pos <= Len(content[f])
    BY <1>2 DEF IInv, TypeOK, ReaderStates, ReaderInv, PositionInv
  <2>2. \A i \in 1..Len(content[f]) : content[f][i] \in Escalations
    BY <2>1 DEF IInv, TypeOK
  <2>3. ASSUME NEW i \in 1..reader.pos, i < reader.pos \/ pc \notin Undecided
        PROVE  Handled(content[f][i])'
    <3>1. CASE i < reader.pos
      <4>1. Handled(content[f][i]) /\ content[f][i] \in Escalations
        BY <1>2, <2>1, <2>2, <3>1 DEF IInv, PositionInv
      <4> QED BY <1>1, <4>1 DEF StaysHandled, Handled
    <3>2. CASE i = reader.pos
      BY <1>1, <2>1, <2>3, <3>2 DEF Handled
    <3> QED BY <2>1, <3>1, <3>2
  <2>4. f \in Trackers => tracked[f] = reader.pos - 1
    BY <1>2 DEF IInv, PositionInv
  <2> QED BY <1>1, <1>2, <1>3, <2>1, <2>3, <2>4 DEF PositionInv
<1>7. TailInv'
  BY <1>1, <1>2 DEF IInv, TailInv
<1>8. GoneInv' /\ WrittenInv' /\ TrackerNeverAhead'
  BY GoneFrame, WrittenFrame, TrackerFrame DEF FilesStay
<1>9. OneFileInProgress'
  BY <1>1, <1>2, <1>3 DEF IInv, OneFileInProgress
<1> QED BY <1>4, <1>5, <1>6, <1>7, <1>8, <1>9 DEF IInv

\* Every step of the consumer keeps the invariant.
LEMMA ConsumerInv ==
    ASSUME IInv, ConsumerStep
    PROVE  IInv'
<1>1. TypeOK'
  BY ConsumerType DEF IInv
<1>2. /\ reader.pc \in Undecided \cup Settled
      /\ UNCHANGED <<writer, names, content, tracked, late, purged, written>>
  BY DEF ConsumerStep, CheckCache, SubmitAccepted, SubmitRetryable, SubmitReplyLost, RetryWait,
         SubmitFails, HandleFailure, CacheRequest, UnlinkImage, ReaderAt, outsideConsumer,
         nameVars, Undecided, Settled
<1>3. Line \in Escalations /\ reader.pos \in Nat /\ reader.pos >= 1
  BY <1>2, LineType DEF IInv, TypeOK, ReaderStates, ReaderInv
<1>4. \A o : Result(o) => StaysHandled /\ outcome'[Line] # {}
  BY <1>3 DEF IInv, TypeOK, Result, StaysHandled, Handled
<1>5. UNCHANGED outcome => StaysHandled
  BY DEF StaysHandled, Handled
<1>6. \A pc \in Settled : ReaderGoto(pc) /\ outcome'[Line] # {}
                             => Handled(content[reader.file][reader.pos])'
  <2>1. \A pc \in Settled : ReaderGoto(pc)
            => reader'.file = reader.file /\ reader'.pos = reader.pos
    BY DEF IInv, TypeOK, ReaderStates, ReaderGoto
  <2> QED BY <1>2, <2>1 DEF Handled, Line
<1>7. reader.pc \in Settled => Handled(Line)
  <2>1. reader.pc \in Settled => reader.pc \in Iterating /\ reader.pc \notin Undecided
    BY DEF Iterating, Settled, Undecided
  <2> QED BY <1>3, <2>1 DEF IInv, PositionInv, Line
<1>8. UNCHANGED loc => FilesStay
  BY DEF FilesStay
<1>9. CASE CheckCache
  <2>1. CASE Result("skipped") /\ ReaderGoto("cache")
    BY <1>1, <1>2, <1>4, <1>6, <1>8, <1>9, <2>1, ConsumerMoves DEF CheckCache, Settled
  <2>2. CASE UNCHANGED outcome /\ ReaderGoto("submit")
    BY <1>1, <1>2, <1>5, <1>8, <1>9, <2>2, ConsumerMoves DEF CheckCache, ReaderAt, Undecided, Settled
  <2> QED BY <1>9, <2>1, <2>2 DEF CheckCache
<1>10. CASE SubmitAccepted
  BY <1>1, <1>2, <1>4, <1>6, <1>8, <1>10, ConsumerMoves DEF SubmitAccepted, Settled
<1>11. CASE SubmitRetryable \/ SubmitReplyLost
  BY <1>1, <1>2, <1>5, <1>8, <1>11, ConsumerMoves
     DEF SubmitRetryable, SubmitReplyLost, ReaderAt, Undecided, Settled
<1>12. CASE RetryWait
  BY <1>1, <1>2, <1>5, <1>8, <1>12, ConsumerMoves DEF RetryWait, ReaderAt, Undecided, Settled
<1>13. CASE SubmitFails
  BY <1>1, <1>2, <1>5, <1>8, <1>13, ConsumerMoves DEF SubmitFails, ReaderAt, Undecided, Settled
<1>14. CASE HandleFailure
  <2>1. StaysHandled /\ outcome'[Line] # {}
    BY <1>4, <1>14 DEF HandleFailure
  <2> QED BY <1>1, <1>2, <1>6, <1>8, <1>14, <2>1, ConsumerMoves DEF HandleFailure, Settled
<1>15. CASE CacheRequest
  <2>1. outcome'[Line] # {}
    BY <1>7, <1>15 DEF CacheRequest, ReaderAt, Settled, Handled
  <2> QED BY <1>1, <1>2, <1>5, <1>6, <1>8, <1>15, <2>1, ConsumerMoves DEF CacheRequest, Settled
<1>16. CASE UnlinkImage
  <2>1. outcome'[Line] # {}
    BY <1>7, <1>16 DEF UnlinkImage, ReaderAt, Settled, Handled
  <2>2. FilesStay
    <3>1. loc' = [loc EXCEPT ![Image(Line)] = "gone"] \/ loc' = loc
      BY <1>16 DEF UnlinkImage, UnlinkIfPresent, Unlink
    <3>2. \A f \in Files : Data(f) \in Entries /\ Tracker(f) \in Entries
      BY EntryFacts
    <3>3. \A f \in Files : Data(f) # Image(Line) /\ Tracker(f) # Image(Line)
      BY DEF Data, Tracker, Image
    <3>4. loc \in [Entries -> Dirs \cup {"none", "gone"}]
      BY DEF IInv, TypeOK
    <3> QED BY <3>1, <3>2, <3>3, <3>4 DEF FilesStay
  <2> QED BY <1>1, <1>2, <1>5, <1>6, <1>16, <2>1, <2>2, ConsumerMoves DEF UnlinkImage, Settled
<1> QED BY <1>9, <1>10, <1>11, <1>12, <1>13, <1>14, <1>15, <1>16 DEF ConsumerStep

-----------------------------------------------------------------------------
(* The retention job. *)

\* Every step of the retention job keeps the invariant: the lines it removes
\* are purged, and a tracking file it removes only makes the reader start over.
LEMMA SweepInv ==
    ASSUME IInv, SweepStep
    PROVE  IInv'
<1>1. TypeOK'
  BY SweepType DEF IInv
<1>2. UNCHANGED <<writer, names, content, tracked, reader, outcome, late, written>>
  BY DEF SweepStep, SweepStart, SweepStat, SweepUnlink, SweepNextDir, outsideSweep, nameVars
<1>3. StaysHandled
  BY <1>2 DEF StaysHandled, Handled
<1>4. CASE UNCHANGED <<loc, purged>>
  <2>1. FilesStay
    BY <1>4 DEF FilesStay
  <2>2. WriterInv' /\ TailInv'
    BY <1>2, <2>1, WriterFrame DEF IInv, TailInv, FilesStay
  <2> QED BY <1>1, <1>2, <1>4, <2>1, <2>2, ReaderSideFrame DEF IInv
<1>5. CASE SweepUnlink /\ loc[sweep.victim] = sweep.dir
  <2> DEFINE x == sweep.victim
  <2>1. x \in Entries /\ loc[x] \in Dirs /\ loc' = [loc EXCEPT ![x] = "gone"]
    BY <1>5 DEF IInv, TypeOK, SweepStates, SweepUnlink, Dirs
  <2>2. \A y \in Entries : loc'[y] = IF y = x THEN "gone" ELSE loc[y]
    BY <2>1 DEF IInv, TypeOK
  <2>3. \A f \in Files : loc'[Tracker(f)] = "reading" => loc[Tracker(f)] = "reading"
    BY <2>2, EntryFacts
  <2>4. \A f \in Files : loc'[Data(f)] = loc[Data(f)]
                         \/ (loc'[Data(f)] = "gone" /\ loc[Data(f)] \in Dirs /\ x = Data(f))
    BY <2>1, <2>2, EntryFacts
  <2>5. Trackers' \subseteq Trackers
    BY <2>3 DEF Trackers
  <2>6. WriterInv'
    BY <1>2, <2>4, WriterFrame DEF Dirs
  <2>7. ReaderInv'
    BY <1>2, <2>4, <2>5 DEF IInv, ReaderInv, Trackers
  <2>8. PositionInv' /\ OneFileInProgress'
    BY <1>2, <2>5 DEF IInv, PositionInv, OneFileInProgress, Handled
  <2>9. TailInv' /\ WrittenInv' /\ TrackerNeverAhead'
    BY <1>2, <1>3, <2>3, WrittenFrame, TrackerFrame DEF IInv, TailInv
  <2>10. GoneInv'
    <3> SUFFICES ASSUME NEW f \in Files, loc'[Data(f)] = "gone", NEW i \in 1..Len(content[f])
                 PROVE  Accounted(content[f][i])'
      BY <1>2 DEF GoneInv
    <3>1. content[f][i] \in Escalations /\ i \in DOMAIN content[f]
      BY DEF IInv, TypeOK
    <3>2. CASE loc[Data(f)] = "gone"
      <4>1. Accounted(content[f][i])
        BY <3>2 DEF IInv, GoneInv
      <4> QED BY <1>2, <1>5, <4>1 DEF Accounted, Handled, SweepUnlink
    <3>3. CASE x = Data(f)
      <4>1. content[f][i] \in purged'
        BY <1>5, <3>1, <3>3 DEF SweepUnlink
      <4> QED BY <1>2, <4>1 DEF Accounted
    <3> QED BY <2>4, <3>2, <3>3
  <2> QED BY <1>1, <2>6, <2>7, <2>8, <2>9, <2>10 DEF IInv
<1> QED BY <1>4, <1>5 DEF SweepStep, SweepStart, SweepStat, SweepUnlink, SweepNextDir

-----------------------------------------------------------------------------
(* The reader. *)

\* The reader touches no queue file's contents, nor what the workers hold.
LEMMA OutsideReader ==
    ASSUME ReaderStep \/ ReaderCrash
    PROVE  /\ UNCHANGED <<writer, names, content, outcome, late, purged, written>>
           /\ StaysHandled
<1>1. UNCHANGED outsideReader
  BY DEF ReaderStep, ReaderCrash, ChooseTracked, ChooseOldest, RenameFile, CheckDataExists,
         OpenFiles, CountTracked, ReadLine, FinalRead, TrackLine, UnlinkData, UnlinkTracker
<1> QED BY <1>1 DEF outsideReader, nameVars, StaysHandled, Handled

\* Letting go of the file in hand is always safe.
LEMMA ReaderResets ==
    ASSUME IInv, TypeOK', ReaderStep \/ ReaderCrash, ReaderReset, UNCHANGED tracked,
           \A f \in Files : /\ loc'[Data(f)] = loc[Data(f)]
                            /\ loc'[Tracker(f)] = "reading" => loc[Tracker(f)] = "reading"
    PROVE  IInv'
<1>1. /\ UNCHANGED <<writer, names, content, outcome, late, purged, written>>
      /\ StaysHandled
  BY OutsideReader
<1>2. reader'.pc = "choose" /\ reader'.file = NoFile /\ reader'.last = "no"
  BY DEF ReaderReset
<1>3. Trackers' \subseteq Trackers
  BY DEF Trackers
<1>4. WriterInv'
  BY <1>1, WriterFrame
<1>5. ReaderInv'
  BY <1>2, <1>3 DEF IInv, ReaderInv, Trackers, Undecided, Settled
<1>6. PositionInv' /\ TailInv' /\ OneFileInProgress'
  BY <1>2, <1>3 DEF IInv, PositionInv, TailInv, OneFileInProgress, Iterating, Undecided, Settled
<1>7. GoneInv' /\ WrittenInv' /\ TrackerNeverAhead'
  BY <1>1, GoneFrame, WrittenFrame, TrackerFrame
<1> QED BY <1>4, <1>5, <1>6, <1>7 DEF IInv

\* Before the reader counts the tracked lines it claims nothing about them.
LEMMA ReaderApproaches ==
    ASSUME IInv, TypeOK', ReaderStep, NEW pc \in {"rename", "exists", "open"},
           NEW f \in Files, reader'.pc = pc, reader'.file = f, reader'.last = reader.last,
           reader.last = "no",
           UNCHANGED tracked,
           \A g \in Files : loc'[Tracker(g)] = loc[Tracker(g)],
           \A g \in Files : loc'[Data(g)] = loc[Data(g)]
                            \/ (loc[Data(g)] = "writing" /\ loc'[Data(g)] = "reading"),
           pc = "rename" => loc'[Data(f)] \in {"writing", "gone"},
           pc # "rename" => loc'[Data(f)] \in {"reading", "gone"},
           Trackers \subseteq {f}
    PROVE  IInv'
<1>1. /\ UNCHANGED <<writer, names, content, outcome, late, purged, written>>
      /\ StaysHandled
  BY OutsideReader
<1>2. Trackers' = Trackers
  BY DEF Trackers
<1>3. WriterInv'
  BY <1>1, WriterFrame
<1>4. ReaderInv'
  BY <1>2 DEF IInv, ReaderInv, Trackers, Undecided, Settled
<1>5. PositionInv' /\ TailInv'
  BY DEF PositionInv, TailInv, Iterating, Undecided, Settled
<1>6. GoneInv' /\ WrittenInv' /\ TrackerNeverAhead'
  BY <1>1, GoneFrame, WrittenFrame, TrackerFrame
<1>7. OneFileInProgress'
  BY <1>2 DEF IInv, OneFileInProgress
<1> QED BY <1>3, <1>4, <1>5, <1>6, <1>7 DEF IInv

\* _choose_new_file settles on the file in progress, or on a new one if none is.
LEMMA ChooseInv ==
    ASSUME IInv, TypeOK', ChooseTracked \/ ChooseOldest
    PROVE  IInv'
<1>1. ReaderStep /\ UNCHANGED <<loc, tracked>>
  BY DEF ReaderStep, ChooseTracked, ChooseOldest, diskVars
<1>2. reader.last = "no"
  BY DEF IInv, TypeOK, ReaderStates, ReaderInv, ChooseTracked, ChooseOldest, ReaderAt, Undecided, Settled
<1>3. CASE ChooseTracked
  <2>1. PICK f \in Trackers : reader' = [reader EXCEPT !.pc = "exists", !.file = f]
    BY <1>3 DEF ChooseTracked
  <2>2. f \in Files /\ Trackers \subseteq {f} /\ loc[Data(f)] \in {"reading", "gone"}
    BY DEF IInv, OneFileInProgress, ReaderInv, Trackers
  <2>3. reader'.pc = "exists" /\ reader'.file = f /\ reader'.last = reader.last
    BY <2>1 DEF IInv, TypeOK, ReaderStates
  <2> QED BY <1>1, <1>2, <2>2, <2>3, ReaderApproaches
<1>4. CASE ChooseOldest
  <2>1. PICK f \in WritingFiles : reader' = [reader EXCEPT !.pc = "rename", !.file = f]
    BY <1>4 DEF ChooseOldest
  <2>2. f \in Files /\ Trackers \subseteq {f} /\ loc[Data(f)] = "writing"
    BY <1>4 DEF ChooseOldest, WritingFiles
  <2>3. reader'.pc = "rename" /\ reader'.file = f /\ reader'.last = reader.last
    BY <2>1 DEF IInv, TypeOK, ReaderStates
  <2> QED BY <1>1, <1>2, <2>2, <2>3, ReaderApproaches
<1> QED BY <1>3, <1>4

\* The rename and the check that the data file exists.
LEMMA ApproachInv ==
    ASSUME IInv, TypeOK', RenameFile \/ CheckDataExists
    PROVE  IInv'
<1> DEFINE f == reader.file
<1>1. ReaderStep /\ UNCHANGED tracked
  BY DEF ReaderStep, RenameFile, CheckDataExists
<1>2. reader.last = "no" /\ f \in Files /\ Trackers \subseteq {f}
  BY DEF IInv, TypeOK, ReaderStates, ReaderInv, OneFileInProgress, RenameFile, CheckDataExists,
         ReaderAt, Undecided, Settled
<1>3. \A pc : ReaderGoto(pc) => /\ reader'.pc = pc /\ reader'.file = f
                                /\ reader'.last = reader.last
  BY DEF IInv, TypeOK, ReaderStates, ReaderGoto
<1>4. CASE RenameFile /\ loc[Data(f)] = "writing"
  <2>1. /\ loc'[Data(f)] = "reading"
        /\ \A g \in Files : loc'[Tracker(g)] = loc[Tracker(g)]
        /\ \A g \in Files \ {f} : loc'[Data(g)] = loc[Data(g)]
    BY <1>2, <1>4, EntryFacts DEF IInv, TypeOK, RenameFile
  <2>2. ReaderGoto("exists")
    BY <1>4 DEF RenameFile
  <2> QED BY <1>1, <1>2, <1>3, <1>4, <2>1, <2>2, ReaderApproaches
<1>5. CASE RenameFile /\ loc[Data(f)] # "writing"
  BY <1>1, <1>5, ReaderResets DEF RenameFile
<1>6. CASE CheckDataExists /\ loc[Data(f)] = "reading"
  BY <1>1, <1>2, <1>3, <1>6, ReaderApproaches DEF CheckDataExists
<1>7. CASE CheckDataExists /\ loc[Data(f)] # "reading"
  <2>1. \A g \in Files : /\ loc'[Data(g)] = loc[Data(g)]
                         /\ loc'[Tracker(g)] = "reading" => loc[Tracker(g)] = "reading"
    BY <1>2, <1>7, EntryFacts DEF IInv, TypeOK, CheckDataExists, UnlinkIfPresent, Unlink
  <2> QED BY <1>1, <1>7, <2>1, ReaderResets DEF CheckDataExists
<1> QED BY <1>4, <1>5, <1>6, <1>7

\* Opening creates an empty tracking file, which claims nothing.
LEMMA OpenFilesInv ==
    ASSUME IInv, TypeOK', OpenFiles
    PROVE  IInv'
<1> DEFINE f == reader.file
<1>1. /\ ReaderStep
      /\ UNCHANGED <<writer, names, content, outcome, late, purged, written>>
      /\ StaysHandled
  BY OutsideReader DEF ReaderStep
<1>2. f \in Files /\ Trackers \subseteq {f} /\ reader.last = "no"
  BY DEF IInv, TypeOK, ReaderStates, ReaderInv, OneFileInProgress, OpenFiles, ReaderAt, Undecided, Settled
<1>3. CASE loc[Data(f)] # "reading"
  BY <1>1, <1>3, ReaderResets DEF OpenFiles, diskVars
<1>4. CASE loc[Data(f)] = "reading"
  <2>1. reader'.pc = "count" /\ reader'.file = f /\ reader'.last = "no"
    BY <1>2, <1>4 DEF IInv, TypeOK, ReaderStates, OpenFiles, ReaderGoto
  <2>2. \A g \in Files : loc'[Data(g)] = loc[Data(g)]
    BY <1>2, EntryFacts DEF IInv, TypeOK, OpenFiles, diskVars
  <2>3. Trackers' \subseteq {f}
    BY <1>2, EntryFacts DEF IInv, TypeOK, OpenFiles, diskVars, Trackers
  <2>4. f \notin Trackers => tracked'[f] = 0
    BY <1>2, <1>4 DEF IInv, TypeOK, OpenFiles
  <2>5. f \in Trackers => UNCHANGED <<loc, tracked>>
    BY <1>4 DEF OpenFiles, diskVars
  <2>6. WriterInv' /\ GoneInv' /\ WrittenInv'
    BY <1>1, <2>2, WriterFrame, GoneFrame, WrittenFrame
  <2>7. ReaderInv'
    BY <1>2, <1>4, <2>1, <2>2, <2>3 DEF IInv, ReaderInv, Undecided, Settled
  <2>8. PositionInv' /\ TailInv' /\ OneFileInProgress'
    BY <2>1, <2>3 DEF PositionInv, TailInv, OneFileInProgress, Iterating, Undecided, Settled
  <2>9. TrackerNeverAhead'
    <3>1. CASE f \in Trackers
      BY <1>1, <2>5, <3>1, TrackerFrame
    <3>2. CASE f \notin Trackers
      BY <2>3, <2>4, <3>2 DEF TrackerNeverAhead
    <3> QED BY <3>1, <3>2
  <2> QED BY <2>6, <2>7, <2>8, <2>9 DEF IInv
<1> QED BY <1>3, <1>4

\* From here on the reader is at a definite line: a step that moves no file and
\* leaves the tracking file alone only has to get the position right.
LEMMA ReaderMovesOn ==
    ASSUME IInv, TypeOK', ReaderStep, UNCHANGED <<loc, tracked>>,
           reader'.file = reader.file, reader.pc \notin {"choose", "rename", "unlinkTracker"},
           reader'.pc \notin {"choose", "rename", "unlinkTracker"},
           reader'.pc \in Undecided \cup Settled => reader'.pos >= 1,
           reader'.last = "yes" => reader'.pc \in Undecided \cup Settled \cup {"unlinkData"},
           PositionInv', TailInv'
    PROVE  IInv'
<1>1. /\ UNCHANGED <<writer, names, content, outcome, late, purged, written>>
      /\ StaysHandled
  BY OutsideReader
<1>2. Trackers' = Trackers
  BY DEF Trackers
<1>3. WriterInv' /\ GoneInv' /\ WrittenInv' /\ TrackerNeverAhead'
  BY <1>1, WriterFrame, GoneFrame, WrittenFrame, TrackerFrame
<1>4. ReaderInv'
  BY <1>2 DEF IInv, ReaderInv
<1>5. OneFileInProgress'
  BY <1>2 DEF IInv, OneFileInProgress
<1> QED BY <1>3, <1>4, <1>5 DEF IInv

\* Skipping as many lines as were counted skips only settled ones.
LEMMA CountTrackedInv ==
    ASSUME IInv, TypeOK', CountTracked
    PROVE  IInv'
<1> DEFINE f == reader.file
<1>1. /\ ReaderStep /\ UNCHANGED <<loc, tracked>>
      /\ UNCHANGED <<content, outcome>>
  BY DEF ReaderStep, CountTracked, outsideReader, diskVars
<1>2. f \in Files /\ reader.last = "no" /\ tracked[f] \in Nat /\ Len(content[f]) \in Nat
  BY DEF IInv, TypeOK, ReaderStates, ReaderInv, CountTracked, ReaderAt, Undecided, Settled
<1>3. f \in Trackers => tracked[f] <= Len(content[f])
  <2>1. ASSUME f \in Trackers, tracked[f] # 0 PROVE tracked[f] \in DOMAIN content[f]
    BY <1>2, <2>1 DEF IInv, TrackerNeverAhead
  <2> QED BY <1>2, <2>1 DEF IInv, TypeOK
<1>4. /\ reader'.pc = "read" /\ reader'.file = f /\ reader'.last = "no"
      /\ reader'.pos = IF f \in Trackers THEN tracked[f] ELSE 0
  BY <1>2, <1>3 DEF IInv, TypeOK, ReaderStates, CountTracked
<1>5. \A i \in 1..reader'.pos : Handled(content[f][i])
  BY <1>4 DEF IInv, TrackerNeverAhead
<1>6. PositionInv'
  <2>1. Trackers' = Trackers
    BY <1>1 DEF Trackers
  <2> QED BY <1>1, <1>2, <1>3, <1>4, <1>5, <2>1
             DEF PositionInv, Handled, Iterating, Undecided, Settled
<1>7. TailInv'
  BY <1>4 DEF TailInv
<1> QED BY <1>1, <1>4, <1>6, <1>7, ReaderMovesOn DEF CountTracked, ReaderAt, Undecided, Settled

\* ReadLine and FinalRead: the next line is taken, or there is none.
LEMMA ReadInv ==
    ASSUME IInv, TypeOK', ReadLine \/ FinalRead
    PROVE  IInv'
<1> DEFINE f == reader.file
<1>1. /\ ReaderStep /\ UNCHANGED <<loc, tracked>>
      /\ UNCHANGED <<writer, content, outcome, late>>
  BY DEF ReaderStep, ReadLine, FinalRead, outsideReader, diskVars
<1>2. /\ f \in Files /\ reader.last = "no" /\ reader.pos \in Nat /\ Len(content[f]) \in Nat
      /\ reader.pc \in {"read", "sleep"}
  BY SMTT(40) DEF IInv, TypeOK, ReaderStates, ReaderInv, ReadLine, FinalRead, ReaderAt, Undecided, Settled
<1>3. /\ reader.pos <= Len(content[f])
      /\ \A i \in 1..reader.pos : Handled(content[f][i])
      /\ f \in Trackers => tracked[f] = reader.pos
  BY <1>2 DEF IInv, PositionInv, Iterating, Undecided, Settled
<1>4. Trackers' = Trackers
  BY <1>1 DEF Trackers
<1>5. CASE MoreLines
  <2>1. /\ reader'.pc = "consume" /\ reader'.file = f /\ reader'.pos = reader.pos + 1
        /\ reader.pc = "read" => reader'.last = "no"
    BY <1>2, <1>5 DEF IInv, TypeOK, ReaderStates, ReadLine, FinalRead, ReaderAt
  <2>2. reader.pos + 1 <= Len(content[f])
    BY <1>2, <1>5 DEF MoreLines
  <2>3. PositionInv'
    <3>1. \A i \in 1..(reader.pos + 1) : i < reader.pos + 1 => Handled(content[f][i])
      BY <1>2, <1>3
    <3>2. f \in Trackers => tracked[f] = (reader.pos + 1) - 1
      BY <1>2, <1>3
    <3> QED BY <1>1, <1>4, <2>1, <2>2, <3>1, <3>2 DEF PositionInv, Handled, Undecided
  <2>4. TailInv'
    <3>1. reader.pc = "sleep" => Len(content[f]) <= reader.pos + 1
      BY DEF IInv, TailInv
    <3> QED BY <1>1, <1>2, <2>1, <3>1 DEF TailInv
  <2> QED BY <1>1, <1>2, <2>1, <2>3, <2>4, ReaderMovesOn DEF Undecided
<1>6. CASE ~MoreLines
  <2>1. /\ reader'.pc \in {"sleep", "unlinkData"} /\ reader'.file = f
        /\ reader'.pos = reader.pos /\ reader'.last = "no"
    BY <1>2, <1>6 DEF IInv, TypeOK, ReaderStates, ReadLine, FinalRead, ReaderAt, ReaderGoto
  <2>2. Len(content[f]) = reader.pos
    BY <1>2, <1>3, <1>6 DEF MoreLines
  <2>3. PositionInv'
    BY <1>1, <1>3, <1>4, <2>1 DEF PositionInv, Handled, Undecided, Settled
  <2>4. TailInv'
    BY <1>1, <1>2, <2>1, <2>2 DEF TailInv
  <2> QED BY <1>1, <1>2, <2>1, <2>3, <2>4, ReaderMovesOn DEF Undecided, Settled
<1> QED BY <1>5, <1>6

\* A line is counted after the consumer has settled it.
LEMMA TrackLineInv ==
    ASSUME IInv, TypeOK', TrackLine
    PROVE  IInv'
<1> DEFINE f == reader.file
<1>1. /\ ReaderStep /\ UNCHANGED loc
      /\ UNCHANGED <<writer, names, content, outcome, late, purged, written>>
      /\ StaysHandled
  BY OutsideReader DEF ReaderStep, TrackLine
<1>2. /\ f \in Files /\ reader.pos \in Nat /\ reader.pos >= 1 /\ reader.pc = "track"
      /\ reader.last \in {"yes", "no"} /\ Trackers \subseteq {f}
      /\ loc[Data(f)] \in {"reading", "gone"}
  BY DEF IInv, TypeOK, ReaderStates, ReaderInv, OneFileInProgress, TrackLine, ReaderAt, Undecided, Settled
<1>3. /\ reader.pos <= Len(content[f])
      /\ \A i \in 1..reader.pos : Handled(content[f][i])
      /\ f \in Trackers => tracked[f] = reader.pos - 1
  BY <1>2 DEF IInv, PositionInv, Iterating, Undecided, Settled
<1>4. /\ reader'.pc = IF reader.last = "yes" THEN "unlinkData" ELSE "read"
      /\ reader'.file = f /\ reader'.pos = reader.pos /\ reader'.last = reader.last
  BY DEF IInv, TypeOK, ReaderStates, TrackLine, ReaderGoto
<1>5. Trackers' = Trackers /\ (f \in Trackers => tracked'[f] = reader.pos)
  BY <1>1, <1>2, <1>3 DEF IInv, TypeOK, TrackLine, Trackers
<1>6. WriterInv' /\ GoneInv' /\ WrittenInv'
  BY <1>1, WriterFrame, GoneFrame, WrittenFrame
<1>7. ReaderInv'
  BY <1>1, <1>2, <1>4, <1>5 DEF IInv, ReaderInv, Undecided, Settled
<1>8. PositionInv'
  BY <1>1, <1>3, <1>4, <1>5 DEF PositionInv, Handled, Undecided, Settled
<1>9. TailInv'
  <2>1. reader.last = "yes" => \A i \in 1..Len(content[f]) : i > reader.pos => content[f][i] \in late
    BY <1>2 DEF IInv, TailInv
  <2> QED BY <1>1, <1>4, <2>1 DEF TailInv
<1>10. OneFileInProgress'
  BY <1>2, <1>4, <1>5 DEF OneFileInProgress
<1>11. TrackerNeverAhead'
  <2>1. Len(content[f]) \in Nat /\ DOMAIN content[f] = 1..Len(content[f])
    BY <1>2 DEF IInv, TypeOK
  <2>2. \A i \in 1..reader.pos : i \in DOMAIN content[f] /\ Handled(content[f][i])
    BY <1>2, <1>3, <2>1
  <2> QED BY <1>1, <1>2, <1>5, <2>2 DEF TrackerNeverAhead, Handled
<1> QED BY <1>6, <1>7, <1>8, <1>9, <1>10, <1>11 DEF IInv

\* The data file is unlinked when every line is settled or late.
LEMMA UnlinkDataInv ==
    ASSUME IInv, TypeOK', UnlinkData
    PROVE  IInv'
<1> DEFINE f == reader.file
<1>1. /\ ReaderStep /\ UNCHANGED tracked
      /\ UNCHANGED <<writer, names, content, outcome, late, purged, written>>
      /\ StaysHandled
  BY OutsideReader DEF ReaderStep, UnlinkData
<1>2. /\ f \in Files /\ reader.pos \in Nat /\ reader.pc = "unlinkData"
      /\ Trackers \subseteq {f} /\ loc[Data(f)] \in {"reading", "gone"}
  BY DEF IInv, TypeOK, ReaderStates, ReaderInv, OneFileInProgress, UnlinkData, ReaderAt
<1>3. reader'.pc = "unlinkTracker" /\ reader'.file = f /\ reader'.last = reader.last
  BY DEF IInv, TypeOK, ReaderStates, UnlinkData, ReaderGoto
<1>4. /\ loc'[Data(f)] = "gone"
      /\ \A g \in Files : loc'[Tracker(g)] = loc[Tracker(g)]
      /\ \A g \in Files \ {f} : loc'[Data(g)] = loc[Data(g)]
  BY <1>2, EntryFacts DEF IInv, TypeOK, UnlinkData, Unlink
<1>5. Trackers' = Trackers
  BY <1>4 DEF Trackers
<1>6. WriterInv' /\ WrittenInv' /\ TrackerNeverAhead'
  BY <1>1, <1>2, <1>4, WriterFrame, WrittenFrame, TrackerFrame
<1>7. ReaderInv'
  BY <1>2, <1>3, <1>4, <1>5 DEF ReaderInv, Undecided, Settled
<1>8. PositionInv' /\ TailInv' /\ OneFileInProgress'
  BY <1>2, <1>3, <1>5 DEF PositionInv, TailInv, OneFileInProgress, Iterating, Undecided, Settled
<1>9. GoneInv'
  <2> SUFFICES ASSUME NEW g \in Files, loc'[Data(g)] = "gone", NEW i \in 1..Len(content[g])
               PROVE  Accounted(content[g][i])
    BY <1>1 DEF GoneInv, Accounted, Handled
  <2>1. CASE g # f
    BY <1>4, <2>1 DEF IInv, GoneInv
  <2>2. CASE g = f /\ i <= reader.pos
    BY <1>2, <2>2 DEF IInv, PositionInv, Undecided, Accounted
  <2>3. CASE g = f /\ i > reader.pos
    BY <1>2, <2>3 DEF IInv, TailInv, Accounted
  <2> QED BY <1>2, <2>1, <2>2, <2>3
<1> QED BY <1>6, <1>7, <1>8, <1>9 DEF IInv

\* Every step of the reader keeps the invariant.
LEMMA ReaderKeepsInv ==
    ASSUME IInv, ReaderStep \/ ReaderCrash
    PROVE  IInv'
<1>1. TypeOK'
  BY ReaderType DEF IInv
<1>2. CASE UnlinkTracker
  <2>1. \A g \in Files : /\ loc'[Data(g)] = loc[Data(g)]
                         /\ loc'[Tracker(g)] = "reading" => loc[Tracker(g)] = "reading"
    <3>1. reader.file \in Files
      BY <1>2 DEF IInv, ReaderInv, UnlinkTracker, ReaderAt
    <3> QED BY <1>2, <3>1, EntryFacts DEF IInv, TypeOK, UnlinkTracker, UnlinkIfPresent, Unlink
  <2> QED BY <1>1, <1>2, <2>1, ReaderResets DEF UnlinkTracker
<1>3. CASE ReaderCrash
  BY <1>1, <1>3, ReaderResets DEF ReaderCrash, diskVars
<1> QED BY <1>1, <1>2, <1>3, ChooseInv, ApproachInv, OpenFilesInv, CountTrackedInv, ReadInv,
           TrackLineInv, UnlinkDataInv DEF ReaderStep

-----------------------------------------------------------------------------
(* The invariant and what follows from it. *)

\* Time passing, and stuttering, change nothing the invariant speaks of.
LEMMA TickInv ==
    ASSUME IInv, Tick \/ UNCHANGED vars
    PROVE  IInv'
<1>1. UNCHANGED <<writer, names, owner, loc, mtime, content, tracked, cache, reader, sweep,
                  fresh, stamp, written, late, purged, outcome, accepted, count>>
  BY DEF Tick, vars, nameVars, diskVars
<1>2. now' \in Nat
  BY DEF IInv, TypeOK, Tick, vars
<1>3. TypeOK'
  BY <1>1, <1>2 DEF IInv, TypeOK
<1>4. FilesStay
  BY <1>1 DEF FilesStay
<1>5. WriterInv' /\ TailInv'
  BY <1>1, <1>4, WriterFrame DEF IInv, TailInv, FilesStay
<1> QED BY <1>1, <1>3, <1>4, <1>5, ReaderSideFrame DEF IInv

\* Every step keeps IInv.
LEMMA StepInv == IInv /\ [Next]_vars => IInv'
BY WorkerInv, ReaderKeepsInv, ConsumerInv, SweepInv, TickInv DEF Next

\* IInv is inductive.
THEOREM Inductive == Spec => []IInv
BY StepInv, InitInv, PTL DEF Spec

\* Every reachable state is type-correct: no line, position or directory entry
\* is ever used that does not exist.
THEOREM TypeCorrect == Spec => []TypeOK
<1>1. IInv => TypeOK
  BY DEF IInv
<1> QED BY <1>1, Inductive, PTL

\* However the reader and its consumer are killed and restarted, the tracking
\* file never counts a line that was not settled.
THEOREM TrackingIsSafe == Spec => []TrackerNeverAhead
<1>1. IInv => TrackerNeverAhead
  BY DEF IInv
<1> QED BY <1>1, Inductive, PTL

\* The reader never has two files in progress, so which tracking file it takes
\* first after a restart does not matter.
THEOREM AtMostOneInProgress == Spec => []OneFileInProgress
<1>1. IInv => OneFileInProgress
  BY DEF IInv
<1> QED BY <1>1, Inductive, PTL

\* A queue file is never in images/.
PlaceInv == \A f \in Files : loc[Data(f)] # "images"

\* Images, queue files and tracking files keep to directories of their own, which
\* is why a sweep of images/ removes no line.
THEOREM QueueFilesInPlace == Spec => []PlaceInv
<1>1. Init => PlaceInv
  BY EntryFacts DEF Init, PlaceInv
<1>2. ASSUME IInv, PlaceInv, [Next]_vars PROVE PlaceInv'
  <2>1. ASSUME NEW x \in Entries, NEW d, loc' = [loc EXCEPT ![x] = d],
               d # "images" \/ \E e \in Escalations : x = Image(e)
        PROVE  PlaceInv'
    BY <1>2, <2>1, EntryFacts DEF IInv, TypeOK, PlaceInv
  <2>2. CASE UNCHANGED loc
    BY <1>2, <2>2 DEF PlaceInv
  <2>3. ASSUME NEW w \in Workers, WorkerStep(w) \/ WorkerFault(w) PROVE PlaceInv'
    <3>1. /\ writer[w].pc # "idle" => writer[w].esc \in Escalations
          /\ writer[w].pc = "create" => writer[w].file \in Files
      BY <1>2 DEF IInv, WriterInv
    <3>2. CASE WriteImage(w) \/ WriteImageFails(w)
      BY <2>1, <2>2, <3>1, <3>2, EntryFacts DEF WriteImage, WriteImageFails, PutImage, At, diskVars
    <3>3. CASE CreateFile(w)
      BY <2>1, <3>1, <3>3, EntryFacts DEF CreateFile, At
    <3> QED BY <2>2, <2>3, <3>2, <3>3 DEF WorkerStep, WorkerFault, TakeTimestamp, ChooseFile,
               OpenExisting, AppendLine, WriteFails, WorkerCrash, diskVars
  <2>4. CASE ReaderStep \/ ReaderCrash
    <3>1. reader.pc # "choose" => reader.file \in Files
      BY <1>2 DEF IInv, ReaderInv
    <3>2. CASE RenameFile \/ OpenFiles
      BY <2>1, <2>2, <3>1, <3>2, EntryFacts DEF RenameFile, OpenFiles, ReaderAt, diskVars
    <3>3. CASE CheckDataExists \/ UnlinkTracker
      BY <2>1, <2>2, <3>1, <3>3, EntryFacts
         DEF CheckDataExists, UnlinkTracker, UnlinkIfPresent, Unlink, ReaderAt
    <3>4. CASE UnlinkData
      BY <2>1, <3>1, <3>4, EntryFacts DEF UnlinkData, Unlink, ReaderAt
    <3> QED BY <2>2, <2>4, <3>2, <3>3, <3>4 DEF ReaderStep, ReaderCrash, ChooseTracked,
               ChooseOldest, CountTracked, ReadLine, FinalRead, TrackLine, diskVars
  <2>5. CASE ConsumerStep
    <3>1. reader.pc = "unlinkImage" => Line \in Escalations
      BY <1>2, LineType DEF IInv, Settled
    <3> QED BY <2>1, <2>2, <2>5, <3>1, EntryFacts DEF ConsumerStep, CheckCache, SubmitAccepted,
               SubmitRetryable, SubmitReplyLost, RetryWait, SubmitFails, HandleFailure,
               CacheRequest, UnlinkImage, UnlinkIfPresent, Unlink, ReaderAt
  <2>6. CASE SweepStep
    <3>1. sweep.victim # NoEntry => sweep.victim \in Entries
      BY <1>2 DEF IInv, TypeOK, SweepStates
    <3>2. CASE SweepUnlink
      BY <2>1, <2>2, <3>1, <3>2 DEF SweepUnlink
    <3> QED BY <2>2, <2>6, <3>2 DEF SweepStep, SweepStart, SweepStat, SweepNextDir
  <2> QED BY <1>2, <2>2, <2>3, <2>4, <2>5, <2>6 DEF Next, Tick, vars, diskVars
<1> QED BY <1>1, <1>2, Inductive, PTL DEF Spec

\* A written line is accounted for or still reachable, whatever directory its
\* file is in.
LEMMA NothingLost == IInv /\ PlaceInv => NoSilentLoss
<1> SUFFICES ASSUME IInv, PlaceInv, NEW e \in written, ~Accounted(e)
             PROVE  \E f \in Files : \E i \in DOMAIN content[f] :
                       content[f][i] = e /\ (Queued(f, i) \/ Stranded(f))
  BY DEF NoSilentLoss, Accounted
<1>1. PICK f \in Files : \E i \in 1..Len(content[f]) : content[f][i] = e
  BY DEF IInv, WrittenInv
<1>2. PICK i \in 1..Len(content[f]) : content[f][i] = e
  BY <1>1
<1>3. i \in DOMAIN content[f] /\ i \in Nat /\ Len(content[f]) \in Nat
  BY DEF IInv, TypeOK
<1>4. Queued(f, i) \/ Stranded(f)
  <2>1. loc[Data(f)] # "gone"
    BY <1>2 DEF IInv, GoneInv
  <2>2. loc[Data(f)] # "none"
    BY <1>3 DEF IInv, WriterInv
  <2>3. CASE loc[Data(f)] = "writing"
    BY <2>3 DEF Queued
  <2>4. CASE loc[Data(f)] = "reading" /\ f \in Trackers
    <3>1. tracked[f] \in Nat /\ (i <= tracked[f] => Handled(e))
      BY <1>2, <1>3, <2>4 DEF IInv, TypeOK, TrackerNeverAhead
    <3> QED BY <1>3, <2>4, <3>1 DEF Queued, Accounted
  <2>5. CASE loc[Data(f)] = "reading" /\ f \notin Trackers
    <3>1. CASE f # reader.file
      BY <2>5, <3>1 DEF Stranded
    <3>2. CASE f = reader.file /\ reader.pc \in {"exists", "open", "count"}
      BY <2>5, <3>2 DEF Queued
    <3>3. CASE f = reader.file /\ reader.pc \in Iterating
      <4>1. reader.pos \in Nat
        BY DEF IInv, TypeOK, ReaderStates
      <4>2. i <= reader.pos /\ (i < reader.pos \/ reader.pc \notin Undecided) => Handled(e)
        BY <1>2, <1>3, <3>3, <4>1 DEF IInv, PositionInv
      <4> QED BY <1>3, <3>3, <4>1, <4>2 DEF Queued, Accounted
    <3>4. CASE f = reader.file /\ reader.pc = "unlinkData"
      <4>1. reader.pos \in Nat /\ (i <= reader.pos => Handled(e)) /\ (i > reader.pos => e \in late)
        BY <1>2, <1>3, <3>4 DEF IInv, TypeOK, ReaderStates, PositionInv, TailInv, Undecided
      <4> QED BY <1>3, <4>1 DEF Accounted
    <3>5. f = reader.file =>
             reader.pc \in {"exists", "open", "count", "unlinkData"} \cup Iterating
      BY <2>5 DEF IInv, TypeOK, ReaderStates, ReaderPCs, ReaderInv, Files, NoFile
    <3> QED BY <3>1, <3>2, <3>3, <3>4, <3>5
  <2>6. loc[Data(f)] # "images"
    BY DEF PlaceInv
  <2> QED BY <2>1, <2>2, <2>3, <2>4, <2>5, <2>6, EntryFacts DEF IInv, TypeOK, Dirs
<1> QED BY <1>2, <1>3, <1>4

\* A written escalation is never lost silently, for any number of workers,
\* files, kills and retention runs.
THEOREM NeverLostSilently == Spec => []NoSilentLoss
BY Inductive, QueueFilesInPlace, NothingLost, PTL

=============================================================================
