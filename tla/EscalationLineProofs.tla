------------------------ MODULE EscalationLineProofs ------------------------
(***************************************************************************)
(* Proofs about the lines of the escalation queue: no escalation is a line *)
(* twice, what order lines are settled in, which files are stranded, and   *)
(* that the queue implements EscalationDelivery.  They rest on IInv of     *)
(* EscalationQueueProofs.                                                  *)
(***************************************************************************)
EXTENDS EscalationQueueProofs

-----------------------------------------------------------------------------
(* What a step can do to the files, the hands of the workers and outcomes. *)

\* A data file is created by the worker that has its name, moved by the reader that
\* is about to, or unlinked.
DataMoves ==
    \A f \in Files :
        \/ loc'[Data(f)] = loc[Data(f)]
        \/ /\ loc[Data(f)] = "none" /\ loc'[Data(f)] = "writing"
           /\ \E w \in Workers : writer[w].pc = "create" /\ writer[w].file = f
        \/ /\ loc[Data(f)] = "writing" /\ loc'[Data(f)] = "reading"
           /\ reader.pc = "rename" /\ reader.file = f /\ reader' = [reader EXCEPT !.pc = "exists"]
        \/ loc[Data(f)] \in {"writing", "reading", "gone"} /\ loc'[Data(f)] = "gone"

\* A tracking file is created by the reader when it opens the file, or unlinked.
TrackerMoves ==
    \A f \in Files :
        \/ loc'[Tracker(f)] = loc[Tracker(f)]
        \/ /\ loc'[Tracker(f)] = "reading" /\ loc[Data(f)] = "reading"
           /\ reader.pc = "open" /\ reader.file = f /\ reader' = [reader EXCEPT !.pc = "count"]
        \/ loc'[Tracker(f)] = "gone"

\* The reader keeps its file, lets go of it, or chooses one.
FileMoves ==
    \/ reader'.file = reader.file
    \/ reader'.file = NoFile
    \/ /\ reader.pc = "choose" /\ UNCHANGED loc
       /\ reader'.file \in Trackers
    \/ /\ reader.pc = "choose" /\ UNCHANGED loc
       /\ Trackers = {} /\ reader'.file \in WritingFiles
       /\ \A g \in WritingFiles : reader'.file <= g

\* Only the escalation in the consumer's hand becomes settled.
OutcomeMoves ==
    \A e \in Escalations :
        /\ Handled(e) => Handled(e)'
        /\ Handled(e)' => Handled(e) \/ (reader.pc \in Undecided /\ e = Line)

\* A worker takes a fresh escalation, appends the one it has, or keeps it or lets it go.
HandMoves ==
    \/ \E w \in Workers, e \in Escalations : TakeTimestamp(w, e)
    \/ \E w \in Workers : AppendLine(w)
    \/ /\ UNCHANGED <<fresh, written, content>>
       /\ \A w \in Workers : writer'[w].pc # "idle" =>
             writer[w].pc # "idle" /\ writer'[w].esc = writer[w].esc

\* A change of one entry leaves the others where they are.
LEMMA OneEntryMoves ==
    ASSUME TypeOK, NEW x \in Entries, NEW d, loc' = [loc EXCEPT ![x] = d]
    PROVE  loc'[x] = d /\ \A y \in Entries \ {x} : loc'[y] = loc[y]
BY DEF TypeOK

\* Of the images alone nothing follows for queue files and tracking files.
LEMMA ImageMoves ==
    ASSUME TypeOK, NEW e \in Escalations, NEW d, loc' = [loc EXCEPT ![Image(e)] = d]
    PROVE  FilesStay
<1>1. Image(e) \in Entries /\ \A y \in Entries \ {Image(e)} : loc'[y] = loc[y]
  BY OneEntryMoves, EntryFacts
<1>2. \A f \in Files : Data(f) \in Entries \ {Image(e)} /\ Tracker(f) \in Entries \ {Image(e)}
  BY EntryFacts
<1> QED BY <1>1, <1>2 DEF FilesStay

\* When queue files and tracking files stay where they are there is nothing to say.
LEMMA NoFileMoves ==
    ASSUME FilesStay
    PROVE  DataMoves /\ TrackerMoves
BY DEF FilesStay, DataMoves, TrackerMoves

\* What a worker can do.
LEMMA WorkerMovesFiles ==
    ASSUME IInv, NEW w \in Workers, WorkerStep(w) \/ WorkerFault(w)
    PROVE  DataMoves /\ TrackerMoves /\ FileMoves /\ OutcomeMoves /\ HandMoves
<1>1. UNCHANGED <<reader, outcome>>
  BY DEF WorkerStep, WorkerFault, TakeTimestamp, WriteImage, ChooseFile, OpenExisting, CreateFile,
     AppendLine, WriteImageFails, WriteFails, WorkerCrash, outsideWriter
<1>2. FileMoves /\ OutcomeMoves
  BY <1>1 DEF FileMoves, OutcomeMoves, Handled
<1>3. DataMoves /\ TrackerMoves
  <2>1. CASE CreateFile(w)
    <3>1. writer[w].pc = "create" /\ writer[w].file \in Files /\ loc[Data(writer[w].file)] = "none"
      BY <2>1 DEF IInv, WriterInv, CreateFile, At
    <3>2. /\ loc'[Data(writer[w].file)] = "writing"
          /\ \A y \in Entries \ {Data(writer[w].file)} : loc'[y] = loc[y]
      BY <2>1, <3>1, OneEntryMoves, EntryFacts DEF IInv, CreateFile
    <3>3. \A f \in Files : /\ Data(f) \in Entries /\ Tracker(f) \in Entries
                           /\ Tracker(f) # Data(writer[w].file)
                           /\ f # writer[w].file => Data(f) # Data(writer[w].file)
      BY EntryFacts
    <3> QED BY <3>1, <3>2, <3>3 DEF DataMoves, TrackerMoves
  <2>2. CASE UNCHANGED loc
    BY <2>2, NoFileMoves DEF FilesStay
  <2>3. ASSUME PutImage(writer[w].esc), writer[w].pc = "image" PROVE FilesStay
    <3>1. writer[w].esc \in Escalations
      BY <2>3 DEF IInv, WriterInv
    <3> QED BY <2>3, <3>1, ImageMoves DEF IInv, PutImage
  <2> QED BY <2>1, <2>2, <2>3, NoFileMoves DEF WorkerStep, WorkerFault, TakeTimestamp, WriteImage,
     ChooseFile, OpenExisting, AppendLine, WriteImageFails, WriteFails, WorkerCrash, diskVars, At
<1>4. HandMoves
  <2>1. CASE \E e \in Escalations : TakeTimestamp(w, e)
    BY <2>1 DEF HandMoves
  <2>2. CASE AppendLine(w)
    BY <2>2 DEF HandMoves
  <2>3. ASSUME NEW s \in WriterStates, Becomes(w, s), UNCHANGED <<fresh, written, content>>,
               s.pc # "idle" => writer[w].pc # "idle" /\ s.esc = writer[w].esc
        PROVE  HandMoves
    <3>1. \A v \in Workers : writer'[v] = IF v = w THEN s ELSE writer[v]
      BY <2>3 DEF IInv, TypeOK, Becomes
    <3> QED BY <2>3, <3>1 DEF HandMoves
  <2>4. writer[w] \in WriterStates
    BY DEF IInv, TypeOK
  <2>5. CASE WriteImage(w) \/ CreateFile(w) \/ ((ChooseFile(w) \/ OpenExisting(w)) /\ ~ResetToNewFile(w))
    <3>1. PICK pc \in {"choose", "append", "open"} : Goto(w, pc) /\ writer[w].pc # "idle"
                    /\ UNCHANGED <<fresh, written, content>>
      BY <2>5 DEF WriteImage, CreateFile, ChooseFile, OpenExisting, At
    <3> DEFINE s == [writer[w] EXCEPT !.pc = pc]
    <3>2. s \in WriterStates /\ s.esc = writer[w].esc
      BY <2>4 DEF WriterStates, WriterPCs
    <3>3. Becomes(w, s)
      BY <3>1 DEF Goto
    <3> HIDE DEF s
    <3> QED BY <2>3, <3>1, <3>2, <3>3
  <2>6. CASE (ChooseFile(w) \/ OpenExisting(w)) /\ ResetToNewFile(w)
    <3> DEFINE s == [writer[w] EXCEPT !.pc = "create", !.file = names + 1, !.lines = 0]
    <3>1. names + 1 \in Files
      BY <2>6, QueueAssumption DEF IInv, TypeOK, ResetToNewFile, Files
    <3>2. s \in WriterStates /\ s.esc = writer[w].esc
      BY <2>4, <3>1 DEF WriterStates, WriterPCs
    <3>3. Becomes(w, s) /\ writer[w].pc # "idle" /\ UNCHANGED <<fresh, written, content>>
      BY <2>6 DEF ResetToNewFile, ChooseFile, OpenExisting, At
    <3> HIDE DEF s
    <3> QED BY <2>3, <3>2, <3>3
  <2>7. CASE WriteImageFails(w) \/ WriteFails(w)
    <3> DEFINE s == [writer[w] EXCEPT !.pc = "idle", !.esc = NoEscalation]
    <3>1. s \in WriterStates /\ s.pc = "idle"
      BY <2>4 DEF WriterStates, WriterPCs
    <3>2. Becomes(w, s) /\ UNCHANGED <<fresh, written, content>>
      BY <2>7 DEF WriteImageFails, WriteFails, Done
    <3> HIDE DEF s
    <3> QED BY <2>3, <3>1, <3>2
  <2>8. CASE WorkerCrash(w)
    <3> DEFINE s == [pc |-> "idle", esc |-> NoEscalation, file |-> NoFile, lines |-> 0]
    <3>1. s \in WriterStates /\ s.pc = "idle"
      BY DEF WriterStates, WriterPCs
    <3>2. Becomes(w, s) /\ UNCHANGED <<fresh, written, content>>
      BY <2>8 DEF WorkerCrash
    <3> HIDE DEF s
    <3> QED BY <2>3, <3>1, <3>2
  <2> QED BY <2>1, <2>2, <2>5, <2>6, <2>7, <2>8 DEF WorkerStep, WorkerFault
<1> QED BY <1>2, <1>3, <1>4

\* What the reader can do.
LEMMA ReaderMovesFiles ==
    ASSUME IInv, ReaderStep \/ ReaderCrash
    PROVE  DataMoves /\ TrackerMoves /\ FileMoves /\ OutcomeMoves /\ HandMoves
<1>1. UNCHANGED <<writer, content, fresh, written, outcome>>
  BY DEF ReaderStep, ReaderCrash, ChooseTracked, ChooseOldest, RenameFile, CheckDataExists, OpenFiles,
     CountTracked, ReadLine, FinalRead, TrackLine, UnlinkData, UnlinkTracker, outsideReader
<1>2. OutcomeMoves /\ HandMoves
  BY <1>1 DEF OutcomeMoves, HandMoves, Handled
<1>3. reader.pc # "choose" => reader.file \in Files /\ Data(reader.file) \in Entries /\ Tracker(reader.file) \in Entries
  BY EntryFacts DEF IInv, ReaderInv
<1>4. \A f \in Files : /\ Data(f) \in Entries /\ Tracker(f) \in Entries
                       /\ Tracker(f) # Data(reader.file) /\ Data(f) # Tracker(reader.file)
                       /\ f # reader.file => Data(f) # Data(reader.file) /\ Tracker(f) # Tracker(reader.file)
  BY EntryFacts
<1>5. reader \in ReaderStates /\ TypeOK
  BY DEF IInv, TypeOK
<1>6. ASSUME NEW pc, ReaderGoto(pc) PROVE FileMoves
  BY <1>5, <1>6 DEF FileMoves, ReaderGoto, ReaderStates
<1>7. ReaderReset => FileMoves
  BY DEF FileMoves, ReaderReset
<1>8. UNCHANGED loc => DataMoves /\ TrackerMoves
  BY NoFileMoves DEF FilesStay
<1>9. CASE ChooseTracked
  BY <1>2, <1>5, <1>8, <1>9 DEF ChooseTracked, FileMoves, ReaderAt, diskVars, ReaderStates, Trackers
<1>10. CASE ChooseOldest
  BY <1>2, <1>5, <1>8, <1>10 DEF ChooseOldest, FileMoves, ReaderAt, diskVars, ReaderStates, WritingFiles
<1>11. CASE RenameFile
  <2>1. CASE loc[Data(reader.file)] = "writing"
    <3>1. /\ loc'[Data(reader.file)] = "reading" /\ \A y \in Entries \ {Data(reader.file)} : loc'[y] = loc[y]
          /\ reader.pc = "rename" /\ reader' = [reader EXCEPT !.pc = "exists"]
      BY <1>3, <1>5, <1>11, <2>1, OneEntryMoves DEF RenameFile, ReaderAt, ReaderGoto
    <3>2. DataMoves /\ TrackerMoves
      BY <1>3, <1>4, <2>1, <3>1 DEF DataMoves, TrackerMoves
    <3> QED BY <1>2, <1>6, <1>11, <2>1, <3>2 DEF RenameFile
  <2>2. CASE loc[Data(reader.file)] # "writing"
    BY <1>2, <1>7, <1>8, <1>11, <2>2 DEF RenameFile
  <2> QED BY <2>1, <2>2
<1>12. ASSUME UnlinkIfPresent(Tracker(reader.file)), reader.pc # "choose" PROVE DataMoves /\ TrackerMoves
  <2>1. CASE Unlink(Tracker(reader.file))
    <3>1. /\ loc'[Tracker(reader.file)] = "gone"
          /\ \A y \in Entries \ {Tracker(reader.file)} : loc'[y] = loc[y]
      BY <1>3, <1>5, <1>12, <2>1, OneEntryMoves DEF Unlink
    <3> QED BY <1>3, <1>4, <1>12, <3>1 DEF DataMoves, TrackerMoves
  <2> QED BY <1>8, <1>12, <2>1 DEF UnlinkIfPresent
<1>13. CASE CheckDataExists
  BY <1>2, <1>6, <1>7, <1>8, <1>12, <1>13 DEF CheckDataExists, ReaderAt
<1>14. CASE OpenFiles
  <2>1. CASE loc' = [loc EXCEPT ![Tracker(reader.file)] = "reading"] /\ ReaderGoto("count")
                /\ loc[Data(reader.file)] = "reading"
    <3>1. /\ loc'[Tracker(reader.file)] = "reading" /\ \A y \in Entries \ {Tracker(reader.file)} : loc'[y] = loc[y]
          /\ reader.pc = "open" /\ reader' = [reader EXCEPT !.pc = "count"]
      BY <1>3, <1>5, <1>14, <2>1, OneEntryMoves DEF OpenFiles, ReaderAt, ReaderGoto
    <3>2. DataMoves /\ TrackerMoves
      BY <1>3, <1>4, <2>1, <3>1 DEF DataMoves, TrackerMoves
    <3> QED BY <1>2, <1>6, <2>1, <3>2
  <2> QED BY <1>2, <1>6, <1>7, <1>8, <1>14, <2>1 DEF OpenFiles, diskVars
<1>15. CASE UnlinkData
  <2>1. /\ loc'[Data(reader.file)] = "gone" /\ \A y \in Entries \ {Data(reader.file)} : loc'[y] = loc[y]
        /\ reader.pc = "unlinkData" /\ loc[Data(reader.file)] \in {"reading", "gone"}
    BY <1>3, <1>5, <1>15, OneEntryMoves DEF UnlinkData, Unlink, ReaderAt, IInv, ReaderInv
  <2>2. DataMoves /\ TrackerMoves
    BY <1>3, <1>4, <2>1 DEF DataMoves, TrackerMoves
  <2> QED BY <1>2, <1>6, <1>15, <2>2 DEF UnlinkData
<1>16. CASE UnlinkTracker
  BY <1>2, <1>7, <1>12, <1>16 DEF UnlinkTracker, ReaderAt
<1>17. CASE CountTracked \/ ReadLine \/ FinalRead \/ TrackLine
  <2>1. reader'.file = reader.file /\ UNCHANGED loc
    BY <1>5, <1>17 DEF CountTracked, ReadLine, FinalRead, TrackLine, ReaderGoto, diskVars, ReaderStates
  <2> QED BY <1>2, <1>8, <2>1 DEF FileMoves
<1>18. CASE ReaderCrash
  BY <1>2, <1>7, <1>8, <1>18 DEF ReaderCrash, diskVars
<1> QED BY <1>9, <1>10, <1>11, <1>13, <1>14, <1>15, <1>16, <1>17, <1>18 DEF ReaderStep

\* What the consumer can do.
LEMMA ConsumerMovesFiles ==
    ASSUME IInv, ConsumerStep
    PROVE  DataMoves /\ TrackerMoves /\ FileMoves /\ OutcomeMoves /\ HandMoves
<1>1. UNCHANGED <<writer, content, fresh, written>> /\ reader'.file = reader.file
  BY DEF ConsumerStep, CheckCache, SubmitAccepted, SubmitRetryable, SubmitReplyLost, RetryWait,
     SubmitFails, HandleFailure, CacheRequest, UnlinkImage, outsideConsumer, ReaderGoto, IInv, TypeOK,
     ReaderStates
<1>2. FileMoves /\ HandMoves
  BY <1>1 DEF FileMoves, HandMoves
<1>3. reader.pc \in Undecided \cup Settled => Line \in Escalations
  BY LineType DEF IInv
<1>4. DataMoves /\ TrackerMoves
  <2>1. CASE UNCHANGED loc
    BY <2>1, NoFileMoves DEF FilesStay
  <2>2. CASE UnlinkImage
    <3>1. Line \in Escalations
      BY <1>3, <2>2 DEF UnlinkImage, ReaderAt, Settled
    <3> QED BY <2>1, <2>2, <3>1, ImageMoves, NoFileMoves DEF UnlinkImage, UnlinkIfPresent, Unlink, IInv
  <2> QED BY <2>1, <2>2 DEF ConsumerStep, CheckCache, SubmitAccepted, SubmitRetryable, SubmitReplyLost,
     RetryWait, SubmitFails, HandleFailure, CacheRequest
<1>5. OutcomeMoves
  <2>1. ASSUME NEW o, Result(o), reader.pc \in Undecided PROVE OutcomeMoves
    <3>1. Line \in Escalations
      BY <1>3, <2>1
    <3>2. /\ outcome'[Line] = outcome[Line] \cup {o}
          /\ \A e \in Escalations \ {Line} : outcome'[e] = outcome[e]
      BY <2>1, <3>1 DEF Result, IInv, TypeOK
    <3> QED BY <2>1, <3>1, <3>2 DEF OutcomeMoves, Handled
  <2>2. CASE UNCHANGED outcome
    BY <2>2 DEF OutcomeMoves, Handled
  <2> QED BY <2>1, <2>2 DEF ConsumerStep, CheckCache, SubmitAccepted, SubmitRetryable, SubmitReplyLost,
     RetryWait, SubmitFails, HandleFailure, CacheRequest, UnlinkImage, ReaderAt, Undecided
<1> QED BY <1>2, <1>4, <1>5

\* What the retention job can do.
LEMMA SweepMovesFiles ==
    ASSUME IInv, PlaceInv, SweepStep
    PROVE  DataMoves /\ TrackerMoves /\ FileMoves /\ OutcomeMoves /\ HandMoves
<1>1. UNCHANGED <<writer, content, fresh, written, reader, outcome>>
  BY DEF SweepStep, SweepStart, SweepStat, SweepUnlink, SweepNextDir, outsideSweep
<1>2. FileMoves /\ HandMoves /\ OutcomeMoves
  BY <1>1 DEF FileMoves, HandMoves, OutcomeMoves, Handled
<1>3. CASE UNCHANGED loc
  BY <1>2, <1>3, NoFileMoves DEF FilesStay
<1>4. CASE SweepUnlink /\ ~UNCHANGED loc
  <2> DEFINE x == sweep.victim
  <2>1. x \in Entries /\ loc[x] = sweep.dir /\ loc' = [loc EXCEPT ![x] = "gone"]
        /\ sweep.dir \in Dirs \cup {"idle"}
    BY <1>4 DEF SweepUnlink, IInv, TypeOK, SweepStates
  <2>2. loc'[x] = "gone" /\ \A y \in Entries \ {x} : loc'[y] = loc[y]
    BY <2>1, OneEntryMoves DEF IInv
  <2>3. \A f \in Files : Data(f) \in Entries /\ Tracker(f) \in Entries
    BY EntryFacts
  <2>4. TrackerMoves
    BY <2>2, <2>3 DEF TrackerMoves
  <2>5. \A f \in Files : loc[Data(f)] \in {"none", "writing", "reading", "gone"}
    BY <2>3 DEF IInv, TypeOK, PlaceInv, Dirs
  <2>6. x \in Entries /\ loc[x] # "none"
    BY <2>1 DEF Dirs
  <2>7. DataMoves
    BY <2>2, <2>3, <2>5, <2>6 DEF DataMoves
  <2> QED BY <1>2, <2>4, <2>7
<1> QED BY <1>3, <1>4 DEF SweepStep, SweepStart, SweepStat, SweepNextDir

\* What any step can do to files, hands and outcomes.
LEMMA StepMoves ==
    ASSUME IInv, PlaceInv, [Next]_vars
    PROVE  DataMoves /\ TrackerMoves /\ FileMoves /\ OutcomeMoves /\ HandMoves
<1>1. CASE Tick \/ UNCHANGED vars
  <2>1. UNCHANGED <<writer, loc, content, fresh, written, reader, outcome>>
    BY <1>1 DEF Tick, vars, diskVars
  <2> QED BY <2>1, NoFileMoves DEF FilesStay, FileMoves, HandMoves, OutcomeMoves, Handled
<1> QED BY <1>1, WorkerMovesFiles, ReaderMovesFiles, ConsumerMovesFiles, SweepMovesFiles DEF Next

-----------------------------------------------------------------------------
(* No escalation is written twice. *)

\* An escalation is fresh, in the hand of one worker, or one line of one file, and
\* only written escalations are settled.
LinesInv ==
    /\ fresh \cap written = {}
    /\ \A w \in Workers : writer[w].pc # "idle" => writer[w].esc \notin fresh \cup written
    /\ \A v, w \in Workers : /\ v # w
                             /\ writer[v].pc # "idle" /\ writer[w].pc # "idle"
                             => writer[v].esc # writer[w].esc
    /\ \A f \in Files : \A i \in 1..Len(content[f]) : content[f][i] \in written
    /\ \A f, g \in Files : \A i \in 1..Len(content[f]), j \in 1..Len(content[g]) :
          content[f][i] = content[g][j] => f = g /\ i = j
    /\ \A e \in Escalations : Handled(e) => e \in written

\* What appending a line changes.
LEMMA AppendFacts ==
    ASSUME IInv, NEW w \in Workers, AppendLine(w)
    PROVE  /\ writer[w].pc = "append" /\ writer[w].file \in Files /\ writer[w].esc \in Escalations
           /\ Len(content[writer[w].file]) \in Nat
           /\ \A g \in Files \ {writer[w].file} : content'[g] = content[g]
           /\ Len(content'[writer[w].file]) = Len(content[writer[w].file]) + 1
           /\ content'[writer[w].file][Len(content[writer[w].file]) + 1] = writer[w].esc
           /\ \A i \in 1..Len(content[writer[w].file]) :
                 content'[writer[w].file][i] = content[writer[w].file][i]
           /\ written' = written \cup {writer[w].esc}
           /\ writer'[w].pc = "idle" /\ writer'[w].file = writer[w].file
           /\ \A v \in Workers \ {w} : writer'[v] = writer[v]
           /\ UNCHANGED <<fresh, loc, reader, outcome, tracked, names, owner, count, cache, stamp, now>>
<1>1. writer[w].pc = "append" /\ writer[w].file \in Files /\ writer[w].esc \in Escalations
  BY DEF IInv, WriterInv, AppendLine, At
<1>2. content[writer[w].file] \in Seq(Escalations)
  BY <1>1 DEF IInv, TypeOK
<1>3. content' = [content EXCEPT ![writer[w].file] = Append(content[writer[w].file], writer[w].esc)]
  BY DEF AppendLine
<1>4. /\ \A g \in Files \ {writer[w].file} : content'[g] = content[g]
      /\ content'[writer[w].file] = Append(content[writer[w].file], writer[w].esc)
  BY <1>1, <1>3 DEF IInv, TypeOK
<1>5. /\ Len(content[writer[w].file]) \in Nat
      /\ Len(content'[writer[w].file]) = Len(content[writer[w].file]) + 1
      /\ content'[writer[w].file][Len(content[writer[w].file]) + 1] = writer[w].esc
      /\ \A i \in 1..Len(content[writer[w].file]) :
            content'[writer[w].file][i] = content[writer[w].file][i]
  BY <1>1, <1>2, <1>4
<1>6. /\ writer'[w].pc = "idle" /\ writer'[w].file = writer[w].file
      /\ \A v \in Workers \ {w} : writer'[v] = writer[v]
  BY DEF IInv, TypeOK, WriterStates, AppendLine, Becomes
<1> QED BY <1>1, <1>4, <1>5, <1>6 DEF AppendLine, outsideWriter, nameVars

\* Every line of the new contents is an old line or the one just appended.
LEMMA OldOrNew ==
    ASSUME IInv, NEW w \in Workers, AppendLine(w), NEW f \in Files, NEW i \in 1..Len(content'[f])
    PROVE  \/ i \in 1..Len(content[f]) /\ content'[f][i] = content[f][i]
           \/ /\ f = writer[w].file /\ i = Len(content[f]) + 1
              /\ content'[f][i] = writer[w].esc
<1>1. Len(content[f]) \in Nat
  BY DEF IInv, TypeOK
<1>2. CASE f # writer[w].file
  <2>1. content'[f] = content[f]
    BY <1>2, AppendFacts
  <2> QED BY <2>1
<1>3. CASE f = writer[w].file
  <2>1. /\ Len(content'[f]) = Len(content[f]) + 1 /\ content'[f][Len(content[f]) + 1] = writer[w].esc
        /\ \A k \in 1..Len(content[f]) : content'[f][k] = content[f][k]
    BY <1>3, AppendFacts
  <2>2. i \in 1..Len(content[f]) \/ i = Len(content[f]) + 1
    BY <1>1, <2>1
  <2> QED BY <1>3, <2>1, <2>2
<1> QED BY <1>2, <1>3

\* No step writes an escalation a second time.
LEMMA LinesStep ==
    ASSUME IInv, PlaceInv, LinesInv, [Next]_vars
    PROVE  LinesInv'
<1>1. OutcomeMoves /\ HandMoves
  BY StepMoves
<1>2. \A f \in Files : \A i \in 1..Len(content[f]) : content[f][i] \in Escalations
  BY DEF IInv, TypeOK
<1>3. reader.pc \in Undecided => Line \in written
  <2>1. reader.pc \in Undecided =>
           reader.file \in Files /\ reader.pos \in 1..Len(content[reader.file])
    BY DEF IInv, TypeOK, ReaderInv, PositionInv, ReaderStates, Iterating, Undecided
  <2> QED BY <2>1 DEF LinesInv, Line
<1>4. \A e \in Escalations : Handled(e)' => e \in written
  BY <1>1, <1>3 DEF OutcomeMoves, LinesInv
<1>5. CASE \E w \in Workers, e \in Escalations : TakeTimestamp(w, e)
  <2>1. PICK w \in Workers, e \in Escalations : TakeTimestamp(w, e)
    BY <1>5
  <2>2. /\ writer'[w].esc = e /\ \A v \in Workers \ {w} : writer'[v] = writer[v]
        /\ e \in fresh /\ fresh' = fresh \ {e} /\ UNCHANGED <<content, written>>
    BY <2>1 DEF TakeTimestamp, Becomes, IInv, TypeOK, WriterStates
  <2>3. \A v \in Workers \ {w} : writer[v].pc # "idle" => writer[v].esc # e
    BY <2>2 DEF LinesInv
  <2>4. \A v \in Workers : writer'[v].pc # "idle" => writer'[v].esc \notin fresh' \cup written'
    BY <2>2, <2>3 DEF LinesInv
  <2>5. \A u, v \in Workers : /\ u # v /\ writer'[u].pc # "idle" /\ writer'[v].pc # "idle"
                              => writer'[u].esc # writer'[v].esc
    BY <2>2, <2>3 DEF LinesInv
  <2>6. /\ fresh' \cap written' = {}
        /\ \A f \in Files : \A i \in 1..Len(content'[f]) : content'[f][i] \in written'
        /\ \A f, g \in Files : \A i \in 1..Len(content'[f]), j \in 1..Len(content'[g]) :
             content'[f][i] = content'[g][j] => f = g /\ i = j
        /\ \A x \in Escalations : Handled(x)' => x \in written'
    BY <1>4, <2>2 DEF LinesInv
  <2> QED BY <2>4, <2>5, <2>6 DEF LinesInv
<1>6. CASE \E w \in Workers : AppendLine(w)
  <2>1. PICK w \in Workers : AppendLine(w)
    BY <1>6
  <2> DEFINE e == writer[w].esc
             h == writer[w].file
  <2>2. /\ writer[w].pc # "idle" /\ written' = written \cup {e} /\ fresh' = fresh
        /\ writer'[w].pc = "idle" /\ \A v \in Workers \ {w} : writer'[v] = writer[v]
    BY <2>1, AppendFacts
  <2>3. e \notin fresh \cup written /\ \A v \in Workers \ {w} : writer[v].pc # "idle" => writer[v].esc # e
    BY <2>2 DEF LinesInv
  <2>4. \A f \in Files : \A i \in 1..Len(content[f]) : content[f][i] # e
    BY <2>3 DEF LinesInv
  <2>5. \A f \in Files : \A i \in 1..Len(content'[f]) :
           \/ i \in 1..Len(content[f]) /\ content'[f][i] = content[f][i]
           \/ f = h /\ i = Len(content[f]) + 1 /\ content'[f][i] = e
    BY <2>1, OldOrNew
  <2>6. /\ fresh' \cap written' = {}
        /\ \A v \in Workers : writer'[v].pc # "idle" => writer'[v].esc \notin fresh' \cup written'
        /\ \A u, v \in Workers : /\ u # v /\ writer'[u].pc # "idle" /\ writer'[v].pc # "idle"
                                 => writer'[u].esc # writer'[v].esc
        /\ \A x \in Escalations : Handled(x)' => x \in written'
    BY <1>4, <2>2, <2>3 DEF LinesInv
  <2> HIDE DEF e, h
  <2>7. \A f \in Files : \A i \in 1..Len(content'[f]) : content'[f][i] \in written'
    BY <2>2, <2>5 DEF LinesInv
  <2>8. ASSUME NEW f \in Files, NEW g \in Files,
               NEW i \in 1..Len(content'[f]), NEW j \in 1..Len(content'[g]),
               content'[f][i] = content'[g][j]
        PROVE  f = g /\ i = j
    <3>1. CASE i \in 1..Len(content[f]) /\ content'[f][i] = content[f][i]
      <4>1. content[f][i] # e
        BY <2>4, <3>1
      <4>2. j \in 1..Len(content[g]) /\ content'[g][j] = content[g][j]
        BY <2>5, <2>8, <3>1, <4>1
      <4>3. content[f][i] = content[g][j]
        BY <2>8, <3>1, <4>2
      <4>4. \A k \in 1..Len(content[f]), l \in 1..Len(content[g]) :
               content[f][k] = content[g][l] => f = g /\ k = l
        BY DEF LinesInv
      <4> QED BY <3>1, <4>2, <4>3, <4>4
    <3>2. CASE f = h /\ i = Len(content[f]) + 1 /\ content'[f][i] = e
      <4>1. g = h /\ j = Len(content[g]) + 1
        BY <2>4, <2>5, <2>8, <3>2
      <4> QED BY <3>2, <4>1
    <3> QED BY <2>5, <3>1, <3>2
  <2> QED BY <2>6, <2>7, <2>8 DEF LinesInv
<1>7. CASE /\ UNCHANGED <<fresh, written, content>>
           /\ \A w \in Workers : writer'[w].pc # "idle" =>
                 writer[w].pc # "idle" /\ writer'[w].esc = writer[w].esc
  BY <1>4, <1>7 DEF LinesInv
<1> QED BY <1>1, <1>5, <1>6, <1>7 DEF HandMoves

\* No escalation becomes a line twice, and nothing is settled that was not written.
THEOREM WrittenOnce == Spec => []LinesInv
<1>1. Init => LinesInv
  BY DEF Init, LinesInv, Handled
<1>2. IInv /\ PlaceInv /\ LinesInv /\ [Next]_vars => LinesInv'
  BY LinesStep
<1> QED BY <1>1, <1>2, Inductive, QueueFilesInPlace, PTL DEF Spec

-----------------------------------------------------------------------------
(* Which files are stranded. *)

\* Before the first kill, the file in the reader's hand is the only one in reading/.
NoReadingInv ==
    count["crash"] = 0 => \A f \in Files : loc[Data(f)] = "reading" => f = reader.file

\* The reader lets go of a file in reading/ only when it is killed.
LEMMA LetsGo ==
    ASSUME IInv, [Next]_vars
    PROVE  /\ count["crash"] \in Nat /\ count'["crash"] \in Nat
           /\ count'["crash"] >= count["crash"]
           /\ \/ reader'.file = reader.file
              \/ reader.pc = "choose"
              \/ loc[Data(reader.file)] # "reading"
              \/ count'["crash"] > count["crash"]
<1>1. count \in [Events -> Nat] /\ reader \in ReaderStates
  BY DEF IInv, TypeOK
<1>2. ASSUME NEW x, Occurs(x)
      PROVE  /\ count'["crash"] \in Nat /\ count'["crash"] >= count["crash"]
             /\ x = "crash" => count'["crash"] > count["crash"]
  <2>1. count["crash"] \in Nat
    BY <1>1 DEF Events
  <2>2. count'["crash"] = IF x = "crash" THEN count["crash"] + 1 ELSE count["crash"]
    BY <1>1, <1>2 DEF Occurs, Events
  <2> QED BY <2>1, <2>2
<1>3. UNCHANGED count => count'["crash"] \in Nat /\ count'["crash"] >= count["crash"]
  BY <1>1 DEF Events
<1>4. ASSUME NEW pc, ReaderGoto(pc) PROVE reader'.file = reader.file
  BY <1>1, <1>4 DEF ReaderGoto, ReaderStates
<1>5. count["crash"] \in Nat
  BY <1>1 DEF Events
<1>6. CASE \E w \in Workers : WorkerStep(w) \/ WorkerFault(w)
  <2>1. UNCHANGED reader
    BY <1>6 DEF WorkerStep, WorkerFault, TakeTimestamp, WriteImage, ChooseFile, OpenExisting,
       CreateFile, AppendLine, WriteImageFails, WriteFails, WorkerCrash, outsideWriter
  <2>2. UNCHANGED count \/ \E x : Occurs(x)
    BY <1>6 DEF WorkerStep, WorkerFault, TakeTimestamp, WriteImage, ChooseFile, OpenExisting,
       CreateFile, AppendLine, WriteImageFails, WriteFails, WorkerCrash
  <2> QED BY <1>2, <1>3, <1>5, <2>1, <2>2
<1>7. CASE ReaderStep
  <2>1. UNCHANGED count
    BY <1>7 DEF ReaderStep, ChooseTracked, ChooseOldest, RenameFile, CheckDataExists, OpenFiles,
       CountTracked, ReadLine, FinalRead, TrackLine, UnlinkData, UnlinkTracker
  <2>2. \/ reader'.file = reader.file \/ reader.pc = "choose"
        \/ loc[Data(reader.file)] # "reading"
    <3>1. CASE ChooseTracked \/ ChooseOldest
      BY <3>1 DEF ChooseTracked, ChooseOldest, ReaderAt
    <3>2. CASE RenameFile
      BY <1>4, <3>2 DEF RenameFile, ReaderAt, IInv, ReaderInv
    <3>3. CASE CheckDataExists \/ OpenFiles
      BY <1>4, <3>3 DEF CheckDataExists, OpenFiles
    <3>4. CASE CountTracked \/ ReadLine \/ FinalRead \/ TrackLine \/ UnlinkData
      BY <1>1, <1>4, <3>4 DEF CountTracked, ReadLine, FinalRead, TrackLine, UnlinkData, ReaderStates
    <3>5. CASE UnlinkTracker
      BY <3>5 DEF UnlinkTracker, ReaderAt, IInv, ReaderInv
    <3> QED BY <1>7, <3>1, <3>2, <3>3, <3>4, <3>5 DEF ReaderStep
  <2> QED BY <1>3, <1>5, <2>1, <2>2
<1>8. CASE ReaderCrash
  BY <1>2, <1>5, <1>8 DEF ReaderCrash
<1>9. CASE ConsumerStep
  <2>1. reader'.file = reader.file
    BY <1>4, <1>9 DEF ConsumerStep, CheckCache, SubmitAccepted, SubmitRetryable, SubmitReplyLost,
       RetryWait, SubmitFails, HandleFailure, CacheRequest, UnlinkImage
  <2>2. UNCHANGED count \/ \E x : Occurs(x)
    BY <1>9 DEF ConsumerStep, CheckCache, SubmitAccepted, SubmitRetryable, SubmitReplyLost,
       RetryWait, SubmitFails, HandleFailure, CacheRequest, UnlinkImage
  <2> QED BY <1>2, <1>3, <1>5, <2>1, <2>2
<1>10. CASE SweepStep \/ Tick \/ UNCHANGED vars
  <2>1. UNCHANGED reader /\ (UNCHANGED count \/ \E x : Occurs(x))
    BY <1>10 DEF SweepStep, SweepStart, SweepStat, SweepUnlink, SweepNextDir, outsideSweep, Tick, vars
  <2> QED BY <1>2, <1>3, <1>5, <2>1
<1> QED BY <1>6, <1>7, <1>8, <1>9, <1>10 DEF Next

\* Without a kill the reader never leaves a file behind in reading/.
LEMMA NoReadingStep ==
    ASSUME IInv, PlaceInv, NoReadingInv, [Next]_vars
    PROVE  NoReadingInv'
<1> SUFFICES ASSUME count'["crash"] = 0, NEW f \in Files, loc'[Data(f)] = "reading"
             PROVE  f = reader'.file
  BY DEF NoReadingInv
<1>1. count["crash"] = 0 /\ (\/ reader'.file = reader.file \/ reader.pc = "choose"
                             \/ loc[Data(reader.file)] # "reading")
  BY LetsGo
<1>2. CASE loc[Data(f)] = "reading"
  <2>1. f = reader.file
    BY <1>1, <1>2 DEF NoReadingInv
  <2>2. reader.pc # "choose"
    BY <2>1 DEF IInv, ReaderInv, Files, NoFile
  <2> QED BY <1>1, <1>2, <2>1, <2>2
<1>3. CASE loc[Data(f)] # "reading"
  <2>1. reader.file = f /\ reader' = [reader EXCEPT !.pc = "exists"]
    BY <1>3, StepMoves DEF DataMoves
  <2> QED BY <2>1 DEF IInv, TypeOK, ReaderStates
<1> QED BY <1>2, <1>3

\* A file is stranded in reading/ only if the reader process has been killed.
THEOREM StrandedByCrash == Spec => []StrandedOnlyByCrash
<1>1. Init => NoReadingInv
  BY EntryFacts DEF Init, NoReadingInv
<1>2. IInv /\ PlaceInv /\ NoReadingInv /\ [Next]_vars => NoReadingInv'
  BY NoReadingStep
<1>3. IInv /\ NoReadingInv => StrandedOnlyByCrash
  <2> SUFFICES ASSUME IInv, NoReadingInv, NEW f \in Files, Stranded(f) PROVE count["crash"] > 0
    BY DEF StrandedOnlyByCrash
  <2>1. count["crash"] \in Nat
    BY DEF IInv, TypeOK, Events
  <2> QED BY <2>1 DEF NoReadingInv, Stranded
<1> QED BY <1>1, <1>2, <1>3, Inductive, QueueFilesInPlace, PTL DEF Spec

-----------------------------------------------------------------------------
(* The order in which the lines of one worker are settled. *)

\* A worker's current file has the latest of the names it generated.
OwnerInv ==
    \A w \in Workers : writer[w].file # NoFile =>
        /\ owner[writer[w].file] = w
        /\ \A f \in 1..names : owner[f] = w => f <= writer[w].file

\* The reader has turned to g.
Taken(g) ==
    \/ loc[Data(g)] = "reading" \/ g \in Trackers \/ reader.file = g
    \/ \E j \in 1..Len(content[g]) : Handled(content[g][j])

\* Once the reader has turned to a file, no earlier file of the same worker is
\* readable, and in each file lines are settled from the first one on.
OrderInv ==
    /\ \A f, g \in Files : f < g /\ owner[f] = owner[g] /\ Taken(g)
          => loc[Data(f)] \in {"none", "gone"} \/ Stranded(f)
    /\ \A f \in Files : \A i, j \in 1..Len(content[f]) :
          i < j /\ Handled(content[f][j]) => Handled(content[f][i])

\* A worker keeps its file, has none after a kill, or generates a new name.
LEMMA NameMoves ==
    ASSUME IInv, [Next]_vars
    PROVE  \/ /\ UNCHANGED <<names, owner>>
              /\ \A w \in Workers : writer'[w].file \in {writer[w].file, NoFile}
           \/ \E w \in Workers : ResetToNewFile(w)
<1>1. CASE \E w \in Workers : WorkerStep(w) \/ WorkerFault(w)
  <2>1. PICK w \in Workers : WorkerStep(w) \/ WorkerFault(w)
    BY <1>1
  <2>2. CASE ~ResetToNewFile(w)
    <3>1. UNCHANGED <<names, owner>>
      BY <2>1, <2>2 DEF WorkerStep, WorkerFault, TakeTimestamp, WriteImage, ChooseFile, OpenExisting,
         CreateFile, AppendLine, WriteImageFails, WriteFails, WorkerCrash, nameVars
    <3>2. \A v \in Workers \ {w} : writer'[v] = writer[v]
      BY <2>1, <2>2 DEF WorkerStep, WorkerFault, TakeTimestamp, WriteImage, ChooseFile, OpenExisting,
         CreateFile, AppendLine, WriteImageFails, WriteFails, WorkerCrash, Becomes, Goto, Done,
         IInv, TypeOK
    <3>3. writer'[w].file \in {writer[w].file, NoFile}
      <4>1. writer \in [Workers -> WriterStates] /\ writer[w] \in WriterStates
        BY DEF IInv, TypeOK
      <4>2. ASSUME NEW s, Becomes(w, s) PROVE writer'[w] = s
        BY <4>1, <4>2 DEF Becomes
      <4>3. ASSUME NEW pc, Goto(w, pc) PROVE writer'[w].file = writer[w].file
        BY <4>1, <4>2, <4>3 DEF Goto, WriterStates
      <4>4. ASSUME Done(w) PROVE writer'[w].file = writer[w].file
        BY <4>1, <4>2, <4>4 DEF Done, WriterStates
      <4>5. CASE \E e \in Escalations : TakeTimestamp(w, e)
        BY <4>1, <4>2, <4>5 DEF TakeTimestamp, WriterStates
      <4>6. CASE AppendLine(w)
        BY <4>6, AppendFacts
      <4>7. CASE WorkerCrash(w)
        BY <4>2, <4>7 DEF WorkerCrash
      <4> QED BY <2>1, <2>2, <4>3, <4>4, <4>5, <4>6, <4>7 DEF WorkerStep, WorkerFault, WriteImage,
         ChooseFile, OpenExisting, CreateFile, WriteImageFails, WriteFails
    <3> QED BY <3>1, <3>2, <3>3
  <2> QED BY <2>2
<1>2. CASE ~(\E w \in Workers : WorkerStep(w) \/ WorkerFault(w))
  <2>1. UNCHANGED <<writer, names, owner>>
    BY <1>2 DEF Next, ReaderStep, ReaderCrash, ChooseTracked, ChooseOldest, RenameFile,
       CheckDataExists, OpenFiles, CountTracked, ReadLine, FinalRead, TrackLine, UnlinkData,
       UnlinkTracker, outsideReader, ConsumerStep, CheckCache, SubmitAccepted, SubmitRetryable,
       SubmitReplyLost, RetryWait, SubmitFails, HandleFailure, CacheRequest, UnlinkImage,
       outsideConsumer, SweepStep, SweepStart, SweepStat, SweepUnlink, SweepNextDir, outsideSweep,
       Tick, vars, nameVars
  <2> QED BY <2>1
<1> QED BY <1>1, <1>2

\* A new name is later than all others.
LEMMA OwnerStep ==
    ASSUME IInv, OwnerInv, [Next]_vars
    PROVE  OwnerInv'
<1>1. CASE /\ UNCHANGED <<names, owner>>
           /\ \A w \in Workers : writer'[w].file \in {writer[w].file, NoFile}
  BY <1>1 DEF OwnerInv
<1>2. CASE \E w \in Workers : ResetToNewFile(w)
  <2>1. PICK w \in Workers : ResetToNewFile(w)
    BY <1>2
  <2>2. /\ names \in Nat /\ names' = names + 1 /\ names + 1 \in Files
        /\ owner' = [owner EXCEPT ![names + 1] = w]
    BY <2>1, QueueAssumption DEF IInv, TypeOK, ResetToNewFile, Files
  <2>3. owner'[names + 1] = w /\ \A f \in 1..names : owner'[f] = owner[f]
    BY <2>2 DEF IInv, TypeOK, Files
  <2>4. writer'[w].file = names + 1 /\ \A v \in Workers \ {w} : writer'[v] = writer[v]
    BY <2>1 DEF ResetToNewFile, Becomes, IInv, TypeOK, WriterStates
  <2>5. \A v \in Workers : writer[v].file \in Nat /\ writer[v].file <= names
    BY DEF IInv, TypeOK, WriterInv, WriterStates, Files, NoFile
  <2>6. ASSUME NEW v \in Workers, writer'[v].file # NoFile
        PROVE  /\ owner'[writer'[v].file] = v
               /\ \A f \in 1..names' : owner'[f] = v => f <= writer'[v].file
    <3>1. CASE v = w
      BY <2>2, <2>3, <2>4, <3>1
    <3>2. CASE v # w
      <4>1. writer'[v] = writer[v] /\ writer[v].file \in 1..names
        BY <2>4, <2>5, <2>6, <3>2 DEF NoFile
      <4>2. owner[writer[v].file] = v /\ \A f \in 1..names : owner[f] = v => f <= writer[v].file
        BY <2>6, <4>1 DEF OwnerInv
      <4>3. \A f \in 1..names' : f \in 1..names \/ f = names + 1
        BY <2>2
      <4> QED BY <2>3, <3>2, <4>1, <4>2, <4>3
    <3> QED BY <3>1, <3>2
  <2> QED BY <2>6 DEF OwnerInv
<1> QED BY <1>1, <1>2, NameMoves

\* Every line of the next state is a line already or is not settled.
LEMMA SettledIsOld ==
    ASSUME IInv, PlaceInv, LinesInv, [Next]_vars,
           NEW f \in Files, NEW i \in 1..Len(content'[f]), Handled(content[f][i])'
    PROVE  /\ \A j \in 1..i : j \in 1..Len(content[f]) /\ content'[f][j] = content[f][j]
           /\ Handled(content[f][i]) \/ (reader.pc \in Undecided /\ reader.file = f /\ reader.pos = i)
<1>1. OutcomeMoves /\ HandMoves
  BY StepMoves
<1>2. reader.pc \in Undecided => reader.file \in Files /\ reader.pos \in 1..Len(content[reader.file])
  BY DEF IInv, TypeOK, ReaderInv, PositionInv, ReaderStates, Iterating, Undecided
<1>3. Len(content[f]) \in Nat
  BY DEF IInv, TypeOK
<1>4. ASSUME i \in 1..Len(content[f]), content'[f][i] = content[f][i]
      PROVE  Handled(content[f][i]) \/ (reader.pc \in Undecided /\ reader.file = f /\ reader.pos = i)
  <2>1. content[f][i] \in Escalations
    BY <1>4 DEF IInv, TypeOK
  <2>2. Handled(content[f][i]) \/ (reader.pc \in Undecided /\ content[f][i] = Line)
    BY <1>1, <1>4, <2>1 DEF OutcomeMoves, Handled
  <2>3. \A g \in Files : \A j \in 1..Len(content[g]) : content[f][i] = content[g][j] => f = g /\ i = j
    BY <1>4 DEF LinesInv
  <2> QED BY <1>2, <2>2, <2>3 DEF Line
<1>5. CASE UNCHANGED content
  BY <1>3, <1>4, <1>5
<1>6. CASE \E w \in Workers : AppendLine(w)
  <2>1. PICK w \in Workers : AppendLine(w)
    BY <1>6
  <2>2. CASE i \in 1..Len(content[f]) /\ content'[f][i] = content[f][i]
    <3>1. \A j \in 1..Len(content[f]) : content'[f][j] = content[f][j]
      BY <2>1, AppendFacts
    <3> QED BY <1>3, <1>4, <2>2, <3>1
  <2>3. CASE content'[f][i] = writer[w].esc
    <3>1. writer[w].esc \in Escalations \ written /\ outcome' = outcome
      BY <2>1, AppendFacts DEF LinesInv
    <3>2. Handled(writer[w].esc)
      BY <2>3, <3>1 DEF Handled
    <3> QED BY <3>1, <3>2 DEF LinesInv
  <2> QED BY <2>1, <2>2, <2>3, OldOrNew
<1>7. CASE UNCHANGED <<fresh, written, content>> \/ \E w \in Workers, e \in Escalations : TakeTimestamp(w, e)
  BY <1>5, <1>7 DEF TakeTimestamp
<1> QED BY <1>1, <1>6, <1>7 DEF HandMoves

\* A file the reader turns to, or is at, has been created.
LEMMA TakenExists ==
    ASSUME IInv, NEW g \in Files, Taken(g)
    PROVE  loc[Data(g)] # "none"
<1>1. reader.file = g => reader.pc # "choose"
  BY DEF IInv, ReaderInv, Files, NoFile
<1>2. reader.file = g => loc[Data(g)] # "none"
  BY <1>1 DEF IInv, ReaderInv
<1>3. (\E j \in 1..Len(content[g]) : TRUE) => content[g] # <<>>
  BY DEF IInv, TypeOK
<1> QED BY <1>2, <1>3 DEF Taken, IInv, ReaderInv, WriterInv

\* The reader turns to a file when it chooses it, the oldest in writing/.
LEMMA TurnsTo ==
    ASSUME IInv, PlaceInv, LinesInv, [Next]_vars, NEW g \in Files, Taken(g)', ~Taken(g)
    PROVE  /\ UNCHANGED loc /\ Trackers = {} /\ reader'.file = g
           /\ loc[Data(g)] = "writing" /\ \A f \in WritingFiles : g <= f
<1>1. DataMoves /\ TrackerMoves /\ FileMoves
  BY StepMoves
<1>2. loc'[Data(g)] # "reading"
  BY <1>1 DEF DataMoves, Taken
<1>3. g \notin Trackers'
  BY <1>1 DEF TrackerMoves, Taken, Trackers
<1>4. ASSUME NEW j \in 1..Len(content'[g]), Handled(content[g][j])' PROVE FALSE
  <2>1. j \in Nat /\ j \in 1..j
    BY DEF IInv, TypeOK
  <2>2. j \in 1..Len(content[g])
    BY <1>4, <2>1, SettledIsOld
  <2>3. Handled(content[g][j]) \/ reader.file = g
    BY <1>4, SettledIsOld
  <2> QED BY <2>2, <2>3 DEF Taken
<1>5. reader'.file = g
  BY <1>2, <1>3, <1>4 DEF Taken
<1> QED BY <1>1, <1>5 DEF FileMoves, Taken, WritingFiles, Files, NoFile

\* No step lets the reader turn to a later file while an earlier one is readable.
LEMMA OrderStep ==
    ASSUME IInv, PlaceInv, LinesInv, OwnerInv, OrderInv, [Next]_vars
    PROVE  OrderInv'
<1>1. DataMoves /\ TrackerMoves /\ FileMoves /\ OutcomeMoves
  BY StepMoves
<1>2. ASSUME NEW f \in Files, NEW g \in Files, f < g, owner'[f] = owner'[g], Taken(g)'
      PROVE  loc'[Data(f)] \in {"none", "gone"} \/ Stranded(f)'
  <2>1. loc[Data(g)] # "none"
    BY <1>2, TakenExists, TurnsTo
  <2>2. names \in Nat /\ g <= names /\ f \in 1..names /\ g \in 1..names
    BY <1>2, <2>1 DEF IInv, TypeOK, WriterInv, Files
  <2>3. owner[f] = owner[g]
    <3>1. \A w \in Workers : ResetToNewFile(w) => owner'[f] = owner[f] /\ owner'[g] = owner[g]
      BY <2>2 DEF ResetToNewFile, IInv, TypeOK, Files
    <3> QED BY <1>2, <3>1, NameMoves
  <2>4. CASE Taken(g)
    <3>1. loc[Data(f)] \in {"none", "gone"} \/ Stranded(f)
      BY <1>2, <2>3, <2>4 DEF OrderInv
    <3>2. CASE loc[Data(f)] = "none"
      <4>1. ASSUME NEW w \in Workers, writer[w].pc = "create", writer[w].file = f PROVE FALSE
        <5>1. owner[f] = w /\ \A h \in 1..names : owner[h] = w => h <= f
          BY <4>1 DEF OwnerInv, Files, NoFile
        <5>2. g <= f
          BY <2>2, <2>3, <5>1
        <5> QED BY <1>2, <5>2 DEF Files
      <4> QED BY <1>1, <3>2, <4>1 DEF DataMoves
    <3>3. CASE loc[Data(f)] = "gone"
      BY <1>1, <3>3 DEF DataMoves
    <3>4. CASE Stranded(f)
      <4>1. loc'[Data(f)] \in {"reading", "gone"}
        BY <1>1, <3>4 DEF DataMoves, Stranded
      <4>2. f \notin Trackers'
        BY <1>1, <3>4 DEF TrackerMoves, Stranded, Trackers
      <4>3. reader'.file # f
        BY <1>1, <3>4 DEF FileMoves, Stranded, WritingFiles, Files, NoFile
      <4> QED BY <4>1, <4>2, <4>3 DEF Stranded
    <3> QED BY <3>1, <3>2, <3>3, <3>4
  <2>5. CASE ~Taken(g)
    <3>1. UNCHANGED loc /\ Trackers = {} /\ reader'.file = g /\ \A h \in WritingFiles : g <= h
      BY <1>2, <2>5, TurnsTo
    <3>2. loc[Data(f)] # "writing"
      BY <1>2, <3>1 DEF WritingFiles, Files
    <3>3. loc[Data(f)] \in {"none", "gone", "reading"}
      BY <3>2, EntryFacts DEF IInv, TypeOK, PlaceInv, Dirs
    <3>4. Trackers' = {} /\ f # reader'.file
      BY <1>2, <3>1 DEF Trackers, Files
    <3> QED BY <3>1, <3>3, <3>4 DEF Stranded
  <2> QED BY <2>4, <2>5
<1>3. ASSUME NEW f \in Files, NEW i \in 1..Len(content'[f]), NEW j \in 1..Len(content'[f]),
             i < j, Handled(content[f][j])'
      PROVE  Handled(content[f][i])'
  <2>1. i \in 1..j /\ j \in 1..j
    BY <1>3
  <2>2. /\ j \in 1..Len(content[f]) /\ i \in 1..Len(content[f]) /\ content'[f][i] = content[f][i]
        /\ Handled(content[f][j]) \/ (reader.pc \in Undecided /\ reader.file = f /\ reader.pos = j)
    BY <1>3, <2>1, SettledIsOld
  <2>3. Handled(content[f][i])
    <3>1. CASE Handled(content[f][j])
      BY <1>3, <2>2, <3>1 DEF OrderInv
    <3>2. CASE reader.pc \in Undecided /\ reader.file = f /\ reader.pos = j
      BY <1>3, <2>1, <3>2 DEF IInv, PositionInv, Iterating
    <3> QED BY <2>2, <3>1, <3>2
  <2>4. content[f][i] \in Escalations
    BY <2>2 DEF IInv, TypeOK
  <2> QED BY <1>1, <2>2, <2>3, <2>4 DEF OutcomeMoves, Handled
<1> QED BY <1>2, <1>3 DEF OrderInv

\* The escalations of one worker are settled in the order it wrote them, for any
\* number of workers, files, kills and retention runs.
THEOREM SettledInOrder == Spec => []InWorkerOrder
<1>1. Init => OwnerInv /\ OrderInv
  <2> SUFFICES ASSUME Init PROVE OwnerInv /\ OrderInv
    OBVIOUS
  <2>1. \A f \in Files : content[f] = <<>> /\ loc[Data(f)] = "none"
    BY EntryFacts DEF Init
  <2> QED BY <2>1 DEF Init, OwnerInv, OrderInv
<1>2. IInv /\ PlaceInv /\ LinesInv /\ OwnerInv /\ OrderInv /\ [Next]_vars => OwnerInv' /\ OrderInv'
  BY OwnerStep, OrderStep
<1>3. IInv /\ OrderInv => InWorkerOrder
  <2> SUFFICES ASSUME IInv, OrderInv, NEW f \in Files, NEW g \in Files,
                      NEW i \in DOMAIN content[f], NEW j \in DOMAIN content[g],
                      owner[f] = owner[g], f < g \/ (f = g /\ i < j), Handled(content[g][j])
               PROVE  Handled(content[f][i]) \/ content[f][i] \in late \cup purged \/ Stranded(f)
    BY DEF InWorkerOrder
  <2>0. content[f] \in Seq(Escalations) /\ content[g] \in Seq(Escalations)
    BY DEF IInv, TypeOK
  <2>1. i \in 1..Len(content[f]) /\ j \in 1..Len(content[g]) /\ content[f] # <<>>
    BY <2>0
  <2>2. CASE f < g
    <3>1. loc[Data(f)] \in {"none", "gone"} \/ Stranded(f)
      BY <2>1, <2>2 DEF OrderInv, Taken
    <3>2. loc[Data(f)] # "none"
      BY <2>1 DEF IInv, WriterInv
    <3> QED BY <2>1, <3>1, <3>2 DEF IInv, GoneInv, Accounted
  <2>3. CASE f = g /\ i < j
    BY <2>1, <2>3 DEF OrderInv
  <2> QED BY <2>2, <2>3
<1> QED BY <1>1, <1>2, <1>3, Inductive, QueueFilesInPlace, WrittenOnce, PTL DEF Spec

-----------------------------------------------------------------------------
(* The queue implements EscalationDelivery: the steps by their effect. *)

\* Nothing enters the queue and no image of a settled escalation changes: what
\* leaves the queue unsettled is lost, and nothing else happens.
LEMMA LoseStep ==
    ASSUME UNCHANGED <<written, outcome, accepted>>,
           \A e \in Escalations : Handled(e) => (Exists(Image(e))' <=> Exists(Image(e))),
           \A e \in Escalations : InQueue(e)' => InQueue(e) \/ Handled(e)
    PROVE  [Delivery!Next]_Delivery!vars
<1> DEFINE S == {e \in Escalations : Stage(e) = "held" /\ Stage(e)' = "lost"}
<1>1. \A e \in Escalations : (Handled(e)' <=> Handled(e)) /\ (e \in written' <=> e \in written)
  BY DEF Handled
<1>2. \A e \in Escalations : Stage(e)' = Stage(e) \/ e \in S
  BY <1>1 DEF Stage
<1>3. \A e \in S : Stage(e) = "held" /\ Stage(e)' = "lost" /\ ~Handled(e)
  BY <1>1 DEF Stage
<1>4. S \in SUBSET Escalations
  OBVIOUS
<1>5. {e \in Escalations : Handled(e)}' = {e \in Escalations : Handled(e)}
  BY <1>1
<1> HIDE DEF S
<1>6. Delivery!Lose(S)
  BY <1>2, <1>3, <1>4, <1>5 DEF Delivery!Lose
<1> QED BY <1>4, <1>6 DEF Delivery!Next

\* The image of a settled escalation is deleted.
LEMMA SettleStep ==
    ASSUME NEW e \in Escalations, Handled(e), e \in written,
           UNCHANGED <<written, outcome, accepted>>, ~Exists(Image(e))',
           \A x \in Escalations \ {e} : Exists(Image(x))' <=> Exists(Image(x)),
           \A x \in Escalations : InQueue(x)' <=> InQueue(x)
    PROVE  [Delivery!Next]_Delivery!vars
<1>1. \A x \in Escalations : (Handled(x)' <=> Handled(x)) /\ (x \in written' <=> x \in written)
  BY DEF Handled
<1>2. \A x \in Escalations \ {e} : Stage(x)' = Stage(x)
  BY <1>1 DEF Stage
<1>3. Stage(e) \in {"held", "done"} /\ Stage(e)' = "done"
  BY <1>1 DEF Stage
<1>4. {x \in Escalations : Handled(x)}' = {x \in Escalations : Handled(x)}
  BY <1>1
<1>5. CASE Stage(e) = "held"
  <2>1. Delivery!Settle(e)
    BY <1>2, <1>3, <1>4, <1>5 DEF Delivery!Settle
  <2> QED BY <2>1 DEF Delivery!Next
<1>6. CASE Stage(e) = "done"
  BY <1>2, <1>3, <1>4, <1>6 DEF Delivery!vars
<1> QED BY <1>3, <1>5, <1>6

\* A decision is taken about the line in the consumer's hand, without the cloud.
LEMMA DecideStep ==
    ASSUME NEW e \in Escalations, e \in written, Handled(e) \/ InQueue(e), Handled(e)',
           UNCHANGED <<written, accepted>>,
           \A x \in Escalations \ {e} : Handled(x)' <=> Handled(x),
           \A x \in Escalations : Exists(Image(x))' <=> Exists(Image(x)),
           \A x \in Escalations \ {e} : InQueue(x)' <=> InQueue(x)
    PROVE  [Delivery!Next]_Delivery!vars
<1>1. \A x \in Escalations \ {e} : Stage(x)' = Stage(x)
  BY DEF Stage
<1>2. CASE Handled(e)
  <2>1. Stage(e)' = Stage(e)
    BY <1>2 DEF Stage
  <2>2. {x \in Escalations : Handled(x)}' = {x \in Escalations : Handled(x)}
    BY <1>2
  <2> QED BY <1>1, <2>1, <2>2 DEF Delivery!vars
<1>3. CASE ~Handled(e)
  <2>1. Stage(e) = "held" /\ Stage(e)' \in {"held", "done"}
    BY <1>3 DEF Stage
  <2>2. {x \in Escalations : Handled(x)}' = {x \in Escalations : Handled(x)} \cup {e}
    OBVIOUS
  <2>3. Delivery!Decide(e)
    BY <1>1, <2>1, <2>2 DEF Delivery!Decide
  <2> QED BY <2>3 DEF Delivery!Next
<1> QED BY <1>2, <1>3

\* The cloud takes in the line in the consumer's hand.
LEMMA TakeStep ==
    ASSUME NEW e \in Escalations, e \in written, Handled(e) \/ InQueue(e),
           Handled(e)' \/ (~Handled(e) /\ InQueue(e)'),
           UNCHANGED written, accepted' = [accepted EXCEPT ![e] = @ + 1],
           Exists(Image(e)),
           \A x \in Escalations \ {e} : Handled(x)' <=> Handled(x),
           \A x \in Escalations : Exists(Image(x))' <=> Exists(Image(x)),
           \A x \in Escalations \ {e} : InQueue(x)' <=> InQueue(x)
    PROVE  [Delivery!Next]_Delivery!vars
<1>1. \A x \in Escalations \ {e} : Stage(x)' = Stage(x)
  BY DEF Stage
<1>2. Stage(e) = "held" /\ Stage(e)' = "held"
  BY DEF Stage
<1>3. {x \in Escalations : Handled(x)}' \in
        {{x \in Escalations : Handled(x)}, {x \in Escalations : Handled(x)} \cup {e}}
  <2>1. CASE Handled(e)'
    <3>1. {x \in Escalations : Handled(x)}' = {x \in Escalations : Handled(x)} \cup {e}
      BY <2>1
    <3> QED BY <3>1
  <2>2. CASE ~Handled(e)' /\ ~Handled(e)
    <3>1. {x \in Escalations : Handled(x)}' = {x \in Escalations : Handled(x)}
      BY <2>2
    <3> QED BY <3>1
  <2> QED BY <2>1, <2>2
<1>4. Delivery!Take(e)
  BY <1>1, <1>2, <1>3 DEF Delivery!Take
<1> QED BY <1>4 DEF Delivery!Next

\* An escalation is written: to a file that will be read, or too late.
LEMMA PutStep ==
    ASSUME NEW e \in Escalations, e \notin written, written' = written \cup {e}, ~Handled(e),
           UNCHANGED <<outcome, accepted, loc>>,
           \A x \in Escalations \ {e} : InQueue(x)' <=> InQueue(x)
    PROVE  [Delivery!Next]_Delivery!vars
<1>1. \A x \in Escalations : (Handled(x)' <=> Handled(x)) /\ (Exists(Image(x))' <=> Exists(Image(x)))
  BY DEF Handled, Exists
<1>2. \A x \in Escalations \ {e} : Stage(x)' = Stage(x)
  BY <1>1 DEF Stage
<1>3. Stage(e) = "new" /\ Stage(e)' \in {"held", "lost"}
  BY <1>1 DEF Stage
<1>4. {x \in Escalations : Handled(x)}' = {x \in Escalations : Handled(x)}
  BY <1>1
<1>5. CASE Stage(e)' = "held"
  <2>1. Delivery!Put(e)
    BY <1>2, <1>3, <1>4, <1>5 DEF Delivery!Put
  <2> QED BY <2>1 DEF Delivery!Next
<1>6. CASE Stage(e)' = "lost"
  <2>1. Delivery!Lose({e})
    BY <1>2, <1>3, <1>4, <1>6 DEF Delivery!Lose
  <2> QED BY <2>1 DEF Delivery!Next
<1> QED BY <1>3, <1>5, <1>6

-----------------------------------------------------------------------------
(* The queue implements EscalationDelivery: which step has which effect. *)

\* A line enters the queue when it is appended and at no other time.
LEMMA NothingRejoins ==
    ASSUME UNCHANGED content,
           \A f \in Files : \A i \in DOMAIN content[f] :
              Queued(f, i)' => Queued(f, i) \/ Handled(content[f][i])
    PROVE  \A e \in Escalations : InQueue(e)' => InQueue(e) \/ Handled(e)
BY DEF InQueue

\* What is queued depends only on where files are and where the reader is.
LEMMA QueueStays ==
    ASSUME FilesStay, UNCHANGED <<content, tracked, reader>>
    PROVE  \A e \in Escalations : InQueue(e)' <=> InQueue(e)
<1>1. Trackers' = Trackers
  BY DEF FilesStay, Trackers
<1>2. \A f \in Files : \A i \in DOMAIN content[f] : Queued(f, i)' <=> Queued(f, i)
  BY <1>1 DEF FilesStay, Queued
<1> QED BY <1>2 DEF InQueue

\* The images of settled escalations stay while only queue files are touched.
LEMMA FilesOnly ==
    ASSUME TypeOK, NEW f \in Files, NEW d,
           loc' = [loc EXCEPT ![Data(f)] = d] \/ loc' = [loc EXCEPT ![Tracker(f)] = d] \/ UNCHANGED loc
    PROVE  \A e \in Escalations : Exists(Image(e))' <=> Exists(Image(e))
<1>1. Data(f) \in Entries /\ Tracker(f) \in Entries
  BY EntryFacts
<1>2. \A e \in Escalations : Image(e) \in Entries \ {Data(f), Tracker(f)}
  BY EntryFacts
<1>3. \A e \in Escalations : loc'[Image(e)] = loc[Image(e)]
  BY <1>1, <1>2, OneEntryMoves
<1> QED BY <1>3 DEF Exists

\* The steps of a worker.
LEMMA WorkerDelivers ==
    ASSUME IInv, PlaceInv, LinesInv, NEW w \in Workers, WorkerStep(w) \/ WorkerFault(w)
    PROVE  [Delivery!Next]_Delivery!vars
<1>1. CASE AppendLine(w)
  <2> DEFINE e == writer[w].esc
  <2>1. /\ e \in Escalations /\ e \notin written /\ ~Handled(e) /\ written' = written \cup {e}
        /\ UNCHANGED <<outcome, loc, reader, tracked>>
    BY <1>1, AppendFacts DEF LinesInv
  <2>2. UNCHANGED accepted
    BY <1>1 DEF AppendLine, outsideWriter
  <2>3. \A f \in Files, i \in Nat : Queued(f, i)' <=> Queued(f, i)
    BY <2>1 DEF Queued, Trackers
  <2>4. \A f \in Files : DOMAIN content[f] = 1..Len(content[f]) /\ Len(content[f]) \in Nat
    BY DEF IInv, TypeOK
  <2>5. \A f \in Files : DOMAIN content'[f] = 1..Len(content'[f]) /\ Len(content'[f]) \in Nat
    <3>1. TypeOK'
      BY WorkerType DEF IInv
    <3> QED BY <3>1 DEF TypeOK
  <2>6. ASSUME NEW x \in Escalations \ {e} PROVE InQueue(x)' <=> InQueue(x)
    <3>1. ASSUME NEW f \in Files, NEW i \in DOMAIN content[f], content[f][i] = x, Queued(f, i)
          PROVE  InQueue(x)'
      <4>1. i \in 1..Len(content[f])
        BY <2>4, <3>1
      <4>2. i \in 1..Len(content'[f]) /\ content'[f][i] = x
        BY <1>1, <2>4, <3>1, <4>1, AppendFacts
      <4> QED BY <2>3, <2>5, <3>1, <4>2 DEF InQueue
    <3>2. ASSUME NEW f \in Files, NEW i \in DOMAIN content'[f], content'[f][i] = x, Queued(f, i)'
          PROVE  InQueue(x)
      <4>1. i \in 1..Len(content'[f])
        BY <2>5, <3>2
      <4>2. i \in 1..Len(content[f]) /\ content[f][i] = x
        BY <1>1, <3>2, <4>1, OldOrNew
      <4> QED BY <2>3, <2>4, <3>2, <4>2 DEF InQueue
    <3> QED BY <3>1, <3>2 DEF InQueue
  <2> HIDE DEF e
  <2> QED BY <2>1, <2>2, <2>6, PutStep
<1>2. CASE CreateFile(w)
  <2>1. writer[w].file \in Files /\ loc[Data(writer[w].file)] = "none"
    BY <1>2 DEF IInv, WriterInv, CreateFile, At
  <2>2. UNCHANGED <<written, outcome, accepted, content, tracked, reader>>
    BY <1>2 DEF CreateFile, outsideWriter
  <2>3. \A e \in Escalations : Exists(Image(e))' <=> Exists(Image(e))
    BY <1>2, <2>1, FilesOnly DEF CreateFile, IInv
  <2>4. /\ loc'[Data(writer[w].file)] = "writing"
        /\ \A y \in Entries \ {Data(writer[w].file)} : loc'[y] = loc[y]
    BY <1>2, <2>1, OneEntryMoves, EntryFacts DEF IInv, CreateFile
  <2>5. \A f \in Files : /\ Tracker(f) \in Entries \ {Data(writer[w].file)}
                         /\ f # writer[w].file => Data(f) \in Entries \ {Data(writer[w].file)}
    BY EntryFacts
  <2>6. Trackers' = Trackers
    BY <2>4, <2>5 DEF Trackers
  <2>7. content[writer[w].file] = <<>>
    BY <2>1 DEF IInv, WriterInv
  <2>8. ASSUME NEW f \in Files, NEW i \in DOMAIN content[f], Queued(f, i)' PROVE Queued(f, i)
    <3>1. f # writer[w].file
      BY <2>7
    <3>2. loc'[Data(f)] = loc[Data(f)]
      BY <2>4, <2>5, <3>1
    <3> QED BY <2>2, <2>6, <2>8, <3>2 DEF Queued
  <2> QED BY <2>2, <2>3, <2>8, NothingRejoins, LoseStep
<1>3. CASE ~AppendLine(w) /\ ~CreateFile(w)
  <2>1. UNCHANGED <<written, outcome, accepted, content, tracked, reader>>
    BY <1>3 DEF WorkerStep, WorkerFault, TakeTimestamp, WriteImage, ChooseFile, OpenExisting,
       WriteImageFails, WriteFails, WorkerCrash, outsideWriter
  <2>2. UNCHANGED loc \/ (writer[w].pc = "image" /\ PutImage(writer[w].esc))
    BY <1>3 DEF WorkerStep, WorkerFault, TakeTimestamp, WriteImage, ChooseFile, OpenExisting,
       WriteImageFails, WriteFails, WorkerCrash, diskVars, At
  <2>3. CASE UNCHANGED loc
    BY <2>1, <2>3, QueueStays, LoseStep DEF FilesStay, Exists
  <2>4. CASE writer[w].pc = "image" /\ PutImage(writer[w].esc)
    <3>1. writer[w].esc \in Escalations /\ ~Handled(writer[w].esc)
      BY <2>4 DEF IInv, WriterInv, LinesInv
    <3>2. FilesStay
      BY <2>4, <3>1, ImageMoves DEF IInv, PutImage
    <3>3. \A y \in Entries \ {Image(writer[w].esc)} : loc'[y] = loc[y]
      BY <2>4, <3>1, OneEntryMoves, EntryFacts DEF IInv, PutImage
    <3>4. \A e \in Escalations : e # writer[w].esc => Image(e) \in Entries \ {Image(writer[w].esc)}
      BY EntryFacts DEF Image
    <3>5. \A e \in Escalations : Handled(e) => (Exists(Image(e))' <=> Exists(Image(e)))
      BY <3>1, <3>3, <3>4 DEF Exists
    <3> QED BY <2>1, <3>2, <3>5, QueueStays, LoseStep
  <2> QED BY <2>2, <2>3, <2>4
<1> QED BY <1>1, <1>2, <1>3

\* The steps of the reader only let go of lines: a file it chooses, moves or opens
\* was queued before, and a line it counts or skips is settled.
LEMMA ReaderDelivers ==
    ASSUME IInv, PlaceInv, ReaderStep \/ ReaderCrash
    PROVE  [Delivery!Next]_Delivery!vars
<1>1. UNCHANGED <<written, outcome, accepted, content>>
  BY DEF ReaderStep, ReaderCrash, ChooseTracked, ChooseOldest, RenameFile, CheckDataExists, OpenFiles,
     CountTracked, ReadLine, FinalRead, TrackLine, UnlinkData, UnlinkTracker, outsideReader
<1>2. reader \in ReaderStates /\ TypeOK /\ reader.pos \in Nat
  BY DEF IInv, TypeOK, ReaderStates
<1>3. reader.pc # "choose" => reader.file \in Files
  BY DEF IInv, ReaderInv
<1>4. \A e \in Escalations : Exists(Image(e))' <=> Exists(Image(e))
  <2>1. CASE UNCHANGED loc
    BY <2>1 DEF Exists
  <2>2. CASE reader.pc # "choose" /\ \E d : \/ loc' = [loc EXCEPT ![Data(reader.file)] = d]
                                           \/ loc' = [loc EXCEPT ![Tracker(reader.file)] = d]
    BY <1>2, <1>3, <2>2, FilesOnly
  <2> QED BY <2>1, <2>2 DEF ReaderStep, ReaderCrash, ChooseTracked, ChooseOldest, RenameFile,
     CheckDataExists, OpenFiles, CountTracked, ReadLine, FinalRead, TrackLine, UnlinkData,
     UnlinkTracker, UnlinkIfPresent, Unlink, diskVars, ReaderAt
<1>5. \A f \in Files : \A i \in DOMAIN content[f] : Queued(f, i)' => Queued(f, i) \/ Handled(content[f][i])
  <2> SUFFICES ASSUME NEW f \in Files, NEW i \in DOMAIN content[f], Queued(f, i)', ~Handled(content[f][i])
               PROVE  Queued(f, i)
    OBVIOUS
  <2>0. i \in 1..Len(content[f]) /\ i \in Nat
    <3>1. content[f] \in Seq(Escalations)
      BY <1>2 DEF TypeOK
    <3> QED BY <3>1
  <2>1. \/ loc'[Data(f)] = loc[Data(f)]
        \/ loc[Data(f)] = "writing"
        \/ loc'[Data(f)] = "gone"
    BY StepMoves, <2>0 DEF DataMoves, IInv, WriterInv, Next
  <2>2. f \in Trackers' => f \in Trackers \/ (loc[Data(f)] = "reading" /\ reader.pc = "open" /\ reader.file = f)
    BY StepMoves DEF TrackerMoves, Trackers, Next
  <2>3. reader.file = f => reader.pc # "choose"
    BY DEF IInv, ReaderInv, Files, NoFile
  <2>4. f \in Trackers => i > tracked[f]
    <3>1. tracked[f] \in Nat
      BY <1>2 DEF TypeOK
    <3>2. f \in Trackers /\ i \in 1..tracked[f] => Handled(content[f][i])
      BY DEF IInv, TrackerNeverAhead
    <3> QED BY <2>0, <3>1, <3>2
  <2>5. /\ ChooseTracked => reader'.pc = "exists"
        /\ ChooseOldest => reader'.pc = "rename"
        /\ RenameFile => reader'.pc \in {"exists", "choose"}
        /\ CheckDataExists => reader'.pc \in {"open", "choose"}
        /\ OpenFiles => reader'.pc \in {"count", "choose"}
        /\ CountTracked => reader'.pc = "read"
        /\ ReadLine => reader'.pc \in {"consume", "sleep"}
        /\ FinalRead => reader'.pc \in {"consume", "unlinkData"}
        /\ TrackLine => reader'.pc \in {"read", "unlinkData"}
        /\ UnlinkData => reader'.pc = "unlinkTracker"
        /\ UnlinkTracker \/ ReaderCrash => reader'.pc = "choose"
    <3>1. ASSUME NEW pc, ReaderGoto(pc) PROVE reader'.pc = pc
      BY <1>2, <3>1 DEF ReaderGoto, ReaderStates
    <3>2. ReaderReset => reader'.pc = "choose"
      BY DEF ReaderReset
    <3>3. ChooseTracked => reader'.pc = "exists"
      BY <1>2 DEF ChooseTracked, ReaderStates
    <3>4. ChooseOldest => reader'.pc = "rename"
      BY <1>2 DEF ChooseOldest, ReaderStates
    <3>5. CountTracked => reader'.pc = "read"
      BY <1>2 DEF CountTracked, ReaderStates
    <3>6. /\ ReadLine => reader'.pc \in {"consume", "sleep"}
          /\ FinalRead => reader'.pc \in {"consume", "unlinkData"}
      BY <1>2, <3>1 DEF ReadLine, FinalRead, ReaderStates
    <3>7. TrackLine => reader'.pc \in {"read", "unlinkData"}
      BY <3>1 DEF TrackLine
    <3> QED BY <3>1, <3>2, <3>3, <3>4, <3>5, <3>6, <3>7 DEF RenameFile, CheckDataExists, OpenFiles,
       UnlinkData, UnlinkTracker, ReaderCrash
  <2>6. loc[Data(f)] # "writing" /\ loc'[Data(f)] = "reading" => loc[Data(f)] = "reading"
    BY <2>1
  <2>7. ASSUME loc'[Data(f)] = "writing" PROVE Queued(f, i)
    BY <2>1, <2>7 DEF Queued
  <2>8. ASSUME loc'[Data(f)] = "reading", f \in Trackers' PROVE Queued(f, i)
    BY <2>2, <2>4, <2>6, <2>8 DEF Queued
  <2>9. ASSUME reader'.file = f, reader'.pc \in {"exists", "open"}, loc'[Data(f)] = "reading"
        PROVE  Queued(f, i)
    <3>1. CASE ChooseTracked
      <4>1. reader' \in [pc : {"exists"}, file : Trackers, pos : Nat, last : {"yes", "no"}]
        BY <1>2, <3>1 DEF ChooseTracked, ReaderStates
      <4> QED BY <2>4, <2>6, <2>9, <4>1 DEF Queued
    <3>2. CASE RenameFile
      BY <1>2, <2>6, <2>9, <3>2 DEF RenameFile, ReaderAt, ReaderGoto, ReaderReset, ReaderStates, Queued
    <3>3. CASE CheckDataExists
      BY <1>2, <2>6, <2>9, <3>3 DEF CheckDataExists, ReaderAt, ReaderGoto, ReaderReset, ReaderStates, Queued
    <3>4. ChooseTracked \/ RenameFile \/ CheckDataExists
      BY <2>5, <2>9 DEF ReaderStep
    <3> QED BY <2>9, <3>1, <3>2, <3>3, <3>4
  <2>10. ASSUME reader'.file = f, reader'.pc = "count" PROVE Queued(f, i)
    <3>1. OpenFiles
      BY <2>5, <2>10 DEF ReaderStep
    <3> QED BY <1>2, <2>10, <3>1 DEF OpenFiles, ReaderAt, ReaderGoto, ReaderReset, ReaderStates, Queued
  <2>11. ASSUME reader'.file = f, reader'.pc \in Iterating,
                i > reader'.pos \/ (reader'.pc \in Undecided /\ i = reader'.pos)
         PROVE  Queued(f, i)
    <3>1. CountTracked \/ ReadLine \/ FinalRead \/ TrackLine
      BY <2>5, <2>11 DEF ReaderStep, Iterating, Undecided, Settled
    <3>2. reader'.file = reader.file
      BY <1>2, <3>1 DEF CountTracked, ReadLine, FinalRead, TrackLine, ReaderGoto, ReaderStates
    <3>3. CASE CountTracked
      BY <2>11, <3>2, <3>3 DEF CountTracked, ReaderAt, Queued
    <3>4. CASE ReadLine \/ FinalRead \/ TrackLine
      <4>1. /\ reader.pc \in {"read", "sleep", "track"}
            /\ \/ reader'.pc \in {"read", "sleep", "unlinkData"} /\ reader'.pos = reader.pos
               \/ reader'.pos = reader.pos + 1
        BY <1>2, <3>4 DEF ReadLine, FinalRead, TrackLine, ReaderGoto, ReaderAt, ReaderStates
      <4>2. i > reader.pos
        BY <1>2, <2>0, <2>11, <4>1 DEF Undecided
      <4> QED BY <2>11, <3>2, <4>1, <4>2 DEF Queued, Iterating, Settled
    <3> QED BY <3>1, <3>3, <3>4
  <2>12. \/ loc'[Data(f)] = "writing"
         \/ loc'[Data(f)] = "reading" /\ f \in Trackers'
         \/ loc'[Data(f)] = "reading" /\ reader'.file = f /\ reader'.pc \in {"exists", "open"}
         \/ reader'.file = f /\ reader'.pc = "count"
         \/ /\ reader'.file = f /\ reader'.pc \in Iterating
            /\ i > reader'.pos \/ (reader'.pc \in Undecided /\ i = reader'.pos)
    BY DEF Queued, Iterating
  <2> QED BY <2>7, <2>8, <2>9, <2>10, <2>11, <2>12
<1> QED BY <1>1, <1>4, <1>5, NothingRejoins, LoseStep

\* While the reader stays at its line, what is queued stays so, but for that line.
LEMMA OthersStay ==
    ASSUME IInv, FilesStay, UNCHANGED <<content, tracked>>, NEW pc, ReaderGoto(pc),
           reader.pc \in Undecided \cup Settled, pc \in Undecided \cup Settled
    PROVE  /\ \A e \in Escalations \ {Line} : InQueue(e)' <=> InQueue(e)
           /\ (reader.pc \in Undecided <=> pc \in Undecided) =>
                 \A e \in Escalations : InQueue(e)' <=> InQueue(e)
<1>1. Trackers' = Trackers
  BY DEF FilesStay, Trackers
<1>2. reader'.pc = pc /\ reader'.file = reader.file /\ reader'.pos = reader.pos
  BY DEF ReaderGoto, IInv, TypeOK, ReaderStates
<1>3. reader.pc \in Iterating /\ pc \in Iterating
      /\ reader.pc \notin {"exists", "open", "count"} /\ pc \notin {"exists", "open", "count"}
  BY DEF Iterating, Undecided, Settled
<1>4. \A f \in Files : \A i \in DOMAIN content[f] :
         ~(f = reader.file /\ i = reader.pos) \/ (reader.pc \in Undecided <=> pc \in Undecided)
            => (Queued(f, i)' <=> Queued(f, i))
  BY <1>1, <1>2, <1>3 DEF FilesStay, Queued
<1>5. \A f \in Files : \A i \in DOMAIN content[f] :
         f = reader.file /\ i = reader.pos => content[f][i] = Line
  BY DEF Line
<1> QED BY <1>4, <1>5 DEF InQueue

\* The steps of the consumer: the line in its hand is taken in, decided or settled.
LEMMA ConsumerDelivers ==
    ASSUME IInv, PlaceInv, LinesInv, ConsumerStep
    PROVE  [Delivery!Next]_Delivery!vars
<1>1. UNCHANGED <<written, content, tracked>>
  BY DEF ConsumerStep, CheckCache, SubmitAccepted, SubmitRetryable, SubmitReplyLost, RetryWait,
     SubmitFails, HandleFailure, CacheRequest, UnlinkImage, outsideConsumer
<1>2. reader.pc \in Undecided \cup Settled
  BY DEF ConsumerStep, CheckCache, SubmitAccepted, SubmitRetryable, SubmitReplyLost, RetryWait,
     SubmitFails, HandleFailure, CacheRequest, UnlinkImage, ReaderAt, Undecided, Settled
<1>3. /\ reader.file \in Files /\ reader.pos \in 1..Len(content[reader.file])
      /\ reader.pos \in DOMAIN content[reader.file]
  BY <1>2 DEF IInv, TypeOK, ReaderInv, PositionInv, ReaderStates, Iterating, Undecided, Settled
<1>4. Line \in Escalations /\ Line \in written
  BY <1>2, <1>3, LineType DEF IInv, LinesInv, Line
<1>5. reader.pc \in Undecided => InQueue(Line)
  BY <1>3 DEF InQueue, Queued, Line
<1>6. reader.pc \in Settled => Handled(Line)
  BY <1>3 DEF IInv, PositionInv, Line, Iterating, Undecided, Settled
<1>7. UNCHANGED loc => FilesStay /\ \A e \in Escalations : Exists(Image(e))' <=> Exists(Image(e))
  BY DEF FilesStay, Exists
<1> PICK e \in Escalations : e = Line
  BY <1>4
<1>8. ASSUME NEW o, Result(o)
      PROVE  Handled(e)' /\ \A x \in Escalations \ {e} : Handled(x)' <=> Handled(x)
  <2>1. outcome'[e] = outcome[e] \cup {o} /\ \A x \in Escalations \ {e} : outcome'[x] = outcome[x]
    BY <1>8 DEF Result, IInv, TypeOK
  <2> QED BY <2>1 DEF Handled
<1>9. CASE CheckCache \/ HandleFailure
  <2>1. CASE (\E o : Result(o)) /\ ReaderGoto("cache") /\ UNCHANGED <<loc, accepted>> /\ reader.pc \in Undecided
    <3>1. Handled(e)' /\ \A x \in Escalations \ {e} : Handled(x)' <=> Handled(x)
      BY <1>8, <2>1
    <3>2. \A x \in Escalations \ {e} : InQueue(x)' <=> InQueue(x)
      BY <1>1, <1>2, <1>7, <2>1, OthersStay DEF Settled
    <3> QED BY <1>1, <1>4, <1>5, <1>7, <2>1, <3>1, <3>2, DecideStep
  <2>2. CASE ReaderGoto("submit") /\ UNCHANGED <<outcome, loc, accepted>> /\ reader.pc \in Undecided
    BY <1>1, <1>7, <2>2, OthersStay, LoseStep DEF Undecided
  <2> QED BY <1>9, <2>1, <2>2 DEF CheckCache, HandleFailure, ReaderAt, Undecided
<1>10. CASE SubmitAccepted
  <2>1. Handled(e)' /\ \A x \in Escalations \ {e} : Handled(x)' <=> Handled(x)
    BY <1>8, <1>10 DEF SubmitAccepted
  <2>2. /\ reader.pc \in Undecided /\ ReaderGoto("cache") /\ UNCHANGED loc
        /\ Exists(Image(e)) /\ accepted' = [accepted EXCEPT ![e] = @ + 1]
    BY <1>10 DEF SubmitAccepted, CloudTakesIn, ReaderAt, Undecided
  <2>3. \A x \in Escalations \ {e} : InQueue(x)' <=> InQueue(x)
    BY <1>1, <1>2, <1>7, <2>2, OthersStay DEF Settled
  <2> QED BY <1>1, <1>4, <1>5, <1>7, <2>1, <2>2, <2>3, TakeStep
<1>11. CASE SubmitReplyLost
  <2>1. /\ reader.pc \in Undecided /\ ReaderGoto("wait") /\ UNCHANGED <<loc, outcome>>
        /\ Exists(Image(e)) /\ accepted' = [accepted EXCEPT ![e] = @ + 1]
    BY <1>11 DEF SubmitReplyLost, CloudTakesIn, ReaderAt, Undecided
  <2>2. \A x \in Escalations : InQueue(x)' <=> InQueue(x)
    BY <1>1, <1>7, <2>1, OthersStay DEF Undecided
  <2>3. \A x \in Escalations : Handled(x)' <=> Handled(x)
    BY <2>1 DEF Handled
  <2> QED BY <1>1, <1>4, <1>5, <1>7, <2>1, <2>2, <2>3, TakeStep
<1>12. CASE SubmitRetryable \/ RetryWait \/ SubmitFails \/ CacheRequest
  BY <1>1, <1>7, <1>12, OthersStay, LoseStep
     DEF SubmitRetryable, RetryWait, SubmitFails, CacheRequest, ReaderAt, Undecided, Settled
<1>13. CASE UnlinkImage
  <2>1. /\ reader.pc = "unlinkImage" /\ ReaderGoto("track") /\ UNCHANGED <<outcome, accepted>>
        /\ UnlinkIfPresent(Image(e))
    BY <1>13 DEF UnlinkImage, ReaderAt
  <2>2. CASE UNCHANGED loc
    BY <1>1, <1>7, <2>1, <2>2, OthersStay, LoseStep DEF Undecided, Settled
  <2>3. CASE loc' = [loc EXCEPT ![Image(e)] = "gone"]
    <3>1. loc'[Image(e)] = "gone" /\ \A y \in Entries \ {Image(e)} : loc'[y] = loc[y]
      BY <2>3, OneEntryMoves, EntryFacts DEF IInv
    <3>2. \A x \in Escalations \ {e} : Image(x) \in Entries \ {Image(e)}
      BY EntryFacts DEF Image
    <3>3. ~Exists(Image(e))' /\ \A x \in Escalations \ {e} : Exists(Image(x))' <=> Exists(Image(x))
      BY <3>1, <3>2 DEF Exists, Dirs
    <3>4. FilesStay
      BY <2>3, ImageMoves DEF IInv
    <3>5. \A x \in Escalations : InQueue(x)' <=> InQueue(x)
      BY <1>1, <2>1, <3>4, OthersStay DEF Undecided, Settled
    <3>6. Handled(e)
      BY <1>6, <2>1 DEF Settled
    <3> QED BY <1>1, <1>4, <2>1, <3>3, <3>5, <3>6, SettleStep
  <2> QED BY <2>1, <2>2, <2>3 DEF UnlinkIfPresent, Unlink
<1> QED BY <1>9, <1>10, <1>11, <1>12, <1>13 DEF ConsumerStep

\* The steps of the retention job: an image deleted settles what was decided, a
\* queue file or tracking file deleted only lets go of lines.
LEMMA SweepDelivers ==
    ASSUME IInv, PlaceInv, LinesInv, SweepStep
    PROVE  [Delivery!Next]_Delivery!vars
<1>1. UNCHANGED <<written, outcome, accepted, content, tracked, reader>>
  BY DEF SweepStep, SweepStart, SweepStat, SweepUnlink, SweepNextDir, outsideSweep
<1>2. CASE UNCHANGED loc
  BY <1>1, <1>2, QueueStays, LoseStep DEF FilesStay, Exists
<1>3. CASE SweepUnlink /\ ~UNCHANGED loc
  <2> DEFINE v == sweep.victim
  <2>1. v \in Entries /\ loc' = [loc EXCEPT ![v] = "gone"]
    BY <1>3 DEF SweepUnlink, IInv, TypeOK, SweepStates
  <2>2. loc'[v] = "gone" /\ \A y \in Entries \ {v} : loc'[y] = loc[y]
    BY <2>1, OneEntryMoves DEF IInv
  <2> HIDE DEF v
  <2>3. ASSUME NEW e \in Escalations, v = Image(e) PROVE [Delivery!Next]_Delivery!vars
    <3>1. FilesStay
      BY <2>1, <2>3, ImageMoves DEF IInv
    <3>2. \A x \in Escalations : InQueue(x)' <=> InQueue(x)
      BY <1>1, <3>1, QueueStays
    <3>3. \A x \in Escalations \ {e} : Image(x) \in Entries \ {Image(e)}
      BY EntryFacts DEF Image
    <3>4. ~Exists(Image(e))' /\ \A x \in Escalations \ {e} : Exists(Image(x))' <=> Exists(Image(x))
      BY <2>2, <2>3, <3>3 DEF Exists, Dirs
    <3>5. CASE Handled(e)
      BY <1>1, <3>2, <3>4, <3>5, SettleStep DEF LinesInv
    <3>6. CASE ~Handled(e)
      BY <1>1, <3>2, <3>4, <3>6, LoseStep
    <3> QED BY <3>5, <3>6
  <2>4. ASSUME NEW h \in Files, v = Data(h) \/ v = Tracker(h) PROVE [Delivery!Next]_Delivery!vars
    <3>1. \A e \in Escalations : Exists(Image(e))' <=> Exists(Image(e))
      BY <2>1, <2>4, FilesOnly DEF IInv
    <3>2. \A f \in Files : Data(f) \in Entries /\ Tracker(f) \in Entries
      BY EntryFacts
    <3>3. \A f \in Files : /\ loc'[Data(f)] \in {"writing", "reading"} => loc'[Data(f)] = loc[Data(f)]
                           /\ f \in Trackers' => f \in Trackers
      BY <2>2, <3>2 DEF Trackers
    <3>4. \A f \in Files : \A i \in DOMAIN content[f] : Queued(f, i)' => Queued(f, i)
      BY <1>1, <3>3 DEF Queued
    <3> QED BY <1>1, <3>1, <3>4, NothingRejoins, LoseStep
  <2> QED BY <2>1, <2>3, <2>4 DEF Entries
<1> QED BY <1>2, <1>3 DEF SweepStep, SweepStart, SweepStat, SweepNextDir

\* The queue delivers what EscalationDelivery promises: what is decided is never lost,
\* what is lost is never taken in again, and the cloud takes in only what is held.
THEOREM QueueDelivers == Spec => DeliveryImplemented
<1>1. Init => Delivery!Init
  <2> SUFFICES ASSUME Init PROVE Delivery!Init
    OBVIOUS
  <2>1. \A e \in Escalations : Stage(e) = "new" /\ ~Handled(e)
    BY DEF Init, Stage, Handled
  <2> QED BY <2>1 DEF Init, Delivery!Init
<1>2. IInv /\ PlaceInv /\ LinesInv /\ [Next]_vars => [Delivery!Next]_Delivery!vars
  <2> SUFFICES ASSUME IInv, PlaceInv, LinesInv, [Next]_vars
               PROVE  [Delivery!Next]_Delivery!vars
    OBVIOUS
  <2>1. CASE Tick \/ UNCHANGED vars
    <3>1. UNCHANGED <<written, outcome, accepted, content, tracked, reader, loc>>
      BY <2>1 DEF Tick, vars, diskVars
    <3> QED BY <3>1, QueueStays, LoseStep DEF FilesStay, Exists
  <2> QED BY <2>1, WorkerDelivers, ReaderDelivers, ConsumerDelivers, SweepDelivers DEF Next
<1> QED BY <1>1, <1>2, Inductive, QueueFilesInPlace, WrittenOnce, PTL
       DEF Spec, DeliveryImplemented, Delivery!Spec

=============================================================================
