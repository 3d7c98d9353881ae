----------------------- MODULE EscalationImageProofs -----------------------
(***************************************************************************)
(* Proofs about the images of the escalation queue and the retention job:  *)
(* an image is there until its escalation is settled or has expired, so a  *)
(* missing image is never recorded as a failed escalation.  Retention      *)
(* looks at modification times, the consumer at the escalation's own       *)
(* timestamp; the invariants relate the two.                               *)
(***************************************************************************)
EXTENDS EscalationLineProofs

\* e is a line of f, or the next line of the worker that has f open.
OnFile(e, f) ==
    \/ \E i \in 1..Len(content[f]) : content[f][i] = e
    \/ \E w \in Workers : writer[w].pc = "append" /\ writer[w].file = f /\ writer[w].esc = e

\* The reader has the data file and the tracking file open.
Opened(f) == reader.file = f /\ reader.pc \in Iterating \cup {"count"}

\* The consumer would find the image, or would drop the failure.
Present(e) == Exists(Image(e)) \/ Expired(e)

\* A worker whose image is on disk and whose line is not.
Imaged == {"choose", "open", "create", "append"}

\* Clocks and directories: nothing is stamped in the future, an image is written once
\* and not before its timestamp, a tracking file is in reading/ or nowhere.
ClockInv ==
    /\ sweep.at <= now
    /\ \A e \in Escalations : stamp[e] <= now
    /\ \A e \in fresh : loc[Image(e)] = "none"
    /\ \A w \in Workers : writer[w].pc = "image" => loc[Image(writer[w].esc)] = "none"
    /\ \A e \in Escalations : loc[Image(e)] \in {"none", "images", "gone"}
    /\ \A e \in Escalations : Exists(Image(e)) => stamp[e] <= mtime[Image(e)]
    /\ \A f \in Files : loc[Tracker(f)] \in {"none", "reading", "gone"}
    /\ \A f \in Files : loc[Data(f)] \in {"none", "writing"} => loc[Tracker(f)] = "none"
    /\ \A f \in Files : Opened(f) => loc[Tracker(f)] # "none"

\* What retention is about to remove, or has removed too early for the reader, has
\* expired: an image by its escalation, a tracking file by all lines of its file.
AgeInv ==
    /\ \A e \in Escalations : sweep.victim = Image(e) => Expired(e) /\ e \notin fresh
    /\ \A f \in Files : sweep.victim = Tracker(f) =>
          loc[Data(f)] \in {"reading", "gone"} /\ \A e \in Escalations : OnFile(e, f) => Expired(e)
    /\ \A f \in Trackers : \A e \in Escalations : OnFile(e, f) => stamp[e] <= mtime[Tracker(f)]
    /\ \A f \in Files : loc[Tracker(f)] = "gone" /\ (loc[Data(f)] = "reading" \/ Opened(f)) =>
          \A e \in Escalations : OnFile(e, f) => Expired(e)

\* Whatever the consumer may still submit is present; the one line that a restarted
\* reader takes again without its image is skipped, its request being cached.
PresentInv ==
    /\ \A w \in Workers : writer[w].pc \in Imaged => Present(writer[w].esc)
    /\ \A f \in Files : loc[Data(f)] = "writing" =>
          \A i \in 1..Len(content[f]) : Present(content[f][i])
    /\ \A f \in Trackers : \A i \in 1..Len(content[f]) : i > tracked[f] =>
          \/ Present(content[f][i])
          \/ i = tracked[f] + 1 /\ Cached(cache, RequestOf[content[f][i]])
    /\ reader.pc \in {"exists", "open"} /\ loc[Tracker(reader.file)] = "none" =>
          \A i \in 1..Len(content[reader.file]) : Present(content[reader.file][i])
    /\ reader.pc \in {"submit", "wait", "failed"} => Present(Line)
    /\ reader.pc \in {"unlinkImage", "track"} => Cached(cache, RequestOf[Line])

-----------------------------------------------------------------------------
(* What a step can do to clocks, images and tracking files. *)

\* Time does not go back, and only a fresh escalation gets a timestamp.
TimeMoves ==
    /\ now' >= now
    /\ fresh' \subseteq fresh
    /\ \A e \in Escalations : stamp'[e] # stamp[e] => e \in fresh /\ stamp'[e] = now

\* An image is written by the worker about to, or removed by consumer or retention.
PictureMoves ==
    \A e \in Escalations :
        \/ loc'[Image(e)] = loc[Image(e)] /\ mtime'[Image(e)] = mtime[Image(e)]
        \/ /\ loc'[Image(e)] = "images" /\ mtime'[Image(e)] = now
           /\ \E w \in Workers : /\ writer[w].pc = "image" /\ writer[w].esc = e
                                 /\ writer'[w].pc # "image"
        \/ /\ loc'[Image(e)] = "gone" /\ Exists(Image(e))
           /\ sweep.victim = Image(e) \/ (UnlinkImage /\ e = Line)

\* A tracking file is new or written to at this time, or is as it was; it disappears
\* when retention removes it or when the reader is done with its data file.
TrackingMoves ==
    \A f \in Files :
        /\ f \in Trackers' => \/ mtime'[Tracker(f)] = now
                              \/ f \in Trackers /\ mtime'[Tracker(f)] = mtime[Tracker(f)]
        /\ loc'[Tracker(f)] = "gone" =>
              \/ loc[Tracker(f)] = "gone"
              \/ Exists(Tracker(f)) /\ sweep.victim = Tracker(f)
              \/ Exists(Tracker(f)) /\ loc'[Data(f)] # "reading" /\ reader'.file = NoFile

\* Retention picks a victim that was modified before the cutoff.
VictimMoves ==
    /\ sweep'.at \in {sweep.at, now}
    /\ \/ sweep'.victim \in {sweep.victim, NoEntry}
       \/ /\ sweep'.victim \in Entries /\ BeforeCutoff(sweep'.victim)
          /\ UNCHANGED <<now, writer, reader, loc, mtime, content, fresh, stamp>>

\* How a worker comes to hold an image it has written, or an open file.
GripMoves ==
    \A w \in Workers :
        /\ writer'[w].pc = "image" =>
              \/ writer[w].pc = "image" /\ writer'[w].esc = writer[w].esc
              \/ TakeTimestamp(w, writer'[w].esc)
        /\ writer'[w].pc \in Imaged =>
              /\ writer'[w].esc = writer[w].esc
              /\ writer[w].pc \in Imaged \/ (writer[w].pc = "image" /\ loc'[Image(writer[w].esc)] = "images")
        /\ writer'[w].pc = "append" =>
              \/ writer[w].pc = "append" /\ writer'[w].file = writer[w].file
              \/ loc[Data(writer'[w].file)] \in {"none", "writing"}

\* A worker's step moves no other worker.
LEMMA OneWorkerMoves ==
    ASSUME TypeOK, NEW w \in Workers, NEW s, Becomes(w, s)
    PROVE  writer'[w] = s /\ \A v \in Workers \ {w} : writer'[v] = writer[v]
BY DEF TypeOK, Becomes

\* What a worker can do.
LEMMA WorkerTimes ==
    ASSUME IInv, NEW w \in Workers, WorkerStep(w) \/ WorkerFault(w)
    PROVE  TimeMoves /\ PictureMoves /\ TrackingMoves /\ VictimMoves /\ GripMoves
<1>1. UNCHANGED <<now, sweep, reader>>
  BY DEF WorkerStep, WorkerFault, TakeTimestamp, WriteImage, ChooseFile, OpenExisting, CreateFile,
     AppendLine, WriteImageFails, WriteFails, WorkerCrash, outsideWriter
<1>2. now \in Nat /\ TypeOK
  BY DEF IInv, TypeOK
<1>3. TimeMoves
  <2>1. CASE \E e \in Escalations : TakeTimestamp(w, e)
    BY <1>1, <1>2, <2>1 DEF TimeMoves, TakeTimestamp, TypeOK
  <2>2. CASE UNCHANGED <<fresh, stamp>>
    BY <1>1, <1>2, <2>2 DEF TimeMoves
  <2> QED BY <2>1, <2>2 DEF WorkerStep, WorkerFault, WriteImage, ChooseFile, OpenExisting, CreateFile,
     AppendLine, WriteImageFails, WriteFails, WorkerCrash
<1>4. VictimMoves
  BY <1>1 DEF VictimMoves
<1>5. PictureMoves /\ TrackingMoves
  <2>1. \A f \in Files : Tracker(f) \in Entries /\ Data(f) \in Entries
    BY EntryFacts
  <2>2. \A e \in Escalations : Image(e) \in Entries
    BY EntryFacts
  <2>3. CASE UNCHANGED diskVars
    BY <2>3 DEF PictureMoves, TrackingMoves, diskVars, Trackers
  <2>4. ASSUME writer[w].pc = "image", writer'[w].pc # "image", PutImage(writer[w].esc)
        PROVE  PictureMoves /\ TrackingMoves
    <3>1. writer[w].esc \in Escalations /\ Image(writer[w].esc) \in Entries
      BY <2>4, EntryFacts DEF IInv, WriterInv
    <3>2. /\ loc'[Image(writer[w].esc)] = "images" /\ mtime'[Image(writer[w].esc)] = now
          /\ \A y \in Entries \ {Image(writer[w].esc)} : loc'[y] = loc[y] /\ mtime'[y] = mtime[y]
      BY <1>2, <2>4, <3>1 DEF TypeOK, PutImage
    <3>3. \A f \in Files : Tracker(f) \in Entries \ {Image(writer[w].esc)}
      BY EntryFacts
    <3>4. \A e \in Escalations : e # writer[w].esc => Image(e) \in Entries \ {Image(writer[w].esc)}
      BY EntryFacts DEF Image
    <3>5. PictureMoves
      BY <2>4, <3>1, <3>2, <3>4 DEF PictureMoves
    <3> QED BY <3>2, <3>3, <3>5 DEF TrackingMoves, Trackers
  <2>5. CASE CreateFile(w) \/ AppendLine(w)
    <3>1. writer[w].file \in Files /\ Data(writer[w].file) \in Entries
      BY <2>5, EntryFacts DEF IInv, WriterInv, CreateFile, AppendLine, At
    <3>2. \A y \in Entries \ {Data(writer[w].file)} : loc'[y] = loc[y] /\ mtime'[y] = mtime[y]
      BY <1>2, <2>5, <3>1 DEF TypeOK, CreateFile, AppendLine
    <3>3. /\ \A f \in Files : Tracker(f) \in Entries \ {Data(writer[w].file)}
          /\ \A e \in Escalations : Image(e) \in Entries \ {Data(writer[w].file)}
      BY EntryFacts
    <3> QED BY <3>2, <3>3 DEF PictureMoves, TrackingMoves, Trackers
  <2>6. CASE WriteImage(w) \/ WriteImageFails(w)
    <3>1. writer[w].pc = "image" /\ writer'[w].pc # "image"
      BY <1>2, <2>6 DEF WriteImage, WriteImageFails, At, Goto, Done, Becomes, TypeOK, WriterStates
    <3> QED BY <2>3, <2>4, <2>6, <3>1 DEF WriteImage, WriteImageFails
  <2> QED BY <2>3, <2>5, <2>6 DEF WorkerStep, WorkerFault, TakeTimestamp, ChooseFile, OpenExisting,
     WriteFails, WorkerCrash
<1>6. GripMoves
  <2>0. writer[w] \in WriterStates
    BY <1>2 DEF TypeOK
  <2>1. ASSUME NEW s, Becomes(w, s), s.pc \notin Imaged \cup {"image"} PROVE GripMoves
    BY <1>2, <2>1, OneWorkerMoves DEF GripMoves, Imaged
  <2>2. CASE \E e \in Escalations : TakeTimestamp(w, e)
    <3>1. PICK e \in Escalations : TakeTimestamp(w, e)
      BY <2>2
    <3> DEFINE s == [writer[w] EXCEPT !.pc = "image", !.esc = e]
    <3>2. s.pc = "image" /\ s.esc = e
      BY <2>0 DEF WriterStates
    <3>3. Becomes(w, s)
      BY <3>1 DEF TakeTimestamp
    <3> HIDE DEF s
    <3>4. writer'[w].pc = "image" /\ writer'[w].esc = e /\ \A v \in Workers \ {w} : writer'[v] = writer[v]
      BY <1>2, <3>2, <3>3, OneWorkerMoves
    <3> QED BY <3>1, <3>4 DEF GripMoves, Imaged
  <2>3. CASE WriteImage(w)
    <3>1. /\ writer'[w].pc = "choose" /\ writer'[w].esc = writer[w].esc
          /\ \A v \in Workers \ {w} : writer'[v] = writer[v]
      BY <1>2, <2>0, <2>3, OneWorkerMoves DEF WriteImage, Goto, WriterStates
    <3>2. writer[w].pc = "image" /\ loc'[Image(writer[w].esc)] = "images"
      BY <1>2, <2>3, EntryFacts, OneEntryMoves DEF WriteImage, At, PutImage, IInv, WriterInv
    <3> QED BY <3>1, <3>2 DEF GripMoves, Imaged
  <2>4. ASSUME NEW pc \in {"open", "create", "append"}, writer'[w].pc = pc, writer'[w].esc = writer[w].esc,
               \A v \in Workers \ {w} : writer'[v] = writer[v], writer[w].pc \in Imaged,
               pc = "append" => loc[Data(writer'[w].file)] \in {"none", "writing"}
        PROVE  GripMoves
    BY <2>4 DEF GripMoves, Imaged
  <2>5. CASE ChooseFile(w) \/ OpenExisting(w)
    <3>1. writer[w].pc \in Imaged
      BY <2>5 DEF ChooseFile, OpenExisting, At, Imaged
    <3>2. CASE ResetToNewFile(w)
      <4>1. /\ writer'[w].pc = "create" /\ writer'[w].esc = writer[w].esc
            /\ \A v \in Workers \ {w} : writer'[v] = writer[v]
        <5> DEFINE s == [writer[w] EXCEPT !.pc = "create", !.file = names + 1, !.lines = 0]
        <5>1. s.pc = "create" /\ s.esc = writer[w].esc
          BY <2>0 DEF WriterStates
        <5>2. Becomes(w, s)
          BY <3>2 DEF ResetToNewFile
        <5> HIDE DEF s
        <5> QED BY <1>2, <5>1, <5>2, OneWorkerMoves
      <4> QED BY <2>4, <3>1, <4>1
    <3>3. CASE Goto(w, "open") \/ (Goto(w, "append") /\ loc[Data(writer[w].file)] = "writing")
      <4>1. /\ writer'[w].pc \in {"open", "append"} /\ writer'[w].esc = writer[w].esc
            /\ writer'[w].file = writer[w].file
            /\ \A v \in Workers \ {w} : writer'[v] = writer[v]
            /\ writer'[w].pc = "append" => loc[Data(writer[w].file)] = "writing"
        BY <1>2, <2>0, <3>3, OneWorkerMoves DEF Goto, WriterStates
      <4> QED BY <2>4, <3>1, <4>1
    <3> QED BY <2>5, <3>2, <3>3 DEF ChooseFile, OpenExisting
  <2>6. CASE CreateFile(w)
    <3>1. writer[w].pc = "create" /\ loc[Data(writer[w].file)] = "none"
      BY <2>6 DEF CreateFile, At, IInv, WriterInv
    <3>2. /\ writer'[w].pc = "append" /\ writer'[w].esc = writer[w].esc
          /\ writer'[w].file = writer[w].file /\ \A v \in Workers \ {w} : writer'[v] = writer[v]
      BY <1>2, <2>0, <2>6, OneWorkerMoves DEF CreateFile, Goto, WriterStates
    <3> QED BY <2>4, <3>1, <3>2 DEF Imaged
  <2>7. CASE AppendLine(w)
    BY <2>7, AppendFacts DEF GripMoves, Imaged
  <2>8. CASE WriteImageFails(w) \/ WriteFails(w)
    <3>1. [writer[w] EXCEPT !.pc = "idle", !.esc = NoEscalation].pc = "idle"
      BY <2>0 DEF WriterStates
    <3> QED BY <2>1, <2>8, <3>1 DEF WriteImageFails, WriteFails, Done, Imaged
  <2>9. CASE WorkerCrash(w)
    BY <2>1, <2>9 DEF WorkerCrash, Imaged
  <2> QED BY <2>2, <2>3, <2>5, <2>6, <2>7, <2>8, <2>9 DEF WorkerStep, WorkerFault
<1> QED BY <1>3, <1>4, <1>5, <1>6

\* What the reader can do.
LEMMA ReaderTimes ==
    ASSUME IInv, ReaderStep \/ ReaderCrash
    PROVE  TimeMoves /\ PictureMoves /\ TrackingMoves /\ VictimMoves /\ GripMoves
<1>1. UNCHANGED <<now, sweep, writer, fresh, stamp>>
  BY DEF ReaderStep, ReaderCrash, ChooseTracked, ChooseOldest, RenameFile, CheckDataExists, OpenFiles,
     CountTracked, ReadLine, FinalRead, TrackLine, UnlinkData, UnlinkTracker, outsideReader
<1>2. now \in Nat /\ TypeOK
  BY DEF IInv, TypeOK
<1>3. TimeMoves /\ VictimMoves /\ GripMoves
  BY <1>1, <1>2 DEF TimeMoves, VictimMoves, GripMoves, Imaged
<1>4. reader.pc # "choose" => reader.file \in Files
  BY DEF IInv, ReaderInv
<1>5. CASE UNCHANGED diskVars
  BY <1>3, <1>5 DEF PictureMoves, TrackingMoves, diskVars, Trackers
<1>6. ASSUME reader.pc # "choose", NEW x \in {Data(reader.file), Tracker(reader.file)},
             \A y \in Entries \ {x} : loc'[y] = loc[y] /\ mtime'[y] = mtime[y]
      PROVE  /\ PictureMoves
             /\ \A f \in Files : Tracker(f) # x => /\ loc'[Tracker(f)] = loc[Tracker(f)]
                                                   /\ mtime'[Tracker(f)] = mtime[Tracker(f)]
             /\ \A f \in Files : Tracker(f) = x => f = reader.file
  <2>1. \A e \in Escalations : Image(e) \in Entries \ {x}
    BY EntryFacts
  <2>2. \A f \in Files : Tracker(f) \in Entries /\ (Tracker(f) = x => f = reader.file)
    BY EntryFacts
  <2> QED BY <1>6, <2>1, <2>2 DEF PictureMoves
<1>7. CASE RenameFile \/ UnlinkData
  <2> DEFINE x == Data(reader.file)
  <2>1. reader.pc # "choose" /\ reader.file \in Files /\ x \in Entries
    BY <1>4, <1>7, EntryFacts DEF RenameFile, UnlinkData, ReaderAt
  <2>2. \A y \in Entries \ {x} : loc'[y] = loc[y] /\ mtime'[y] = mtime[y]
    BY <1>2, <1>7, <2>1 DEF RenameFile, UnlinkData, Unlink, TypeOK
  <2>3. \A f \in Files : Tracker(f) # x
    BY EntryFacts
  <2> QED BY <1>3, <1>6, <2>1, <2>2, <2>3 DEF TrackingMoves, Trackers
<1>8. CASE /\ CheckDataExists \/ UnlinkTracker
           /\ Exists(Tracker(reader.file)) /\ Unlink(Tracker(reader.file)) /\ ReaderReset
  <2> DEFINE x == Tracker(reader.file)
  <2>1. reader.pc # "choose" /\ reader.file \in Files /\ x \in Entries
    BY <1>4, <1>8, EntryFacts DEF CheckDataExists, UnlinkTracker, ReaderAt
  <2>2. \A y \in Entries \ {x} : loc'[y] = loc[y] /\ mtime'[y] = mtime[y]
    BY <1>2, <1>8, <2>1 DEF CheckDataExists, UnlinkTracker, Unlink, TypeOK
  <2>3. loc'[x] = "gone" /\ reader'.file = NoFile /\ loc[Data(reader.file)] # "reading"
    <3>1. loc[Data(reader.file)] # "reading"
      BY <1>2, <1>8 DEF CheckDataExists, UnlinkTracker, ReaderAt, ReaderGoto, ReaderReset, IInv, ReaderInv,
         TypeOK, ReaderStates
    <3> QED BY <1>2, <1>8, <2>1, <3>1 DEF Unlink, ReaderReset, TypeOK
  <2>4. Data(reader.file) \in Entries \ {x}
    BY <2>1, EntryFacts
  <2> QED BY <1>3, <1>6, <1>8, <2>1, <2>2, <2>3, <2>4 DEF TrackingMoves, Trackers
<1>9. CASE (OpenFiles \/ TrackLine) /\ ~UNCHANGED diskVars
  <2> DEFINE x == Tracker(reader.file)
  <2>1. reader.pc # "choose" /\ reader.file \in Files /\ x \in Entries
    BY <1>4, <1>9, EntryFacts DEF OpenFiles, TrackLine, ReaderAt
  <2>2. /\ \A y \in Entries \ {x} : loc'[y] = loc[y] /\ mtime'[y] = mtime[y]
        /\ mtime'[x] = now /\ loc'[x] = "reading"
    <3>1. CASE OpenFiles
      BY <1>2, <1>9, <2>1, <3>1 DEF OpenFiles, TypeOK, diskVars
    <3>2. CASE TrackLine
      BY <1>2, <1>9, <2>1, <3>2 DEF TrackLine, TypeOK, diskVars, Trackers
    <3> QED BY <1>9, <3>1, <3>2
  <2> QED BY <1>3, <1>6, <2>1, <2>2 DEF TrackingMoves, Trackers
<1> QED BY <1>5, <1>7, <1>8, <1>9 DEF ReaderStep, ReaderCrash, ChooseTracked, ChooseOldest,
     CheckDataExists, CountTracked, ReadLine, FinalRead, UnlinkTracker, UnlinkIfPresent, diskVars,
     OpenFiles, TrackLine

\* What the consumer can do.
LEMMA ConsumerTimes ==
    ASSUME IInv, ConsumerStep
    PROVE  TimeMoves /\ PictureMoves /\ TrackingMoves /\ VictimMoves /\ GripMoves
<1>1. UNCHANGED <<now, sweep, writer, fresh, stamp, mtime>>
  BY DEF ConsumerStep, CheckCache, SubmitAccepted, SubmitRetryable, SubmitReplyLost, RetryWait,
     SubmitFails, HandleFailure, CacheRequest, UnlinkImage, outsideConsumer
<1>2. now \in Nat /\ TypeOK
  BY DEF IInv, TypeOK
<1>3. TimeMoves /\ VictimMoves /\ GripMoves
  BY <1>1, <1>2 DEF TimeMoves, VictimMoves, GripMoves, Imaged
<1>4. CASE UNCHANGED loc
  BY <1>1, <1>3, <1>4 DEF PictureMoves, TrackingMoves, Trackers
<1>5. CASE UnlinkImage /\ ~UNCHANGED loc
  <2>1. Line \in Escalations
    BY <1>5, LineType DEF IInv, UnlinkImage, ReaderAt, Settled
  <2> PICK e \in Escalations : e = Line
    BY <2>1
  <2>2. Exists(Image(e)) /\ loc' = [loc EXCEPT ![Image(e)] = "gone"]
    BY <1>5 DEF UnlinkImage, UnlinkIfPresent, Unlink
  <2>3. loc'[Image(e)] = "gone" /\ \A y \in Entries \ {Image(e)} : loc'[y] = loc[y]
    BY <1>2, <2>2, OneEntryMoves, EntryFacts
  <2>4. /\ \A x \in Escalations \ {e} : Image(x) \in Entries \ {Image(e)}
        /\ \A f \in Files : Tracker(f) \in Entries \ {Image(e)}
    BY EntryFacts DEF Image
  <2>5. PictureMoves
    BY <1>1, <1>5, <2>2, <2>3, <2>4 DEF PictureMoves
  <2> QED BY <1>1, <1>3, <2>3, <2>4, <2>5 DEF TrackingMoves, Trackers
<1> QED BY <1>4, <1>5 DEF ConsumerStep, CheckCache, SubmitAccepted, SubmitRetryable, SubmitReplyLost,
     RetryWait, SubmitFails, HandleFailure, CacheRequest

\* What the retention job can do.
LEMMA SweepTimes ==
    ASSUME IInv, SweepStep
    PROVE  TimeMoves /\ PictureMoves /\ TrackingMoves /\ VictimMoves /\ GripMoves
<1>1. UNCHANGED <<now, writer, fresh, stamp, mtime, reader, content>>
  BY DEF SweepStep, SweepStart, SweepStat, SweepUnlink, SweepNextDir, outsideSweep
<1>2. now \in Nat /\ TypeOK /\ sweep \in SweepStates
  BY DEF IInv, TypeOK
<1>3. TimeMoves /\ GripMoves
  BY <1>1, <1>2 DEF TimeMoves, GripMoves, Imaged
<1>4. VictimMoves
  <2>1. CASE SweepStat
    <3>1. PICK x \in sweep.todo :
             sweep' = [sweep EXCEPT !.todo = sweep.todo \ {x},
                                    !.victim = IF BeforeCutoff(x) THEN x ELSE NoEntry]
      BY <2>1 DEF SweepStat
    <3>2. x \in Entries /\ sweep'.at = sweep.at /\ (sweep'.victim = NoEntry \/ (sweep'.victim = x /\ BeforeCutoff(x)))
      BY <1>2, <3>1 DEF SweepStates
    <3> QED BY <1>1, <2>1, <3>2 DEF VictimMoves, SweepStat
  <2>2. CASE SweepStart
    BY <1>2, <2>2 DEF VictimMoves, SweepStart, SweepStates
  <2>3. CASE SweepUnlink
    BY <1>2, <2>3 DEF VictimMoves, SweepUnlink, SweepStates
  <2>4. CASE SweepNextDir
    BY <1>2, <2>4 DEF VictimMoves, SweepNextDir, SweepStates
  <2> QED BY <2>1, <2>2, <2>3, <2>4 DEF SweepStep
<1>5. CASE UNCHANGED loc
  BY <1>1, <1>3, <1>4, <1>5 DEF PictureMoves, TrackingMoves, Trackers
<1>6. CASE SweepUnlink /\ ~UNCHANGED loc
  <2> DEFINE v == sweep.victim
  <2>1. v \in Entries /\ loc' = [loc EXCEPT ![v] = "gone"] /\ loc[v] = sweep.dir
    BY <1>2, <1>6 DEF SweepUnlink, SweepStates
  <2>2. loc'[v] = "gone" /\ \A y \in Entries \ {v} : loc'[y] = loc[y]
    BY <1>2, <2>1, OneEntryMoves
  <2>3. loc[v] \in Dirs
    BY <1>2, <2>1 DEF SweepStates, TypeOK, Dirs
  <2>4. /\ \A e \in Escalations : Image(e) \in Entries
        /\ \A f \in Files : Tracker(f) \in Entries
    BY EntryFacts
  <2>5. PictureMoves
    BY <1>1, <2>2, <2>3, <2>4 DEF PictureMoves, Exists
  <2>6. TrackingMoves
    BY <1>1, <2>2, <2>3, <2>4 DEF TrackingMoves, Trackers, Exists
  <2> QED BY <1>3, <1>4, <2>5, <2>6
<1> QED BY <1>5, <1>6 DEF SweepStep, SweepStart, SweepStat, SweepNextDir

\* What any step can do to clocks, images, tracking files, victims and open files.
LEMMA StepTimes ==
    ASSUME IInv, [Next]_vars
    PROVE  TimeMoves /\ PictureMoves /\ TrackingMoves /\ VictimMoves /\ GripMoves
<1>1. CASE Tick \/ UNCHANGED vars
  <2>1. UNCHANGED <<writer, loc, mtime, fresh, stamp, reader, sweep>> /\ now' >= now
    BY <1>1 DEF Tick, vars, diskVars, IInv, TypeOK
  <2> QED BY <2>1 DEF TimeMoves, PictureMoves, TrackingMoves, VictimMoves, GripMoves, Trackers, Imaged
<1> QED BY <1>1, WorkerTimes, ReaderTimes, ConsumerTimes, SweepTimes DEF Next

\* The reader comes to have a file open when it opens it, with a tracking file.
LEMMA OpenMoves ==
    ASSUME IInv, [Next]_vars, NEW f \in Files, Opened(f)'
    PROVE  Opened(f) \/ (OpenFiles /\ f \in Trackers')
<1>1. reader \in ReaderStates /\ reader.pc # "choose" => reader.file \in Files
  BY DEF IInv, TypeOK, ReaderInv
<1>2. CASE UNCHANGED reader
  BY <1>2 DEF Opened
<1>3. CASE ConsumerStep
  <2>1. reader.pc \in Iterating /\ reader'.file = reader.file
    BY <1>3 DEF ConsumerStep, CheckCache, SubmitAccepted, SubmitRetryable, SubmitReplyLost, RetryWait,
       SubmitFails, HandleFailure, CacheRequest, UnlinkImage, ReaderAt, ReaderGoto, IInv, TypeOK,
       ReaderStates, Iterating, Undecided, Settled
  <2> QED BY <2>1 DEF Opened
<1>4. CASE CountTracked \/ ReadLine \/ FinalRead \/ TrackLine
  <2>1. reader.pc \in Iterating \cup {"count"} /\ reader'.file = reader.file
    BY <1>4 DEF CountTracked, ReadLine, FinalRead, TrackLine, ReaderAt, ReaderGoto, IInv, TypeOK,
       ReaderStates, Iterating, Settled
  <2> QED BY <2>1 DEF Opened
<1>5. CASE OpenFiles
  <2>1. reader'.file = f /\ reader'.pc # "choose"
    BY DEF Opened, Iterating, Undecided, Settled
  <2>2. reader.file = f /\ loc[Data(f)] = "reading"
    BY <1>5, <2>1 DEF OpenFiles, ReaderReset, ReaderGoto, IInv, TypeOK, ReaderStates
  <2>3. f \in Trackers'
    <3>1. CASE f \in Trackers /\ UNCHANGED loc
      BY <3>1 DEF Trackers
    <3>2. CASE loc' = [loc EXCEPT ![Tracker(f)] = "reading"]
      BY <3>2, EntryFacts, OneEntryMoves DEF Trackers, IInv
    <3> QED BY <1>5, <2>2, <3>1, <3>2 DEF OpenFiles, diskVars
  <2> QED BY <1>5, <2>3
<1>6. CASE ChooseTracked \/ ChooseOldest \/ RenameFile \/ CheckDataExists \/ UnlinkData \/ UnlinkTracker
           \/ ReaderCrash
  <2>1. reader'.pc \in {"exists", "rename", "choose", "open", "unlinkTracker"}
    <3>1. ASSUME NEW pc, ReaderGoto(pc) PROVE reader'.pc = pc
      BY <3>1 DEF ReaderGoto, IInv, TypeOK, ReaderStates
    <3>2. ReaderReset => reader'.pc = "choose"
      BY DEF ReaderReset
    <3>3. CASE ChooseTracked \/ ChooseOldest
      BY <3>3 DEF ChooseTracked, ChooseOldest, IInv, TypeOK, ReaderStates
    <3> QED BY <1>6, <3>1, <3>2, <3>3 DEF RenameFile, CheckDataExists, UnlinkData, UnlinkTracker, ReaderCrash
  <2> QED BY <2>1 DEF Opened, Iterating, Undecided, Settled
<1>7. CASE ~(ReaderStep \/ ReaderCrash \/ ConsumerStep)
  BY <1>2, <1>7 DEF Next, WorkerStep, WorkerFault, TakeTimestamp, WriteImage, ChooseFile, OpenExisting,
     CreateFile, AppendLine, WriteImageFails, WriteFails, WorkerCrash, outsideWriter, SweepStep,
     SweepStart, SweepStat, SweepUnlink, SweepNextDir, outsideSweep, Tick, vars
<1> QED BY <1>3, <1>4, <1>5, <1>6, <1>7 DEF ReaderStep

-----------------------------------------------------------------------------
(* The invariants. *)

\* Clocks, stamps and modification times are numbers.
LEMMA Numbers ==
    ASSUME IInv
    PROVE  /\ now \in Nat /\ sweep.at \in Nat /\ RetentionDays \in Nat
           /\ \A e \in Escalations : stamp[e] \in Nat /\ mtime[Image(e)] \in Nat
           /\ \A f \in Files : mtime[Tracker(f)] \in Nat /\ tracked[f] \in Nat /\ Len(content[f]) \in Nat
<1>1. /\ \A e \in Escalations : Image(e) \in Entries
      /\ \A f \in Files : Tracker(f) \in Entries
  BY EntryFacts
<1> QED BY <1>1, QueueAssumption DEF IInv, TypeOK, SweepStates

\* No step breaks the order of clocks or puts an image or tracking file elsewhere.
LEMMA ClockStep ==
    ASSUME IInv, PlaceInv, LinesInv, ClockInv, [Next]_vars
    PROVE  ClockInv'
<1>1. TimeMoves /\ PictureMoves /\ TrackingMoves /\ VictimMoves /\ GripMoves
  BY StepTimes
<1>2. DataMoves /\ TrackerMoves /\ FileMoves
  BY StepMoves
<1>3. IInv' /\ now' \in Nat
  BY StepInv DEF IInv, TypeOK
<1>4. sweep'.at <= now'
  BY <1>1, <1>3, Numbers DEF ClockInv, VictimMoves, TimeMoves
<1>5. \A e \in Escalations : stamp'[e] <= now'
  BY <1>1, <1>3, Numbers DEF ClockInv, TimeMoves
<1>6. \A e \in Escalations : loc[Image(e)] = "none" /\ loc'[Image(e)] # "none" =>
         \E w \in Workers : writer[w].pc = "image" /\ writer[w].esc = e /\ writer'[w].pc # "image"
  BY <1>1 DEF PictureMoves, Exists, Dirs
<1>7. \A e \in fresh' : loc'[Image(e)] = "none"
  <2> SUFFICES ASSUME NEW e \in fresh' PROVE loc'[Image(e)] = "none"
    OBVIOUS
  <2>1. e \in fresh /\ e \in Escalations
    BY <1>1 DEF TimeMoves, IInv, TypeOK
  <2>2. \A w \in Workers : writer[w].pc = "image" => writer[w].esc # e
    BY <2>1 DEF LinesInv
  <2> QED BY <1>6, <2>1, <2>2 DEF ClockInv
<1>8. ASSUME NEW w \in Workers, writer'[w].pc = "image" PROVE loc'[Image(writer'[w].esc)] = "none"
  <2>1. CASE writer[w].pc = "image" /\ writer'[w].esc = writer[w].esc
    <3>1. writer[w].esc \in Escalations /\ loc[Image(writer[w].esc)] = "none"
      BY <2>1 DEF IInv, WriterInv, ClockInv
    <3>2. \A v \in Workers : v # w /\ writer[v].pc = "image" => writer[v].esc # writer[w].esc
      BY <2>1 DEF LinesInv
    <3> QED BY <1>6, <1>8, <2>1, <3>1, <3>2
  <2>2. CASE TakeTimestamp(w, writer'[w].esc)
    BY <2>2 DEF TakeTimestamp, diskVars, ClockInv
  <2> QED BY <1>1, <1>8, <2>1, <2>2 DEF GripMoves
<1>9. \A e \in Escalations : loc'[Image(e)] \in {"none", "images", "gone"}
  BY <1>1 DEF PictureMoves, ClockInv
<1>10. ASSUME NEW e \in Escalations, loc'[Image(e)] \in Dirs PROVE stamp'[e] <= mtime'[Image(e)]
  <2>1. CASE e \in fresh
    <3>1. loc[Image(e)] = "none" /\ \A w \in Workers : writer[w].pc = "image" => writer[w].esc # e
      BY <2>1 DEF ClockInv, LinesInv
    <3> QED BY <1>6, <1>10, <3>1 DEF Dirs
  <2>2. CASE e \notin fresh
    <3>1. stamp'[e] = stamp[e] /\ stamp[e] <= now
      BY <1>1, <2>2 DEF TimeMoves, ClockInv
    <3>2. \/ loc[Image(e)] \in Dirs /\ mtime'[Image(e)] = mtime[Image(e)]
          \/ mtime'[Image(e)] = now
      BY <1>1, <1>10 DEF PictureMoves, Dirs
    <3> QED BY <3>1, <3>2 DEF ClockInv, Exists
  <2> QED BY <2>1, <2>2
<1>11. \A f \in Files : loc'[Tracker(f)] \in {"none", "reading", "gone"}
  BY <1>2 DEF TrackerMoves, ClockInv
<1>12. ASSUME NEW f \in Files, loc'[Data(f)] \in {"none", "writing"} PROVE loc'[Tracker(f)] = "none"
  <2>1. loc[Data(f)] \in {"none", "writing"}
    BY <1>2, <1>12 DEF DataMoves
  <2>2. loc[Tracker(f)] = "none" /\ f \notin Trackers
    BY <2>1 DEF ClockInv, Trackers
  <2>3. loc'[Tracker(f)] # "reading"
    BY <1>2, <2>1, <2>2 DEF TrackerMoves
  <2>4. loc'[Tracker(f)] # "gone"
    BY <1>1, <2>2 DEF TrackingMoves, Exists, Dirs
  <2> QED BY <1>11, <2>3, <2>4
<1>13. ASSUME NEW f \in Files, Opened(f)' PROVE loc'[Tracker(f)] # "none"
  BY <1>2, <1>13, OpenMoves DEF TrackerMoves, ClockInv, Trackers
<1> QED BY <1>4, <1>5, <1>7, <1>8, <1>9, <1>10, <1>11, <1>12, <1>13 DEF ClockInv, Exists

\* Escalations on a file are written or in hand, not fresh.
LEMMA OnFileKnown ==
    ASSUME IInv, LinesInv, NEW f \in Files, NEW e, OnFile(e, f)
    PROVE  e \in Escalations \ fresh
<1>1. CASE \E i \in 1..Len(content[f]) : content[f][i] = e
  BY <1>1 DEF IInv, TypeOK, LinesInv
<1>2. CASE \E w \in Workers : writer[w].pc = "append" /\ writer[w].file = f /\ writer[w].esc = e
  BY <1>2 DEF IInv, WriterInv, LinesInv
<1> QED BY <1>1, <1>2 DEF OnFile

\* A file that has left writing/ gets no line but the one in hand.
LEMMA OnFileClosed ==
    ASSUME IInv, PlaceInv, LinesInv, [Next]_vars, NEW f \in Files,
           loc[Data(f)] \in {"reading", "gone"}, NEW e, OnFile(e, f)'
    PROVE  OnFile(e, f)
<1>1. GripMoves /\ HandMoves
  BY StepTimes, StepMoves
<1>2. ASSUME NEW w \in Workers, writer'[w].pc = "append", writer'[w].file = f, writer'[w].esc = e
      PROVE  OnFile(e, f)
  BY <1>1, <1>2 DEF GripMoves, OnFile, Imaged
<1>3. ASSUME NEW i \in 1..Len(content'[f]), content'[f][i] = e PROVE OnFile(e, f)
  <2>1. CASE UNCHANGED content
    BY <1>3, <2>1 DEF OnFile
  <2>2. CASE \E w \in Workers : AppendLine(w)
    <3>1. PICK w \in Workers : AppendLine(w)
      BY <2>2
    <3>2. CASE i \in 1..Len(content[f]) /\ content'[f][i] = content[f][i]
      BY <1>3, <3>2 DEF OnFile
    <3>3. CASE f = writer[w].file /\ content'[f][i] = writer[w].esc
      BY <1>3, <3>1, <3>3, AppendFacts DEF OnFile
    <3> QED BY <1>3, <3>1, <3>2, <3>3, OldOrNew
  <2> QED BY <1>1, <2>1, <2>2 DEF HandMoves, TakeTimestamp
<1> QED BY <1>2, <1>3 DEF OnFile

\* What has expired stays expired.
LEMMA StaysExpired ==
    ASSUME IInv, [Next]_vars, NEW e \in Escalations \ fresh, Expired(e)
    PROVE  Expired(e)' /\ stamp'[e] = stamp[e]
<1>1. TimeMoves /\ now' \in Nat
  BY StepTimes, StepInv DEF IInv, TypeOK
<1> QED BY <1>1, Numbers DEF TimeMoves, Expired

\* An entry retention finds too old: what it belongs to has expired.
LEMMA VictimExpired ==
    ASSUME IInv, LinesInv, ClockInv, AgeInv, NEW x \in Entries, BeforeCutoff(x)
    PROVE  /\ \A e \in Escalations : x = Image(e) => Expired(e) /\ e \notin fresh
           /\ \A f \in Files : x = Tracker(f) =>
                 loc[Data(f)] \in {"reading", "gone"} /\ \A e \in Escalations : OnFile(e, f) => Expired(e)
<1>1. loc[x] \in Dirs /\ mtime[x] + RetentionDays < sweep.at /\ sweep.at <= now
  BY DEF BeforeCutoff, IInv, TypeOK, SweepStates, Dirs, ClockInv
<1>2. ASSUME NEW e \in Escalations, x = Image(e) PROVE Expired(e) /\ e \notin fresh
  <2>1. stamp[e] <= mtime[Image(e)]
    BY <1>1, <1>2 DEF ClockInv, Exists
  <2>2. Expired(e)
    BY <1>1, <1>2, <2>1, Numbers DEF Expired
  <2> QED BY <1>1, <1>2, <2>2 DEF ClockInv, Dirs
<1>3. ASSUME NEW f \in Files, x = Tracker(f)
      PROVE  loc[Data(f)] \in {"reading", "gone"} /\ \A e \in Escalations : OnFile(e, f) => Expired(e)
  <2>1. f \in Trackers
    BY <1>1, <1>3 DEF ClockInv, Trackers, Dirs
  <2>2. loc[Data(f)] \in {"reading", "gone"}
    BY <2>1 DEF IInv, ReaderInv
  <2>3. \A e \in Escalations : OnFile(e, f) => stamp[e] <= mtime[Tracker(f)]
    BY <2>1 DEF AgeInv
  <2> QED BY <1>1, <1>3, <2>2, <2>3, Numbers DEF Expired
<1> QED BY <1>2, <1>3

\* Retention never comes to hold, nor takes from the reader, what has not expired.
LEMMA AgeStep ==
    ASSUME IInv, PlaceInv, LinesInv, ClockInv, AgeInv, [Next]_vars
    PROVE  AgeInv'
<1>1. TimeMoves /\ TrackingMoves /\ VictimMoves
  BY StepTimes
<1>2. DataMoves /\ TrackerMoves /\ FileMoves
  BY StepMoves
<1>3. IInv'
  BY StepInv
<1>4. ASSUME NEW e \in Escalations, sweep'.victim = Image(e) PROVE Expired(e)' /\ e \notin fresh'
  <2>1. Expired(e) /\ e \notin fresh
    <3>1. CASE sweep.victim = Image(e)
      BY <3>1 DEF AgeInv
    <3>2. CASE sweep'.victim \in Entries /\ BeforeCutoff(sweep'.victim)
      BY <1>4, <3>2, VictimExpired
    <3> QED BY <1>1, <1>4, <3>1, <3>2 DEF VictimMoves, Image, NoEntry
  <2> QED BY <1>1, <2>1, StaysExpired DEF TimeMoves
<1>5. ASSUME NEW f \in Files, loc[Data(f)] \in {"reading", "gone"},
             \A e \in Escalations : OnFile(e, f) => Expired(e)
      PROVE  \A e \in Escalations : OnFile(e, f)' => Expired(e)'
  BY <1>5, OnFileClosed, OnFileKnown, StaysExpired
<1>6. ASSUME NEW f \in Files, sweep'.victim = Tracker(f)
      PROVE  /\ loc'[Data(f)] \in {"reading", "gone"}
             /\ \A e \in Escalations : OnFile(e, f)' => Expired(e)'
  <2>1. loc[Data(f)] \in {"reading", "gone"} /\ \A e \in Escalations : OnFile(e, f) => Expired(e)
    <3>1. CASE sweep.victim = Tracker(f)
      BY <3>1 DEF AgeInv
    <3>2. CASE sweep'.victim \in Entries /\ BeforeCutoff(sweep'.victim)
      BY <1>6, <3>2, VictimExpired
    <3> QED BY <1>1, <1>6, <3>1, <3>2 DEF VictimMoves, Tracker, NoEntry
  <2>2. loc'[Data(f)] \in {"reading", "gone"}
    BY <1>2, <2>1 DEF DataMoves
  <2> QED BY <1>5, <2>1, <2>2
<1>7. ASSUME NEW f \in Trackers', NEW e \in Escalations, OnFile(e, f)'
      PROVE  stamp'[e] <= mtime'[Tracker(f)]
  <2>1. f \in Files /\ loc'[Data(f)] \in {"reading", "gone"}
    BY <1>3, <1>7 DEF Trackers, IInv, ReaderInv
  <2>2. loc[Data(f)] \in {"reading", "gone"}
    <3>1. f \in Trackers \/ loc[Data(f)] = "reading"
      BY <1>2, <1>7, <2>1 DEF TrackerMoves, Trackers
    <3> QED BY <3>1 DEF IInv, ReaderInv
  <2>3. OnFile(e, f) /\ e \notin fresh
    BY <1>7, <2>1, <2>2, OnFileClosed, OnFileKnown
  <2>4. stamp'[e] = stamp[e] /\ stamp[e] <= now
    BY <1>1, <2>3 DEF TimeMoves, ClockInv
  <2>5. mtime'[Tracker(f)] = now \/ (f \in Trackers /\ mtime'[Tracker(f)] = mtime[Tracker(f)])
    BY <1>1, <1>7, <2>1 DEF TrackingMoves
  <2>6. f \in Trackers => stamp[e] <= mtime[Tracker(f)]
    BY <2>3 DEF AgeInv
  <2> QED BY <2>4, <2>5, <2>6
<1>8. ASSUME NEW f \in Files, loc'[Tracker(f)] = "gone", loc'[Data(f)] = "reading" \/ Opened(f)'
      PROVE  \A e \in Escalations : OnFile(e, f)' => Expired(e)'
  <2>1. CASE loc[Tracker(f)] = "gone"
    <3>1. loc[Data(f)] # "writing"
      BY <2>1 DEF ClockInv
    <3>2. loc[Data(f)] = "reading" \/ Opened(f)
      BY <1>2, <1>8, <3>1, OpenMoves DEF DataMoves, Trackers
    <3>3. loc[Data(f)] \in {"reading", "gone"}
      BY <3>2 DEF Opened, IInv, ReaderInv, Iterating, Undecided, Settled
    <3>4. \A e \in Escalations : OnFile(e, f) => Expired(e)
      BY <2>1, <3>2 DEF AgeInv
    <3> QED BY <1>5, <3>3, <3>4
  <2>2. CASE sweep.victim = Tracker(f)
    BY <1>5, <2>2 DEF AgeInv
  <2>3. CASE loc'[Data(f)] # "reading" /\ reader'.file = NoFile
    BY <1>8, <2>3 DEF Opened, Files, NoFile
  <2> QED BY <1>1, <1>8, <2>1, <2>2, <2>3 DEF TrackingMoves
<1> QED BY <1>4, <1>6, <1>7, <1>8 DEF AgeInv

-----------------------------------------------------------------------------
(* Images are present while they may be needed. *)

\* RequestCache.add: the ID is in the cache afterwards, whatever was evicted.
LEMMA CacheHas ==
    ASSUME NEW c \in Seq(Requests), NEW r \in Requests
    PROVE  Cached(CacheAdd(c, r), r)
<1>1. ASSUME NEW s \in Seq(Requests) PROVE Cached(Append(s, r), r)
  <2>1. Append(s, r)[Len(s) + 1] = r /\ Len(s) + 1 \in DOMAIN Append(s, r)
    OBVIOUS
  <2> QED BY <2>1 DEF Cached
<1>2. CASE Len(c) >= MaxCacheEntries
  <2>1. SubSeq(c, Len(c) - MaxCacheEntries + 2, Len(c)) \in Seq(Requests)
    BY <1>2, QueueAssumption
  <2> QED BY <1>1, <1>2, <2>1, QueueAssumption DEF CacheAdd
<1>3. CASE Len(c) < MaxCacheEntries
  BY <1>1, <1>3 DEF CacheAdd
<1> QED BY <1>2, <1>3, QueueAssumption

\* Where the reader comes from at each phase of a file and of a line.
PhaseMoves ==
    /\ reader'.pc \in {"exists", "open"} =>
          \/ reader.pc \in {"exists", "open"} /\ reader'.file = reader.file
          \/ reader.pc = "rename" /\ reader'.file = reader.file /\ loc[Data(reader.file)] = "writing"
          \/ reader'.file \in Trackers'
    /\ reader'.pc \in {"submit", "wait", "failed"} =>
          /\ reader'.file = reader.file /\ reader'.pos = reader.pos
          /\ \/ reader.pc \in {"submit", "wait", "failed"}
             \/ reader.pc = "consume" /\ ~Cached(cache, RequestOf[Line])
    /\ reader'.pc \in {"unlinkImage", "track"} =>
          /\ reader'.file = reader.file /\ reader'.pos = reader.pos
          /\ \/ reader.pc \in {"unlinkImage", "track"} /\ UNCHANGED cache
             \/ reader.pc = "cache" /\ cache' = CacheAdd(cache, RequestOf[Line])
    /\ UNCHANGED cache \/ (reader.pc = "cache" /\ cache' = CacheAdd(cache, RequestOf[Line]))
    /\ UnlinkImage => UNCHANGED <<tracked, cache, content>>
    /\ \A f \in Trackers : tracked'[f] \in {tracked[f], tracked[f] + 1}
    /\ \A f \in Trackers' \ Trackers :
          reader.pc = "open" /\ reader.file = f /\ loc[Data(f)] = "reading" /\ tracked'[f] = 0

\* Every step moves the reader through its phases in this order.
LEMMA StepPhases ==
    ASSUME IInv, PlaceInv, [Next]_vars
    PROVE  PhaseMoves
<1>1. reader \in ReaderStates /\ tracked \in [Files -> Nat] /\ TypeOK
  BY DEF IInv, TypeOK
<1>2. ASSUME NEW pc, ReaderGoto(pc) PROVE reader'.pc = pc /\ reader'.file = reader.file /\ reader'.pos = reader.pos
  BY <1>1, <1>2 DEF ReaderGoto, ReaderStates
<1>3. ReaderReset => reader'.pc = "choose"
  BY DEF ReaderReset
<1>4. \A f \in Trackers : f \in Files
  BY DEF Trackers
<1>5. CASE UNCHANGED <<reader, tracked, cache>> /\ Trackers' \subseteq Trackers /\ ~UnlinkImage
  BY <1>1, <1>5 DEF PhaseMoves
<1>6. CASE ~(ReaderStep \/ ReaderCrash \/ ConsumerStep)
  <2>1. UNCHANGED <<reader, tracked, cache>>
    BY <1>6 DEF Next, WorkerStep, WorkerFault, TakeTimestamp, WriteImage, ChooseFile, OpenExisting,
       CreateFile, AppendLine, WriteImageFails, WriteFails, WorkerCrash, outsideWriter, SweepStep,
       SweepStart, SweepStat, SweepUnlink, SweepNextDir, outsideSweep, Tick, vars
  <2>2. \A f \in Trackers' : f \in Trackers
    <3>1. reader' # [reader EXCEPT !.pc = "count"] \/ reader.pc # "open"
      BY <1>1, <2>1 DEF ReaderStates
    <3>2. TrackerMoves
      BY StepMoves
    <3> QED BY <3>1, <3>2 DEF TrackerMoves, Trackers
  <2> QED BY <1>5, <1>6, <2>1, <2>2 DEF ConsumerStep
<1>7. CASE ReaderStep \/ ReaderCrash
  <2>1. UNCHANGED cache /\ ~UnlinkImage
    <3>1. UNCHANGED cache
      BY <1>7 DEF ReaderStep, ReaderCrash, ChooseTracked, ChooseOldest, RenameFile, CheckDataExists,
         OpenFiles, CountTracked, ReadLine, FinalRead, TrackLine, UnlinkData, UnlinkTracker, outsideReader
    <3>2. UnlinkImage => reader.pc = "unlinkImage" /\ reader'.pc = "track"
      BY <1>2 DEF UnlinkImage, ReaderAt
    <3>3. reader.pc = "unlinkImage" => reader'.pc = "choose"
      BY <1>3, <1>7 DEF ReaderStep, ReaderCrash, ChooseTracked, ChooseOldest, RenameFile, CheckDataExists,
         OpenFiles, CountTracked, ReadLine, FinalRead, TrackLine, UnlinkData, UnlinkTracker, ReaderAt
    <3> QED BY <3>1, <3>2, <3>3
  <2>2. \A f \in Trackers' \ Trackers : reader.pc = "open" /\ reader.file = f /\ loc[Data(f)] = "reading"
    BY StepMoves DEF TrackerMoves, Trackers
  <2>3. \A f \in Trackers : tracked'[f] \in {tracked[f], tracked[f] + 1}
    <3>1. CASE UNCHANGED tracked
      BY <3>1
    <3>2. CASE TrackLine
      BY <1>1, <1>4, <3>2 DEF TrackLine
    <3>3. CASE OpenFiles
      BY <1>1, <1>4, <3>3 DEF OpenFiles
    <3> QED BY <1>7, <3>1, <3>2, <3>3 DEF ReaderStep, ReaderCrash, ChooseTracked, ChooseOldest, RenameFile,
       CheckDataExists, CountTracked, ReadLine, FinalRead, UnlinkData, UnlinkTracker
  <2>4. \A f \in Trackers' \ Trackers : tracked'[f] = 0
    <3>1. CASE OpenFiles
      BY <1>1, <2>2, <3>1 DEF OpenFiles, Trackers, diskVars
    <3>2. CASE ~OpenFiles
      <4>1. reader.pc # "open" \/ Trackers' \subseteq Trackers
        BY <1>7, <3>2 DEF ReaderStep, ReaderCrash, ChooseTracked, ChooseOldest, RenameFile,
           CheckDataExists, CountTracked, ReadLine, FinalRead, TrackLine, UnlinkData, UnlinkTracker,
           ReaderAt, diskVars, Trackers
      <4> QED BY <2>2, <4>1
    <3> QED BY <3>1, <3>2
  <2>5. /\ reader'.pc \in {"exists", "open"} =>
             \/ reader.pc \in {"exists", "open"} /\ reader'.file = reader.file
             \/ reader.pc = "rename" /\ reader'.file = reader.file /\ loc[Data(reader.file)] = "writing"
             \/ reader'.file \in Trackers'
        /\ reader'.pc \notin {"submit", "wait", "failed", "unlinkImage", "track"}
    <3>1. CASE ChooseTracked \/ ChooseOldest
      BY <1>1, <3>1 DEF ChooseTracked, ChooseOldest, ReaderStates, Trackers, diskVars
    <3>2. CASE CountTracked \/ ReadLine \/ FinalRead \/ TrackLine
      BY <1>1, <3>2 DEF CountTracked, ReadLine, FinalRead, TrackLine, ReaderGoto, ReaderStates
    <3> QED BY <1>2, <1>3, <1>7, <3>1, <3>2 DEF ReaderStep, ReaderCrash, RenameFile, CheckDataExists,
       OpenFiles, UnlinkData, UnlinkTracker, ReaderAt
  <2> QED BY <2>1, <2>2, <2>3, <2>4, <2>5 DEF PhaseMoves
<1>8. CASE ConsumerStep
  <2>1. UNCHANGED <<tracked, content>> /\ reader.pc # "open"
    BY <1>8 DEF ConsumerStep, CheckCache, SubmitAccepted, SubmitRetryable, SubmitReplyLost, RetryWait,
       SubmitFails, HandleFailure, CacheRequest, UnlinkImage, outsideConsumer, ReaderAt
  <2>2. Trackers' \ Trackers = {}
    BY <2>1, StepMoves DEF TrackerMoves, Trackers
  <2>3. /\ reader'.pc \notin {"exists", "open"}
        /\ reader'.pc \in {"submit", "wait", "failed"} =>
             /\ reader'.file = reader.file /\ reader'.pos = reader.pos
             /\ \/ reader.pc \in {"submit", "wait", "failed"}
                \/ reader.pc = "consume" /\ ~Cached(cache, RequestOf[Line])
        /\ reader'.pc \in {"unlinkImage", "track"} =>
             /\ reader'.file = reader.file /\ reader'.pos = reader.pos
             /\ \/ reader.pc \in {"unlinkImage", "track"} /\ UNCHANGED cache
                \/ reader.pc = "cache" /\ cache' = CacheAdd(cache, RequestOf[Line])
    BY <1>2, <1>8 DEF ConsumerStep, CheckCache, SubmitAccepted, SubmitRetryable, SubmitReplyLost,
       RetryWait, SubmitFails, HandleFailure, CacheRequest, UnlinkImage, ReaderAt
  <2>4. /\ UNCHANGED cache \/ (reader.pc = "cache" /\ cache' = CacheAdd(cache, RequestOf[Line]))
        /\ UnlinkImage => UNCHANGED <<tracked, cache, content>>
    BY <1>8, <2>1 DEF ConsumerStep, CheckCache, SubmitAccepted, SubmitRetryable, SubmitReplyLost,
       RetryWait, SubmitFails, HandleFailure, CacheRequest, UnlinkImage, ReaderAt
  <2> QED BY <2>1, <2>2, <2>3, <2>4 DEF PhaseMoves
<1> QED BY <1>6, <1>7, <1>8

\* An image disappears before its escalation expires only when the consumer, having
\* settled the line in its hand, deletes it.
LEMMA StaysPresent ==
    ASSUME IInv, AgeInv, [Next]_vars, NEW e \in Escalations \ fresh, Present(e)
    PROVE  Present(e)' \/ (UnlinkImage /\ e = Line)
<1>1. PictureMoves
  BY StepTimes
<1>2. CASE Expired(e)
  BY <1>2, StaysExpired DEF Present
<1>3. CASE Exists(Image(e)) /\ ~Expired(e)
  <2>1. sweep.victim # Image(e)
    BY <1>3 DEF AgeInv
  <2> QED BY <1>1, <1>3, <2>1 DEF PictureMoves, Present, Exists, Dirs
<1> QED BY <1>2, <1>3 DEF Present

\* The line in the consumer's hand is a line of the reader's file.
LEMMA LineInHand ==
    ASSUME IInv, reader.pc \in Undecided \cup Settled
    PROVE  /\ reader.file \in Files /\ reader.pos \in 1..Len(content[reader.file])
           /\ loc[Data(reader.file)] \in {"reading", "gone"}
           /\ reader.file \in Trackers => tracked[reader.file] = reader.pos - 1
           /\ Opened(reader.file)
BY DEF IInv, TypeOK, ReaderInv, PositionInv, ReaderStates, Iterating, Undecided, Settled, Opened

\* Lines stay, and a new line is the one a worker had in hand.
LEMMA LineMoves ==
    ASSUME IInv, PlaceInv, [Next]_vars, NEW f \in Files, NEW i \in 1..Len(content'[f])
    PROVE  \/ i \in 1..Len(content[f]) /\ content'[f][i] = content[f][i]
           \/ \E w \in Workers : AppendLine(w) /\ f = writer[w].file /\ content'[f][i] = writer[w].esc
<1>1. HandMoves
  BY StepMoves
<1>2. CASE UNCHANGED content
  BY <1>2
<1>3. CASE \E w \in Workers : AppendLine(w)
  BY <1>3, OldOrNew
<1> QED BY <1>1, <1>2, <1>3 DEF HandMoves, TakeTimestamp

\* A line that is there keeps its place.
LEMMA LinesKept ==
    ASSUME IInv, PlaceInv, [Next]_vars, NEW f \in Files, NEW i \in 1..Len(content[f])
    PROVE  i \in 1..Len(content'[f]) /\ content'[f][i] = content[f][i]
<1>1. HandMoves
  BY StepMoves
<1>2. CASE UNCHANGED content
  BY <1>2
<1>3. ASSUME NEW w \in Workers, AppendLine(w)
      PROVE  i \in 1..Len(content'[f]) /\ content'[f][i] = content[f][i]
  <2>1. CASE f # writer[w].file
    <3>1. content'[f] = content[f]
      BY <1>3, <2>1, AppendFacts
    <3> QED BY <3>1
  <2>2. CASE f = writer[w].file
    <3>1. /\ Len(content[f]) \in Nat /\ Len(content'[f]) = Len(content[f]) + 1
          /\ \A k \in 1..Len(content[f]) : content'[f][k] = content[f][k]
      BY <1>3, <2>2, AppendFacts
    <3> QED BY <3>1
  <2> QED BY <2>1, <2>2
<1> QED BY <1>1, <1>2, <1>3 DEF HandMoves, TakeTimestamp

\* No step lets the consumer come to a line whose image is gone.
LEMMA PresentStep ==
    ASSUME IInv, PlaceInv, LinesInv, ClockInv, AgeInv, PresentInv, [Next]_vars
    PROVE  PresentInv'
<1>1. GripMoves
  BY StepTimes
<1>2. DataMoves /\ TrackerMoves
  BY StepMoves
<1>3. PhaseMoves
  BY StepPhases
<1>4. UnlinkImage => reader.pc = "unlinkImage"
  BY DEF UnlinkImage, ReaderAt
<1>5. reader.pc \in Undecided \cup Settled => Line \in written /\ Line = content[reader.file][reader.pos]
  BY LineInHand DEF LinesInv, Line
<1>6. ASSUME NEW w \in Workers, writer[w].pc \in Imaged, NEW e, e = writer[w].esc
      PROVE  Present(e)'
  <2>1. e \in Escalations \ fresh /\ e \notin written /\ Present(e)
    BY <1>6 DEF IInv, WriterInv, LinesInv, PresentInv, Imaged
  <2> QED BY <1>4, <1>5, <2>1, StaysPresent DEF Settled
<1>7. ASSUME NEW w \in Workers, writer'[w].pc \in Imaged, NEW e, e = writer'[w].esc
      PROVE  Present(e)'
  <2>1. e = writer[w].esc /\ (writer[w].pc \in Imaged \/ loc'[Image(e)] = "images")
    BY <1>1, <1>7 DEF GripMoves
  <2>2. CASE writer[w].pc \in Imaged
    BY <1>6, <2>1, <2>2
  <2>3. CASE loc'[Image(e)] = "images"
    BY <2>3 DEF Present, Exists, Dirs
  <2> QED BY <2>1, <2>2, <2>3
\* A new line is present, an old one unless the consumer deletes its image now.
<1>8. ASSUME NEW f \in Files, NEW k \in 1..Len(content'[f]), NEW e, e = content'[f][k]
      PROVE  \/ Present(e)'
             \/ k \in 1..Len(content[f]) /\ e = content[f][k] /\ e \in Escalations \ fresh
  <2>1. CASE k \in 1..Len(content[f]) /\ e = content[f][k]
    BY <2>1 DEF IInv, TypeOK, LinesInv
  <2>2. ASSUME NEW w \in Workers, AppendLine(w), e = writer[w].esc PROVE Present(e)'
    BY <1>6, <2>2 DEF AppendLine, At, Imaged
  <2> QED BY <1>8, <2>1, <2>2, LineMoves
<1>9. ASSUME NEW f \in Files, NEW k \in 1..Len(content[f]), Present(content[f][k]), NEW e, e = content[f][k]
      PROVE  Present(e)' \/ (UnlinkImage /\ f = reader.file /\ k = reader.pos)
  <2>1. e \in Escalations \ fresh
    BY <1>9 DEF IInv, TypeOK, LinesInv
  <2>2. CASE UnlinkImage /\ e = Line
    <3>1. reader.file \in Files /\ reader.pos \in 1..Len(content[reader.file])
      BY <1>4, <2>2, LineInHand DEF Settled
    <3>2. content[f][k] = content[reader.file][reader.pos]
      BY <1>9, <2>2 DEF Line
    <3>3. \A g \in Files : \A j \in 1..Len(content[g]) : content[f][k] = content[g][j] => f = g /\ k = j
      BY DEF LinesInv
    <3> QED BY <2>2, <3>1, <3>2, <3>3
  <2> QED BY <1>9, <2>1, <2>2, StaysPresent
<1>10. ASSUME NEW f \in Files, loc'[Data(f)] = "writing", NEW k \in 1..Len(content'[f]), NEW e, e = content'[f][k]
       PROVE  Present(e)'
  <2>1. CASE k \in 1..Len(content[f]) /\ e = content[f][k]
    <3>1. loc[Data(f)] # "none"
      BY <2>1, Numbers DEF IInv, WriterInv
    <3>2. loc[Data(f)] = "writing"
      BY <1>2, <1>10, <3>1 DEF DataMoves
    <3>3. Present(content[f][k])
      BY <2>1, <3>2 DEF PresentInv
    <3>4. UnlinkImage => f # reader.file
      BY <1>4, <3>2, LineInHand DEF Settled
    <3> QED BY <1>9, <2>1, <3>3, <3>4
  <2> QED BY <1>8, <1>10, <2>1
<1>11. ASSUME NEW f \in Trackers', NEW k \in 1..Len(content'[f]), k > tracked'[f], NEW e, e = content'[f][k]
       PROVE  Present(e)' \/ (k = tracked'[f] + 1 /\ Cached(cache, RequestOf[e])')
  <2>0. f \in Files
    BY <1>11 DEF Trackers
  <2>1. CASE k \in 1..Len(content[f]) /\ e = content[f][k] /\ f \in Trackers
    <3>1. k > tracked[f] /\ tracked[f] \in Nat /\ k \in Nat /\ tracked'[f] \in {tracked[f], tracked[f] + 1}
      BY <1>3, <1>11, <2>0, <2>1, Numbers DEF PhaseMoves
    <3>2. CASE Present(content[f][k])
      <4>1. CASE UnlinkImage /\ f = reader.file /\ k = reader.pos
        <5>1. k = tracked[f] + 1 /\ Cached(cache, RequestOf[Line]) /\ e = Line
          BY <1>4, <2>1, <3>1, <4>1, LineInHand DEF PresentInv, Line, Settled
        <5>2. UNCHANGED <<tracked, cache>>
          BY <1>3, <4>1 DEF PhaseMoves
        <5> QED BY <5>1, <5>2 DEF Cached
      <4> QED BY <1>9, <2>0, <2>1, <3>2, <4>1
    <3>3. CASE k = tracked[f] + 1 /\ Cached(cache, RequestOf[e])
      <4>1. tracked'[f] = tracked[f]
        BY <1>11, <3>1, <3>3
      <4>2. CASE UNCHANGED cache
        BY <3>3, <4>1, <4>2 DEF Cached
      <4>3. CASE reader.pc = "cache" /\ cache' = CacheAdd(cache, RequestOf[Line])
        <5>1. f = reader.file
          BY <2>1, <4>3 DEF IInv, OneFileInProgress
        <5>2. k = reader.pos /\ e = Line
          BY <2>1, <3>1, <3>3, <4>3, <5>1, LineInHand DEF Settled, Line, IInv, TypeOK, ReaderStates
        <5>3. RequestOf[Line] \in Requests /\ cache \in Seq(Requests)
          BY <4>3, LineType, QueueAssumption DEF IInv, TypeOK, Settled
        <5>4. Cached(CacheAdd(cache, RequestOf[e]), RequestOf[e])
          BY <5>2, <5>3, CacheHas
        <5> QED BY <3>3, <4>1, <4>3, <5>2, <5>4 DEF Cached
      <4> QED BY <1>3, <4>2, <4>3 DEF PhaseMoves
    <3> QED BY <2>1, <3>1, <3>2, <3>3 DEF PresentInv
  <2>2. CASE k \in 1..Len(content[f]) /\ e = content[f][k] /\ f \notin Trackers
    <3>1. reader.pc = "open" /\ reader.file = f /\ loc[Data(f)] = "reading"
      BY <1>3, <1>11, <2>2 DEF PhaseMoves
    <3>2. Present(content[f][k])
      <4>1. CASE loc[Tracker(f)] = "none"
        BY <2>2, <3>1, <4>1 DEF PresentInv
      <4>2. CASE loc[Tracker(f)] = "gone"
        <5>1. OnFile(e, f) /\ e \in Escalations
          BY <2>0, <2>2 DEF OnFile, IInv, TypeOK
        <5> QED BY <2>0, <2>2, <3>1, <4>2, <5>1 DEF AgeInv, Present
      <4> QED BY <2>0, <2>2, <4>1, <4>2 DEF ClockInv, Trackers
    <3> QED BY <1>4, <1>9, <2>0, <2>2, <3>1, <3>2
  <2> QED BY <1>8, <1>11, <2>0, <2>1, <2>2
<1>12. ASSUME reader'.pc \in {"exists", "open"}, loc'[Tracker(reader'.file)] = "none",
              NEW k \in 1..Len(content'[reader'.file]), NEW e, e = content'[reader'.file][k]
       PROVE  Present(e)'
  <2>0. reader'.file \in Files
    BY <1>12, StepInv DEF IInv, ReaderInv
  <2>1. reader'.file \notin Trackers' /\ loc[Tracker(reader'.file)] = "none"
    BY <1>2, <1>12, <2>0 DEF Trackers, TrackerMoves
  <2>2. /\ reader'.file = reader.file
        /\ reader.pc \in {"exists", "open"} \/ (reader.pc = "rename" /\ loc[Data(reader.file)] = "writing")
    BY <1>3, <1>12, <2>1 DEF PhaseMoves
  <2>3. CASE k \in 1..Len(content[reader.file]) /\ e = content[reader.file][k]
    <3>1. Present(content[reader.file][k])
      BY <2>0, <2>1, <2>2, <2>3 DEF PresentInv
    <3> QED BY <1>4, <1>9, <2>0, <2>2, <2>3, <3>1
  <2> QED BY <1>8, <1>12, <2>0, <2>2, <2>3
<1>13. ASSUME reader.pc \in Undecided \cup Settled, reader'.file = reader.file, reader'.pos = reader.pos
       PROVE  Line' = Line
  BY <1>13, LineInHand, LinesKept DEF Line
<1>14. ASSUME reader'.pc \in {"submit", "wait", "failed"}, NEW e, e = Line'
       PROVE  Present(e)'
  <2>1. /\ reader.pc \in Undecided /\ reader'.file = reader.file /\ reader'.pos = reader.pos
        /\ reader.pc \in {"submit", "wait", "failed"} \/ ~Cached(cache, RequestOf[Line])
    BY <1>3, <1>14 DEF PhaseMoves, Undecided
  <2>2. e = Line /\ reader.file \in Files /\ reader.pos \in 1..Len(content[reader.file])
    BY <1>13, <1>14, <2>1, LineInHand
  <2>3. Present(Line)
    <3>1. CASE reader.pc \in {"submit", "wait", "failed"}
      BY <3>1 DEF PresentInv
    <3>2. CASE ~Cached(cache, RequestOf[Line]) /\ reader.file \in Trackers
      <4>1. tracked[reader.file] = reader.pos - 1 /\ reader.pos \in Nat
        BY <2>1, <3>2, LineInHand DEF IInv, TypeOK, ReaderStates
      <4>2. reader.pos > tracked[reader.file]
        BY <4>1
      <4> QED BY <2>2, <3>2, <4>2 DEF PresentInv, Line
    <3>3. CASE reader.file \notin Trackers
      <4>1. loc[Tracker(reader.file)] = "gone" /\ Opened(reader.file)
        BY <2>1, <2>2, <3>3, LineInHand DEF ClockInv, Trackers
      <4>2. OnFile(Line, reader.file) /\ Line \in Escalations
        BY <2>1, <2>2, LineType DEF OnFile, Line, IInv
      <4> QED BY <2>2, <4>1, <4>2 DEF AgeInv, Present
    <3> QED BY <2>1, <3>1, <3>2, <3>3
  <2>4. reader.pc # "unlinkImage"
    BY <2>1 DEF Undecided
  <2> QED BY <1>4, <1>9, <2>2, <2>3, <2>4 DEF Line
<1>15. ASSUME reader'.pc \in {"unlinkImage", "track"}, NEW e, e = Line'
       PROVE  Cached(cache, RequestOf[e])'
  <2>1. /\ reader.pc \in Settled /\ reader'.file = reader.file /\ reader'.pos = reader.pos
        /\ \/ reader.pc \in {"unlinkImage", "track"} /\ UNCHANGED cache
           \/ cache' = CacheAdd(cache, RequestOf[Line])
    BY <1>3, <1>15 DEF PhaseMoves, Settled
  <2>2. e = Line
    BY <1>13, <1>15, <2>1
  <2>3. CASE reader.pc \in {"unlinkImage", "track"} /\ UNCHANGED cache
    BY <2>2, <2>3 DEF PresentInv, Cached
  <2>4. CASE cache' = CacheAdd(cache, RequestOf[Line])
    <3>1. RequestOf[Line] \in Requests /\ cache \in Seq(Requests)
      BY <2>1, LineType, QueueAssumption DEF IInv, TypeOK
    <3>2. Cached(CacheAdd(cache, RequestOf[e]), RequestOf[e])
      BY <2>2, <3>1, CacheHas
    <3> QED BY <2>2, <2>4, <3>2 DEF Cached
  <2> QED BY <2>1, <2>3, <2>4
<1>16. \A w \in Workers : writer'[w].pc \in Imaged => Present(writer[w].esc)'
  BY <1>7 DEF Present, Exists, Expired
<1>17. \A f \in Files : loc'[Data(f)] = "writing" => \A k \in 1..Len(content'[f]) : Present(content[f][k])'
  BY <1>10 DEF Present, Exists, Expired
<1>18. \A f \in Trackers' : \A k \in 1..Len(content'[f]) : k > tracked'[f] =>
          Present(content[f][k])' \/ (k = tracked'[f] + 1 /\ Cached(cache, RequestOf[content[f][k]])')
  BY <1>11 DEF Present, Exists, Expired, Cached
<1>19. reader'.pc \in {"exists", "open"} /\ loc'[Tracker(reader'.file)] = "none" =>
          \A k \in 1..Len(content'[reader'.file]) : Present(content[reader.file][k])'
  BY <1>12 DEF Present, Exists, Expired
<1>20. /\ reader'.pc \in {"submit", "wait", "failed"} => Present(Line)'
       /\ reader'.pc \in {"unlinkImage", "track"} => Cached(cache, RequestOf[Line])'
  BY <1>14, <1>15 DEF Present, Exists, Expired, Cached
<1> QED BY <1>16, <1>17, <1>18, <1>19, <1>20 DEF PresentInv

\* No step takes away the image of an escalation still to be settled.
LEMMA OutlivesStep ==
    ASSUME IInv, PlaceInv, LinesInv, AgeInv, PresentInv, ImageOutlivesLine, [Next]_vars
    PROVE  ImageOutlivesLine'
<1> SUFFICES ASSUME NEW e \in written' PROVE Handled(e)' \/ Present(e)'
  BY DEF ImageOutlivesLine, Present
<1>1. OutcomeMoves /\ HandMoves
  BY StepMoves
<1>2. CASE e \in written
  <2>1. e \in Escalations \ fresh
    BY <1>2 DEF IInv, TypeOK, LinesInv
  <2>2. CASE Handled(e)
    BY <1>1, <2>1, <2>2 DEF OutcomeMoves
  <2>3. CASE ~Handled(e)
    <3>1. UnlinkImage => Handled(Line)
      <4>1. UnlinkImage => reader.pc = "unlinkImage"
        BY DEF UnlinkImage, ReaderAt
      <4>2. reader.pc = "unlinkImage" => reader.pos \in 1..reader.pos /\ reader.pc \in Iterating \ Undecided
        BY LineInHand DEF Iterating, Undecided, Settled, IInv, TypeOK, ReaderStates
      <4> QED BY <4>1, <4>2 DEF IInv, PositionInv, Line
    <3> QED BY <1>2, <2>1, <2>3, <3>1, StaysPresent DEF ImageOutlivesLine, Present
  <2> QED BY <2>2, <2>3
<1>3. CASE e \notin written
  <2>1. PICK w \in Workers : AppendLine(w) /\ e = writer[w].esc /\ writer[w].pc = "append"
    BY <1>1, <1>3, AppendFacts DEF HandMoves, TakeTimestamp
  <2>2. e \in Escalations \ fresh /\ Present(e)
    BY <2>1 DEF IInv, WriterInv, LinesInv, PresentInv, Imaged
  <2>3. ~UnlinkImage
    <3>1. UnlinkImage => reader'.pc # reader.pc
      BY DEF UnlinkImage, ReaderAt, ReaderGoto, IInv, TypeOK, ReaderStates
    <3> QED BY <2>1, <3>1, AppendFacts
  <2> QED BY <2>2, <2>3, StaysPresent
<1> QED BY <1>2, <1>3

\* Images and timestamps: what the retention job may remove has expired, and what the
\* consumer may still submit is present.
THEOREM ImagesInductive == Spec => [](ClockInv /\ AgeInv /\ PresentInv /\ ImageOutlivesLine)
<1>1. Init => ClockInv /\ AgeInv /\ PresentInv /\ ImageOutlivesLine
  <2> SUFFICES ASSUME Init PROVE ClockInv /\ AgeInv /\ PresentInv /\ ImageOutlivesLine
    OBVIOUS
  <2>1. /\ \A f \in Files : loc[Data(f)] = "none" /\ loc[Tracker(f)] = "none" /\ content[f] = <<>>
        /\ \A e \in Escalations : loc[Image(e)] = "none"
    BY EntryFacts DEF Init
  <2>2. Trackers = {} /\ \A f \in Files : ~Opened(f)
    BY <2>1 DEF Init, Trackers, Opened, Iterating, Undecided, Settled
  <2>3. ClockInv
    BY <2>1, <2>2 DEF Init, ClockInv, Exists, Dirs
  <2>4. /\ \A e : sweep.victim # Image(e)
        /\ \A f : sweep.victim # Tracker(f)
    BY DEF Init, NoEntry, Image, Tracker
  <2>5. AgeInv
    BY <2>1, <2>2, <2>4 DEF AgeInv
  <2>6. PresentInv /\ ImageOutlivesLine
    BY <2>1, <2>2 DEF Init, PresentInv, ImageOutlivesLine, Imaged
  <2> QED BY <2>3, <2>5, <2>6
<1>2. /\ IInv /\ PlaceInv /\ LinesInv /\ ClockInv /\ AgeInv /\ PresentInv /\ ImageOutlivesLine
      /\ [Next]_vars
      => (ClockInv /\ AgeInv /\ PresentInv /\ ImageOutlivesLine)'
  BY ClockStep, AgeStep, PresentStep, OutlivesStep
<1> QED BY <1>1, <1>2, Inductive, QueueFilesInPlace, WrittenOnce, PTL DEF Spec

\* Until the consumer has settled a written escalation its image is there, unless the
\* escalation has expired, for any number of kills, retries and retention runs.
THEOREM ImagesOutliveLines == Spec => []ImageOutlivesLine
BY ImagesInductive, PTL

\* A missing image never gets an escalation recorded as failed: either it has expired,
\* or the line is skipped because its request is cached.
THEOREM MissingImagesDropped == Spec => []MissingImageNotRecorded
<1>1. PresentInv => MissingImageNotRecorded
  BY DEF PresentInv, MissingImageNotRecorded, Present, ReaderAt
<1> QED BY <1>1, ImagesInductive, PTL

=============================================================================
