---------------------------- MODULE QueueReader ----------------------------
(***************************************************************************)
(* QueueReader: a generator over the lines of the queue.  It moves the     *)
(* oldest file to reading/, yields its lines, counts in the tracking file  *)
(* each line the consumer came back from, makes one final read after a     *)
(* short sleep and unlinks both files.  The consumer runs while the        *)
(* generator is suspended at a yield (pc = "consume", see QueueConsumer)   *)
(* and resumes it at pc = "track".                                         *)
(***************************************************************************)
EXTENDS QueueState

outsideReader == <<now, writer, nameVars, content, cache, sweep, fresh, stamp, written,
                   late, purged, outcome, accepted>>

ReaderAt(pc) == reader.pc = pc
ReaderGoto(pc) == reader' = [reader EXCEPT !.pc = pc]

\* Back to _choose_new_file with no file in hand.
ReaderReset == reader' = [pc |-> "choose", file |-> NoFile, pos |-> 0, last |-> "no"]

Trackers == {f \in Files : loc[Tracker(f)] = "reading"}
WritingFiles == {f \in Files : loc[Data(f)] = "writing"}

\* A tracking file marks a file whose reading was interrupted: it goes first.
ChooseTracked ==
    /\ ReaderAt("choose")
    /\ \E f \in Trackers : reader' = [reader EXCEPT !.pc = "exists", !.file = f]
    /\ UNCHANGED <<outsideReader, diskVars, tracked, count>>

\* Mutants: takes a new file although one is in progress; takes the newest.
ChooseOldestAlways ==
    /\ ReaderAt("choose")
    /\ \E f \in WritingFiles :
          /\ \A g \in WritingFiles : f <= g
          /\ reader' = [reader EXCEPT !.pc = "rename", !.file = f]
    /\ UNCHANGED <<outsideReader, diskVars, tracked, count>>
ChooseNewest ==
    /\ ReaderAt("choose")
    /\ Trackers = {}
    /\ \E f \in WritingFiles :
          /\ \A g \in WritingFiles : f >= g
          /\ reader' = [reader EXCEPT !.pc = "rename", !.file = f]
    /\ UNCHANGED <<outsideReader, diskVars, tracked, count>>

\* Otherwise the oldest name in writing/.  If there is none the reader waits.
ChooseOldest ==
    /\ ReaderAt("choose")
    /\ Trackers = {}
    /\ \E f \in WritingFiles :
          /\ \A g \in WritingFiles : f <= g
          /\ reader' = [reader EXCEPT !.pc = "rename", !.file = f]
    /\ UNCHANGED <<outsideReader, diskVars, tracked, count>>

\* A file that retention removed since the listing is passed over.
RenameFile ==
    LET d == Data(reader.file) IN
    /\ ReaderAt("rename")
    /\ \/ loc[d] = "writing" /\ loc' = [loc EXCEPT ![d] = "reading"] /\ ReaderGoto("exists")
       \/ loc[d] # "writing" /\ ReaderReset /\ UNCHANGED loc
    /\ UNCHANGED <<outsideReader, mtime, tracked, count>>

Unlink(x) == loc' = [loc EXCEPT ![x] = "gone"]
UnlinkIfPresent(x) == IF Exists(x) THEN Unlink(x) ELSE UNCHANGED loc

\* Mutant: leaves an orphaned tracking file where it is.
CheckDataExistsKeepsOrphan ==
    /\ ReaderAt("exists")
    /\ \/ loc[Data(reader.file)] = "reading" /\ ReaderGoto("open")
       \/ loc[Data(reader.file)] # "reading" /\ ReaderReset
    /\ UNCHANGED <<outsideReader, diskVars, tracked, count>>

\* data_path.exists(): without the data file the tracking file is discarded.
CheckDataExists ==
    LET present == loc[Data(reader.file)] = "reading" IN
    /\ ReaderAt("exists")
    /\ \/ present /\ ReaderGoto("open") /\ UNCHANGED loc
       \/ ~present /\ UnlinkIfPresent(Tracker(reader.file)) /\ ReaderReset
    /\ UNCHANGED <<outsideReader, mtime, tracked, count>>

\* Opens the data file and, in append mode, the tracking file.  If retention
\* removed the data since the check, FileNotFoundError leaves the generator: the
\* process exits and is started again.
OpenFiles ==
    LET f == reader.file IN
    /\ ReaderAt("open")
    /\ \/ loc[Data(f)] # "reading" /\ ReaderReset /\ UNCHANGED <<diskVars, tracked>>
       \/ /\ loc[Data(f)] = "reading"
          /\ ReaderGoto("count")
          /\ \/ f \in Trackers /\ UNCHANGED <<diskVars, tracked>>
             \/ /\ f \notin Trackers
                /\ loc' = [loc EXCEPT ![Tracker(f)] = "reading"]
                /\ mtime' = [mtime EXCEPT ![Tracker(f)] = now]
                /\ tracked' = [tracked EXCEPT ![f] = 0]
    /\ UNCHANGED <<outsideReader, count>>

\* Mutant: skips one line less than were counted.
CountTrackedOffByOne ==
    /\ ReaderAt("count")
    /\ reader' = [reader EXCEPT !.pc = "read", !.pos = tracked[reader.file] - 1]
    /\ UNCHANGED <<outsideReader, diskVars, tracked, count>>

\* lines_to_skip is the length of the tracking file, 0 if it has vanished again;
\* islice stops at the end of the data.
CountTracked ==
    LET f == reader.file
        skip == IF f \in Trackers THEN tracked[f] ELSE 0
    IN
    /\ ReaderAt("count")
    /\ reader' = [reader EXCEPT !.pc = "read",
                    !.pos = IF skip <= Len(content[f]) THEN skip ELSE Len(content[f])]
    /\ UNCHANGED <<outsideReader, diskVars, tracked, count>>

MoreLines == reader.pos < Len(content[reader.file])

\* Mutant: counts the line before yielding it.
ReadLineTracksFirst ==
    LET f == reader.file IN
    /\ ReaderAt("read")
    /\ \/ /\ MoreLines
          /\ reader' = [reader EXCEPT !.pc = "consume", !.pos = @ + 1]
          /\ tracked' = [tracked EXCEPT ![f] = @ + 1]
       \/ ~MoreLines /\ ReaderGoto("sleep") /\ UNCHANGED tracked
    /\ UNCHANGED <<outsideReader, diskVars, count>>

\* The next line is yielded; at the end of the file the reader sleeps.
ReadLine ==
    /\ ReaderAt("read")
    /\ \/ MoreLines /\ reader' = [reader EXCEPT !.pc = "consume", !.pos = @ + 1]
       \/ ~MoreLines /\ ReaderGoto("sleep")
    /\ UNCHANGED <<outsideReader, diskVars, tracked, count>>

\* Mutant: no final read.
FinalReadDropped ==
    /\ ReaderAt("sleep")
    /\ ReaderGoto("unlinkData")
    /\ UNCHANGED <<outsideReader, diskVars, tracked, count>>

\* After the sleep, one readline more: its line is the last one taken.
FinalRead ==
    /\ ReaderAt("sleep")
    /\ \/ MoreLines /\ reader' = [reader EXCEPT !.pc = "consume", !.pos = @ + 1, !.last = "yes"]
       \/ ~MoreLines /\ ReaderGoto("unlinkData")
    /\ UNCHANGED <<outsideReader, diskVars, tracked, count>>

\* The consumer came back for the next line: the one it had is counted.  If the
\* tracking file has been unlinked, the write reaches no directory entry.
TrackLine ==
    LET f == reader.file IN
    /\ ReaderAt("track")
    /\ ReaderGoto(IF reader.last = "yes" THEN "unlinkData" ELSE "read")
    /\ \/ /\ f \in Trackers
          /\ tracked' = [tracked EXCEPT ![f] = @ + 1]
          /\ mtime' = [mtime EXCEPT ![Tracker(f)] = now]
       \/ f \notin Trackers /\ UNCHANGED <<tracked, mtime>>
    /\ UNCHANGED <<outsideReader, loc, count>>

\* Mutant: only the tracking file is deleted.
UnlinkDataDropped ==
    /\ ReaderAt("unlinkData")
    /\ ReaderGoto("unlinkTracker")
    /\ UNCHANGED <<outsideReader, diskVars, tracked, count>>

UnlinkData ==
    /\ ReaderAt("unlinkData")
    /\ Unlink(Data(reader.file))
    /\ ReaderGoto("unlinkTracker")
    /\ UNCHANGED <<outsideReader, mtime, tracked, count>>

UnlinkTracker ==
    /\ ReaderAt("unlinkTracker")
    /\ UnlinkIfPresent(Tracker(reader.file))
    /\ ReaderReset
    /\ UNCHANGED <<outsideReader, mtime, tracked, count>>

\* The process is killed, or an exception leaves the loop, and it is restarted.
ReaderCrash ==
    /\ ~ReaderAt("choose")
    /\ Occurs("crash")
    /\ ReaderReset
    /\ UNCHANGED <<outsideReader, diskVars, tracked>>

ReaderStep ==
    \/ ChooseTracked
    \/ ChooseOldest
    \/ RenameFile
    \/ CheckDataExists
    \/ OpenFiles
    \/ CountTracked
    \/ ReadLine
    \/ FinalRead
    \/ TrackLine
    \/ UnlinkData
    \/ UnlinkTracker

=============================================================================
