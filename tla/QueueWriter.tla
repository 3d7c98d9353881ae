---------------------------- MODULE QueueWriter ----------------------------
(***************************************************************************)
(* write_escalation_to_queue and the QueueWriter of each worker.  A worker *)
(* writes one escalation at a time: the image, then one line appended to   *)
(* its current file in writing/.  Opening the file and writing the line    *)
(* are two system calls; in between the file may be moved or unlinked.     *)
(***************************************************************************)
EXTENDS QueueState

outsideWriter == <<now, tracked, cache, reader, sweep, purged, outcome, accepted>>

At(w, pc) == writer[w].pc = pc
Becomes(w, state) == writer' = [writer EXCEPT ![w] = state]
Goto(w, pc) == Becomes(w, [writer[w] EXCEPT !.pc = pc])
Done(w) == Becomes(w, [writer[w] EXCEPT !.pc = "idle", !.esc = NoEscalation])

\* The timestamp is taken before anything is written.
TakeTimestamp(w, e) ==
    /\ At(w, "idle")
    /\ e \in fresh
    /\ Becomes(w, [writer[w] EXCEPT !.pc = "image", !.esc = e])
    /\ fresh' = fresh \ {e}
    /\ stamp' = [stamp EXCEPT ![e] = now]
    /\ UNCHANGED <<outsideWriter, nameVars, diskVars, content, written, late, count>>

PutImage(e) ==
    /\ loc' = [loc EXCEPT ![Image(e)] = "images"]
    /\ mtime' = [mtime EXCEPT ![Image(e)] = now]

WriteImage(w) ==
    /\ At(w, "image")
    /\ PutImage(writer[w].esc)
    /\ Goto(w, "choose")
    /\ UNCHANGED <<outsideWriter, nameVars, content, fresh, stamp, written, late, count>>

\* write_bytes raises: logged and swallowed, perhaps leaving a partial image.
WriteImageFails(w) ==
    /\ At(w, "image")
    /\ Occurs("fault")
    /\ Done(w)
    /\ PutImage(writer[w].esc) \/ UNCHANGED diskVars
    /\ UNCHANGED <<outsideWriter, nameVars, content, fresh, stamp, written, late>>

\* _reset_to_new_file: a name that is not on disk yet, to be created next.
ResetToNewFile(w) ==
    /\ names < MaxFiles
    /\ names' = names + 1
    /\ owner' = [owner EXCEPT ![names + 1] = w]
    /\ Becomes(w, [writer[w] EXCEPT !.pc = "create", !.file = names + 1, !.lines = 0])

NeedsNewFile(w) == writer[w].file = NoFile \/ writer[w].lines >= MaxQueueFileLines

\* Mutant: the timestamp is taken when the record is written, after the image.
ChooseFileRestamps(w) ==
    /\ At(w, "choose")
    /\ stamp' = [stamp EXCEPT ![writer[w].esc] = now]
    /\ \/ NeedsNewFile(w) /\ ResetToNewFile(w)
       \/ ~NeedsNewFile(w) /\ Goto(w, "open") /\ UNCHANGED nameVars
    /\ UNCHANGED <<outsideWriter, diskVars, content, fresh, written, late, count>>

\* write_escalation: stay with the last file or start a new one.
ChooseFile(w) ==
    /\ At(w, "choose")
    /\ \/ NeedsNewFile(w) /\ ResetToNewFile(w)
       \/ ~NeedsNewFile(w) /\ Goto(w, "open") /\ UNCHANGED nameVars
    /\ UNCHANGED <<outsideWriter, diskVars, content, fresh, stamp, written, late, count>>

\* os.open without O_CREAT.  FileNotFoundError - the reader moved the file,
\* retention removed it, or it was never created - resets to a new name.
OpenExisting(w) ==
    LET present == loc[Data(writer[w].file)] = "writing" IN
    /\ At(w, "open")
    /\ \/ present /\ Goto(w, "append") /\ UNCHANGED nameVars
       \/ ~present /\ ResetToNewFile(w)
    /\ UNCHANGED <<outsideWriter, diskVars, content, fresh, stamp, written, late, count>>

\* os.open with O_CREAT.
CreateFile(w) ==
    /\ At(w, "create")
    /\ loc' = [loc EXCEPT ![Data(writer[w].file)] = "writing"]
    /\ mtime' = [mtime EXCEPT ![Data(writer[w].file)] = now]
    /\ Goto(w, "append")
    /\ UNCHANGED <<outsideWriter, nameVars, content, fresh, stamp, written, late, count>>

\* The reader will take no further line from f.
FinishedWith(f) ==
    \/ loc[Data(f)] = "gone"
    \/ reader.file = f /\ (reader.last = "yes" \/ reader.pc = "unlinkData")

\* The write, through a descriptor that stays valid wherever the file went.
AppendLine(w) ==
    LET f == writer[w].file
        e == writer[w].esc
    IN
    /\ At(w, "append")
    /\ content' = [content EXCEPT ![f] = Append(@, e)]
    /\ mtime' = [mtime EXCEPT ![Data(f)] = now]
    /\ Becomes(w, [writer[w] EXCEPT !.pc = "idle", !.esc = NoEscalation, !.lines = @ + 1])
    /\ written' = written \cup {e}
    /\ late' = IF FinishedWith(f) THEN late \cup {e} ELSE late
    /\ UNCHANGED <<outsideWriter, nameVars, loc, fresh, stamp, count>>

\* OSError: write_escalation returns False, which no caller looks at.  A new name
\* stays in last_file_path although the file may not exist.
WriteFails(w) ==
    /\ writer[w].pc \in {"open", "create", "append"}
    /\ Occurs("fault")
    /\ Done(w)
    /\ UNCHANGED <<outsideWriter, nameVars, diskVars, content, fresh, stamp, written, late>>

\* The worker is killed; its successor starts with a new QueueWriter.
WorkerCrash(w) ==
    /\ writer[w].pc # "idle" \/ writer[w].file # NoFile
    /\ Occurs("crash")
    /\ Becomes(w, [pc |-> "idle", esc |-> NoEscalation, file |-> NoFile, lines |-> 0])
    /\ UNCHANGED <<outsideWriter, nameVars, diskVars, content, fresh, stamp, written, late>>

WorkerStep(w) ==
    \/ \E e \in Escalations : TakeTimestamp(w, e)
    \/ WriteImage(w)
    \/ ChooseFile(w)
    \/ OpenExisting(w)
    \/ CreateFile(w)
    \/ AppendLine(w)

WorkerFault(w) == WriteImageFails(w) \/ WriteFails(w) \/ WorkerCrash(w)

=============================================================================
