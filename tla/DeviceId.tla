------------------------------ MODULE DeviceId ------------------------------
(***************************************************************************)
(* The device ID: a JSON file that the first call of get_deviceid_str      *)
(* makes, that later calls read, and that customers edit.  The calls of    *)
(* one payload are two; the route /status/metrics.json and the hourly job  *)
(* make payloads in threads of their own.                                  *)
(***************************************************************************)
EXTENDS Naturals, FiniteSets

CONSTANTS Callers, MaxIds, MaxPayloads, MaxEdits, MaxKills

VARIABLES
    idFile,     \* state "absent", "torn" or "whole", id, edited: has it a customer's fields?
    caller,     \* of each thread: pc, calls of the payload left, id generated
    ids,        \* IDs generated so far
    editing,    \* the ID in the file that a customer is saving, 0 when there is none
    payloads, edits, kills      \* history: events so far

deviceVars == <<idFile, caller, ids, editing, payloads, edits, kills>>

NoCall == [pc |-> "idle", calls |-> 0, id |-> 0]

DeviceInit ==
    /\ idFile = [state |-> "absent", id |-> 0, edited |-> FALSE]
    /\ caller = [c \in Callers |-> NoCall]
    /\ ids = 0 /\ editing = 0
    /\ payloads = 0 /\ edits = 0 /\ kills = 0

CAt(c, pc) == caller[c].pc = pc
CGoto(c, pc) == caller' = [caller EXCEPT ![c] = [caller[c] EXCEPT !.pc = pc]]
\* get_deviceid_metadata_dict returns; the payload makes the next call.
Returns(c) ==
    caller' = [caller EXCEPT ![c] =
                 IF caller[c].calls = 1 THEN NoCall
                 ELSE [pc |-> "exists", calls |-> caller[c].calls - 1, id |-> 0]]

\* metrics_payload asks for the ID and then for all the fields.
Payload(c) ==
    /\ CAt(c, "idle")
    /\ payloads < MaxPayloads
    /\ payloads' = payloads + 1
    /\ caller' = [caller EXCEPT ![c] = [pc |-> "exists", calls |-> 2, id |-> 0]]
    /\ UNCHANGED <<idFile, ids, editing, edits, kills>>

FindFile(c) ==
    /\ CAt(c, "exists")
    /\ CGoto(c, IF idFile.state = "absent" THEN "make" ELSE "load")
    /\ UNCHANGED <<idFile, ids, editing, payloads, edits, kills>>

\* Mutant: a file with fields of the customer's is taken for an invalid one.
LoadFileOwnFieldsOnly(c) ==
    /\ CAt(c, "load")
    /\ IF idFile.state = "whole" /\ ~idFile.edited THEN Returns(c) ELSE CGoto(c, "make")
    /\ UNCHANGED <<idFile, ids, editing, payloads, edits, kills>>

\* Of a file that is being written the parser sees nothing: JSONDecodeError, and a
\* new ID is made.
LoadFile(c) ==
    /\ CAt(c, "load")
    /\ IF idFile.state = "whole" THEN Returns(c) ELSE CGoto(c, "make")
    /\ UNCHANGED <<idFile, ids, editing, payloads, edits, kills>>

\* _save_new_deviceid_dict: open(..., "w") cuts the file, the dump is written on close.
TruncateFile(c) ==
    /\ CAt(c, "make")
    /\ ids < MaxIds
    /\ ids' = ids + 1
    /\ idFile' = [state |-> "torn", id |-> 0, edited |-> FALSE]
    /\ caller' = [caller EXCEPT ![c] = [caller[c] EXCEPT !.pc = "dump", !.id = ids + 1]]
    /\ UNCHANGED <<editing, payloads, edits, kills>>

DumpFile(c) ==
    /\ CAt(c, "dump")
    /\ idFile' = [state |-> "whole", id |-> caller[c].id, edited |-> FALSE]
    /\ Returns(c)
    /\ UNCHANGED <<ids, editing, payloads, edits, kills>>

\* A customer saves the file with other fields and the same ID, in place.
EditBegins ==
    /\ editing = 0 /\ idFile.state = "whole"
    /\ edits < MaxEdits
    /\ edits' = edits + 1
    /\ editing' = idFile.id
    /\ idFile' = [state |-> "torn", id |-> 0, edited |-> FALSE]
    /\ UNCHANGED <<caller, ids, payloads, kills>>

EditEnds ==
    /\ editing # 0
    /\ editing' = 0
    /\ idFile' = [state |-> "whole", id |-> editing, edited |-> TRUE]
    /\ UNCHANGED <<caller, ids, payloads, edits, kills>>

\* The status monitor is killed and restarted: every call is gone, the file stays.
KillStatus ==
    /\ kills < MaxKills
    /\ kills' = kills + 1
    /\ caller' = [c \in Callers |-> NoCall]
    /\ UNCHANGED <<idFile, ids, editing, payloads, edits>>

DeviceNext ==
    \/ \E c \in Callers :
          Payload(c) \/ FindFile(c) \/ LoadFile(c) \/ TruncateFile(c) \/ DumpFile(c)
    \/ EditBegins \/ EditEnds \/ KillStatus

\* The ID is there, nobody is about to make another, and no edit is under way.
Identified ==
    /\ idFile.state = "whole" /\ editing = 0
    /\ \A c \in Callers : caller[c].pc \notin {"make", "dump"}

\* Once the device has its ID and the calls that raced to make it have ended, it keeps
\* it: no later call, restart of the status monitor or finished edit of a customer gives
\* it another.  Only a call that reads the file in the middle of an edit does.
DeviceIdStable ==
    [][Identified => editing' # 0 \/ (Identified' /\ idFile'.id = idFile.id)]_deviceVars

=============================================================================
