-------------------------- MODULE DetectorMetadata --------------------------
(***************************************************************************)
(* The cache of detector metadata (TimestampedCache under cachetools'      *)
(* unlocked "cached"), and the background task that refreshes an old entry *)
(* after a response.  Requests and tasks run in threads of one worker and  *)
(* interleave between any two operations on the cache.                     *)
(***************************************************************************)
EXTENDS QueryState

outsideMetadata == <<now, config, inferenceVars, escalated, cloudVars, queueVars, tally, count>>

Fetched(w) == entry' = [entry EXCEPT ![w] = [held |-> TRUE, since |-> now]]

\* get_detector_metadata: a hit, or else a call to the cloud.
LookUpMetadata(r) ==
    /\ At(r, "lookup")
    /\ Goto(r, IF entry[req[r].w].held THEN "route" ELSE "fetch")
    /\ UNCHANGED <<outsideMetadata, metadataVars>>

\* The call; on success the value is cached, also over one that came meanwhile.
FetchMetadata(r) ==
    /\ At(r, "fetch")
    /\ IF online THEN Fetched(req[r].w) /\ Goto(r, "route")
       ELSE Fail(r, "metadata error") /\ UNCHANGED entry
    /\ UNCHANGED <<outsideMetadata, suspended, raced>>

-----------------------------------------------------------------------------
(* refresh_detector_metadata_if_needed *)

Refreshing(v) == {r \in Requests : req[r].w = v /\ req[r].pc \in
                    {"suspend", "again", "refetch", "drop", "restore"}}

\* The age of the entry decides; a key that is not cached has no timestamp.
CheckAge(r) ==
    LET w == req[r].w
        stale == entry[w].held /\ now - entry[w].since > StaleAfter
    IN
    /\ At(r, "refresh")
    /\ Goto(r, IF stale THEN "suspend" ELSE "end")
    /\ raced' = IF stale /\ Refreshing(w) # {} THEN raced \cup {w} ELSE raced
    /\ UNCHANGED <<outsideMetadata, entry, suspended>>

\* suspend_cached_value: the KeyError of a key that is gone ends the task.
Suspend(r) ==
    LET w == req[r].w IN
    /\ At(r, "suspend")
    /\ IF entry[w].held
       THEN /\ entry' = [entry EXCEPT ![w] = NoEntry]
            /\ suspended' = [suspended EXCEPT ![w] = TRUE]
            /\ Goto(r, "again")
       ELSE Goto(r, "end") /\ UNCHANGED <<entry, suspended>>
    /\ UNCHANGED <<outsideMetadata, raced>>

\* get_detector_metadata once more: another thread may have filled the cache.
LookUpAgain(r) ==
    /\ At(r, "again")
    /\ Goto(r, IF entry[req[r].w].held THEN "drop" ELSE "refetch")
    /\ UNCHANGED <<outsideMetadata, metadataVars>>

Refetch(r) ==
    /\ At(r, "refetch")
    /\ IF online THEN Fetched(req[r].w) /\ Goto(r, "drop")
       ELSE Goto(r, "restore") /\ UNCHANGED entry
    /\ UNCHANGED <<outsideMetadata, suspended, raced>>

\* delete_suspended_value: a KeyError is logged.
DropSuspended(r) ==
    /\ At(r, "drop")
    /\ suspended' = [suspended EXCEPT ![req[r].w] = FALSE]
    /\ Goto(r, "end")
    /\ UNCHANGED <<outsideMetadata, entry, raced>>

\* Mutant: the suspended value is dropped and the cache left empty.
RestoreDrops(r) ==
    /\ At(r, "restore")
    /\ suspended' = [suspended EXCEPT ![req[r].w] = FALSE]
    /\ Goto(r, "end")
    /\ UNCHANGED <<outsideMetadata, entry, raced>>

\* restore_suspended_value: the stale value counts as new; a KeyError ends the task.
Restore(r) ==
    LET w == req[r].w IN
    /\ At(r, "restore")
    /\ IF suspended[w] THEN Fetched(w) ELSE UNCHANGED entry
    /\ suspended' = [suspended EXCEPT ![w] = FALSE]
    /\ Goto(r, "end")
    /\ UNCHANGED <<outsideMetadata, raced>>

MetadataStep(r) ==
    \/ LookUpMetadata(r) \/ FetchMetadata(r)
    \/ CheckAge(r) \/ Suspend(r) \/ LookUpAgain(r) \/ Refetch(r) \/ DropSuspended(r) \/ Restore(r)

=============================================================================
