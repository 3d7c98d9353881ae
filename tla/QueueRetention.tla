--------------------------- MODULE QueueRetention ---------------------------
(***************************************************************************)
(* prune_expired_queue_data, run by a cron job whose runs never overlap:   *)
(* images/, writing/ and reading/ are listed one after the other, and each *)
(* entry is stat-ed and, if it was last modified before the cutoff,        *)
(* unlinked.  The stat and the unlink are two steps.                       *)
(***************************************************************************)
EXTENDS QueueState

outsideSweep == <<now, writer, nameVars, mtime, content, tracked, cache, reader, fresh,
                  stamp, written, late, outcome, accepted>>

Listing(dir) == {x \in Entries : loc[x] = dir}

\* The cutoff, now - RetentionDays, is computed once per sweep.
SweepStart ==
    /\ sweep.dir = "idle"
    /\ Occurs("sweep")
    /\ sweep' = [sweep EXCEPT !.dir = "images", !.at = now, !.todo = Listing("images")]
    /\ UNCHANGED <<outsideSweep, loc, purged>>

BeforeCutoff(x) == loc[x] = sweep.dir /\ mtime[x] + RetentionDays < sweep.at

SweepStat ==
    /\ sweep.victim = NoEntry
    /\ \E x \in sweep.todo :
          sweep' = [sweep EXCEPT !.todo = @ \ {x},
                                 !.victim = IF BeforeCutoff(x) THEN x ELSE NoEntry]
    /\ UNCHANGED <<outsideSweep, loc, purged, count>>

\* unlink(missing_ok=True): a file moved since the stat is not at that path.
SweepUnlink ==
    LET x == sweep.victim IN
    /\ x # NoEntry
    /\ sweep' = [sweep EXCEPT !.victim = NoEntry]
    /\ \/ /\ loc[x] = sweep.dir
          /\ loc' = [loc EXCEPT ![x] = "gone"]
          /\ purged' = purged \cup
                {e \in Escalations : \E f \in Files : \E i \in DOMAIN content[f] :
                                        x = Data(f) /\ content[f][i] = e}
       \/ loc[x] # sweep.dir /\ UNCHANGED <<loc, purged>>
    /\ UNCHANGED <<outsideSweep, count>>

NextDir(dir) == IF dir = "images" THEN "writing"
                ELSE IF dir = "writing" THEN "reading" ELSE "idle"

SweepNextDir ==
    /\ sweep.dir # "idle"
    /\ sweep.todo = {}
    /\ sweep.victim = NoEntry
    /\ sweep' = [sweep EXCEPT !.dir = NextDir(@), !.todo = Listing(NextDir(sweep.dir))]
    /\ UNCHANGED <<outsideSweep, loc, purged, count>>

SweepStep == SweepStart \/ SweepStat \/ SweepUnlink \/ SweepNextDir

=============================================================================
