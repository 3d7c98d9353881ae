--------------------------- MODULE QueueConsumer ---------------------------
(***************************************************************************)
(* One turn of the loop in read_from_escalation_queue: the line is skipped *)
(* if its request ID is cached and submitted to the cloud otherwise, with  *)
(* retries for as long as the failure is retryable; a permanent failure is *)
(* recorded, or dropped when the escalation has expired.  In every case    *)
(* the request ID is cached and the image deleted.  It runs in the reader  *)
(* process, while the generator of QueueReader is suspended.               *)
(***************************************************************************)
EXTENDS QueueReader

outsideConsumer == <<now, writer, nameVars, mtime, content, tracked, sweep, fresh, stamp,
                     written, late, purged>>

Result(o) == outcome' = [outcome EXCEPT ![Line] = @ \cup {o}]

Cached(c, r) == \E i \in DOMAIN c : c[i] = r

CheckCache ==
    /\ ReaderAt("consume")
    /\ \/ Cached(cache, RequestOf[Line]) /\ Result("skipped") /\ ReaderGoto("cache")
       \/ ~Cached(cache, RequestOf[Line]) /\ ReaderGoto("submit") /\ UNCHANGED outcome
    /\ UNCHANGED <<outsideConsumer, loc, cache, accepted, count>>

\* The cloud can take in a submission only if the image could be read.
CloudTakesIn == Exists(Image(Line)) /\ accepted' = [accepted EXCEPT ![Line] = @ + 1]

\* Mutant: the result is not returned, so the retry loop goes on.
SubmitAcceptedLoops ==
    /\ ReaderAt("submit")
    /\ CloudTakesIn
    /\ Result("accepted")
    /\ ReaderGoto("wait")
    /\ UNCHANGED <<outsideConsumer, loc, cache, count>>

\* _escalate_once returns.
SubmitAccepted ==
    /\ ReaderAt("submit")
    /\ CloudTakesIn
    /\ Result("accepted")
    /\ ReaderGoto("cache")
    /\ UNCHANGED <<outsideConsumer, loc, cache, count>>

\* Retryable: no client, no network, throttled.  The client is made before the
\* image is read, so this can happen whether or not the image is there.
SubmitRetryable ==
    /\ ReaderAt("submit")
    /\ ReaderGoto("wait")
    /\ UNCHANGED <<outsideConsumer, loc, cache, outcome, accepted, count>>

\* The cloud takes the query in but reading the reply times out: also retryable.
SubmitReplyLost ==
    /\ ReaderAt("submit")
    /\ CloudTakesIn
    /\ Occurs("lostReply")
    /\ ReaderGoto("wait")
    /\ UNCHANGED <<outsideConsumer, loc, cache, outcome>>

\* One of RETRY_WAIT_TIMES has passed.
RetryWait ==
    /\ ReaderAt("wait")
    /\ ReaderGoto("submit")
    /\ UNCHANGED <<outsideConsumer, loc, cache, outcome, accepted, count>>

\* Permanent: the image is missing, or the cloud rejects the query.
SubmitFails ==
    /\ ReaderAt("submit")
    /\ ReaderGoto("failed")
    /\ UNCHANGED <<outsideConsumer, loc, cache, outcome, accepted, count>>

\* The failure of an expired escalation is dropped, any other is recorded; an
\* error in record_failed_escalation is swallowed.
HandleFailure ==
    /\ ReaderAt("failed")
    /\ ReaderGoto("cache")
    /\ \/ Expired(Line) /\ Result("dropped") /\ UNCHANGED count
       \/ ~Expired(Line) /\ Result("recorded") /\ UNCHANGED count
       \/ ~Expired(Line) /\ Result("unrecorded") /\ Occurs("fault")
    /\ UNCHANGED <<outsideConsumer, loc, cache, accepted>>

\* Mutant: evicts one entry too early.
CacheAddEvictsEarly(c, r) ==
    IF Cached(c, r) THEN c
    ELSE IF Len(c) + 1 < MaxCacheEntries THEN Append(c, r)
    ELSE Append(SubSeq(c, Len(c) - MaxCacheEntries + 3, Len(c)), r)

\* RequestCache.add: a known ID keeps its age; a full cache loses its oldest.
CacheAdd(c, r) ==
    IF Cached(c, r) THEN c
    ELSE IF Len(c) < MaxCacheEntries THEN Append(c, r)
    ELSE Append(SubSeq(c, Len(c) - MaxCacheEntries + 2, Len(c)), r)

\* Mutant: a settled request is not cached.
CacheRequestDropped ==
    /\ ReaderAt("cache")
    /\ ReaderGoto("unlinkImage")
    /\ UNCHANGED <<outsideConsumer, loc, cache, outcome, accepted, count>>

CacheRequest ==
    /\ ReaderAt("cache")
    /\ cache' = CacheAdd(cache, RequestOf[Line])
    /\ ReaderGoto("unlinkImage")
    /\ UNCHANGED <<outsideConsumer, loc, outcome, accepted, count>>

UnlinkImage ==
    /\ ReaderAt("unlinkImage")
    /\ UnlinkIfPresent(Image(Line))
    /\ ReaderGoto("track")
    /\ UNCHANGED <<outsideConsumer, cache, outcome, accepted, count>>

ConsumerStep ==
    \/ CheckCache
    \/ SubmitAccepted
    \/ SubmitRetryable
    \/ SubmitReplyLost
    \/ RetryWait
    \/ SubmitFails
    \/ HandleFailure
    \/ CacheRequest
    \/ UnlinkImage

=============================================================================
