---------------------------- MODULE ImageQueries ----------------------------
(***************************************************************************)
(* post_image_query from its arrival to its response, between its awaits,  *)
(* with the readiness check and the inference call of EdgeInferenceManager *)
(* and the submission to the cloud, or to the queue when that fails.       *)
(***************************************************************************)
EXTENDS DetectorMetadata

outsideRouting == <<now, config, metadataVars, pods, downAt, online>>

\* record_activity_for_metrics, once for each element of a sequence of activities.
Records(n) == tally' = [a \in Activities |-> tally[a] + n[a]]
Tally(S) == [a \in Activities |-> IF a \in S THEN 1 ELSE 0]

\* A request arrives at some worker.  The content type, the query parameters and the
\* body are checked before the handler does anything: a refused one is not modelled.
Arrive(r, w, human, async) ==
    /\ At(r, "new")
    /\ Becomes(r, [req[r] EXCEPT !.pc = "lookup", !.w = w, !.human = human, !.async = async])
    /\ UNCHANGED <<outsideRouting, ready, records, escalated, accepted, lost, queueVars, tally, count>>

\* The configuration is read once; the parameters are held against it, the query is
\* counted, and a query that must not be answered here leaves for the cloud.
Route(r) ==
    LET s == [req[r] EXCEPT !.config = config]
        returns == config # "escalate"
        always == s.human = "ALWAYS"
    IN
    /\ At(r, "route")
    /\ \/ /\ always /\ returns
          /\ Becomes(r, [s EXCEPT !.pc = "end", !.answer = "400"])
          /\ UNCHANGED tally
       \/ /\ ~always /\ s.async /\ returns
          /\ Becomes(r, [s EXCEPT !.pc = "end", !.answer = "400"])
          /\ Records(Tally({"iqs"}))
       \/ /\ s.async /\ ~returns
          /\ Becomes(r, [s EXCEPT !.pc = "submit"])
          /\ Records(Tally({"iqs", "escalations"}))
       \/ /\ always /\ ~s.async /\ ~returns
          /\ Becomes(r, [s EXCEPT !.pc = "cloud"])
          /\ Records(Tally({"iqs", "escalations"}))
       \/ /\ ~always /\ ~s.async
          /\ Becomes(r, [s EXCEPT !.pc = "available"])
          /\ Records(Tally({"iqs"}))
    /\ UNCHANGED <<outsideRouting, ready, records, escalated, accepted, lost, queueVars, count>>

-----------------------------------------------------------------------------
(* Inference. *)

\* is_edge_inference_ready, through the worker's TTL cache.
Fresh(w, k) == ready[w][k].since # 0 /\ now - ready[w][k].since < ReadyTtl
Ready(w, k) == IF Fresh(w, k) THEN ready[w][k].ok ELSE pods[k]

\* Mutant: an answer is cached for good.
CheckAvailableForever(r) ==
    LET w == req[r].w
        Kept(k) == IF ready[w][k].since # 0 THEN ready[w][k].ok ELSE pods[k]
    IN
    /\ At(r, "available")
    /\ ready' = [ready EXCEPT ![w] =
                   [k \in Pods |-> IF @[k].since # 0 THEN @[k] ELSE [ok |-> pods[k], since |-> now]]]
    /\ Becomes(r, [req[r] EXCEPT !.pc = IF \A k \in Pods : Kept(k) THEN "infer" ELSE "missing",
                                 !.at = now])
    /\ UNCHANGED <<outsideRouting, records, escalated, accepted, lost, queueVars, tally, count>>

\* inference_is_available: the primary server is asked first, the OODD server only
\* when it is ready.
CheckAvailable(r) ==
    LET w == req[r].w
        asked == {k \in Pods : ~Fresh(w, k) /\ (k = "oodd" => Ready(w, "primary"))}
    IN
    /\ At(r, "available")
    /\ ready' = [ready EXCEPT ![w] =
                   [k \in Pods |-> IF k \in asked THEN [ok |-> pods[k], since |-> now] ELSE @[k]]]
    /\ Becomes(r, [req[r] EXCEPT !.pc = IF \A k \in Pods : Ready(w, k) THEN "infer" ELSE "missing",
                                 !.at = now])
    /\ UNCHANGED <<outsideRouting, records, escalated, accepted, lost, queueVars, tally, count>>

\* run_inference: the servers are asked at once; when one does not answer the query fails.
Infer(r) ==
    /\ At(r, "infer")
    /\ \/ /\ \A k \in Pods : pods[k]
          /\ \E sure \in BOOLEAN :
                /\ Becomes(r, [req[r] EXCEPT !.pc = "edge", !.sure = sure])
                /\ Records(Tally(IF sure THEN {} ELSE {"below_threshold_iqs"}))
       \/ /\ \E k \in Pods : ~pods[k]
          /\ Fail(r, "500")
          /\ UNCHANGED tally
    /\ UNCHANGED <<outsideRouting, ready, records, escalated, accepted, lost, queueVars, count>>

\* Without inference: records for the updater, and 503 when an edge answer is required.
NoInference(r) ==
    /\ At(r, "missing")
    /\ records' = records \cup Pods
    /\ IF req[r].config = "escalate" THEN Goto(r, "cloud") ELSE Fail(r, "503")
    /\ UNCHANGED <<outsideRouting, ready, escalated, accepted, lost, queueVars, tally, count>>

-----------------------------------------------------------------------------
(* Escalation. *)

\* write_escalation_to_queue: a failure is only logged.
WriteToQueue(r) ==
    \/ queue' = queue \cup {r} /\ UNCHANGED <<unwritten, count>>
    \/ Occurs("disk") /\ unwritten' = unwritten \cup {r} /\ UNCHANGED queue

\* Mutant: the time of the last escalation is not looked at.
CooldownIgnored(w) == TRUE

\* escalation_cooldown_complete; the worker's own last escalation counts.
CooldownComplete(w) == escalated[w] = 0 \/ now - escalated[w] > Cooldown

\* Mutant: the audit and the background escalation come before the check of
\* disable_cloud_escalation.
AnswerFromEdgeEscalatesFirst(r) ==
    /\ At(r, "edge")
    /\ req[r].sure \/ req[r].config # "escalate"
    /\ Answer(r, "edge", req[r].sure)
    /\ IF req[r].sure THEN UNCHANGED <<queueVars, count>> ELSE WriteToQueue(r)
    /\ UNCHANGED <<outsideRouting, ready, records, escalated, accepted, lost, tally>>

\* A confident answer, or one that is returned whatever its confidence: it may be
\* audited, or escalated in the background, and is then not done processing.
AnswerFromEdge(r) ==
    LET s == req[r]
        disabled == s.config = "disable"
    IN
    /\ At(r, "edge")
    /\ s.sure \/ s.config # "escalate"
    /\ \/ /\ s.sure \/ disabled \/ ~CooldownComplete(s.w)
          /\ Answer(r, "edge", TRUE)
          /\ UNCHANGED <<queueVars, escalated, tally, count>>
       \/ /\ s.sure /\ ~disabled
          /\ Answer(r, "edge", TRUE)
          /\ Records(Tally({"audits"}))
          /\ WriteToQueue(r)
          /\ UNCHANGED escalated
       \/ /\ ~s.sure /\ ~disabled /\ CooldownComplete(s.w)
          /\ escalated' = [escalated EXCEPT ![s.w] = now]
          /\ Answer(r, "edge", FALSE)
          /\ Records(Tally({"escalations"}))
          /\ WriteToQueue(r)
    /\ UNCHANGED <<outsideRouting, ready, records, accepted, lost>>

EscalateUnsure(r) ==
    /\ At(r, "edge")
    /\ ~req[r].sure /\ req[r].config = "escalate"
    /\ Goto(r, "cloud")
    /\ UNCHANGED <<outsideRouting, ready, records, escalated, accepted, lost, queueVars, tally, count>>

\* The fall-back to the cloud, and the assertion that guards it.
FallBack(r) ==
    /\ At(r, "cloud")
    /\ IF req[r].config = "disable" THEN Fail(r, "AssertionError") /\ UNCHANGED tally
       ELSE Goto(r, "submit") /\ Records(Tally({"escalations"}))
    /\ UNCHANGED <<outsideRouting, ready, records, escalated, accepted, lost, queueVars, count>>

\* Mutant: what could not be submitted is not written to the queue.
SubmitWithoutQueue(r) ==
    /\ At(r, "submit")
    /\ IF online THEN Answer(r, "cloud", FALSE) ELSE Fail(r, "cloud error")
    /\ accepted' = [accepted EXCEPT ![r] = IF online THEN @ + 1 ELSE @]
    /\ UNCHANGED <<outsideRouting, ready, records, escalated, lost, queueVars, tally, count>>

\* Mutant: the escalation is written to the queue whatever the cloud answers.
SubmitAlwaysQueues(r) ==
    /\ At(r, "submit")
    /\ IF online THEN Answer(r, "cloud", FALSE) ELSE Fail(r, "cloud error")
    /\ accepted' = [accepted EXCEPT ![r] = IF online THEN @ + 1 ELSE @]
    /\ WriteToQueue(r)
    /\ UNCHANGED <<outsideRouting, ready, records, escalated, lost, tally>>

\* safe_escalate_with_queue_write: after any exception the escalation is written to the
\* queue, also when the cloud has the image and only the answer was lost.
Submit(r) ==
    /\ At(r, "submit")
    /\ \/ /\ online
          /\ accepted' = [accepted EXCEPT ![r] = @ + 1]
          /\ Answer(r, "cloud", FALSE)
          /\ UNCHANGED <<lost, queueVars, count>>
       \/ /\ online
          /\ Occurs("lost")
          /\ accepted' = [accepted EXCEPT ![r] = @ + 1]
          /\ lost' = lost \cup {r}
          /\ queue' = queue \cup {r}
          /\ Fail(r, "cloud error")
          /\ UNCHANGED unwritten
       \/ /\ ~online
          /\ WriteToQueue(r)
          /\ Fail(r, "cloud error")
          /\ UNCHANGED <<accepted, lost>>
    /\ UNCHANGED <<outsideRouting, ready, records, escalated, tally>>

-----------------------------------------------------------------------------
(* Around the handler. *)
outsideWorld == <<req, metadataVars, ready, records, escalated, unwritten, lost, tally>>

Tick ==
    /\ now < MaxTime
    /\ now' = now + 1
    /\ UNCHANGED <<outsideWorld, config, pods, downAt, online, accepted, queue, count>>

Reconfigure(c) ==
    /\ c # config
    /\ Occurs("put")
    /\ config' = c
    /\ UNCHANGED <<outsideWorld, now, pods, downAt, online, accepted, queue>>

PodChanges(k) ==
    /\ Occurs("pod")
    /\ pods' = [pods EXCEPT ![k] = ~@]
    /\ downAt' = [downAt EXCEPT ![k] = IF pods[k] THEN now ELSE @]
    /\ UNCHANGED <<outsideWorld, now, config, online, accepted, queue>>

CloudChanges ==
    /\ Occurs("cloud")
    /\ online' = ~online
    /\ UNCHANGED <<outsideWorld, now, config, pods, downAt, accepted, queue>>

\* The queue hands an escalation to the cloud (EscalationQueue has the detail).
Deliver(r) ==
    /\ r \in queue /\ online
    /\ queue' = queue \ {r}
    /\ accepted' = [accepted EXCEPT ![r] = @ + 1]
    /\ UNCHANGED <<outsideWorld, now, config, pods, downAt, online, count>>

HandlerStep(r) ==
    \/ MetadataStep(r)
    \/ Route(r) \/ CheckAvailable(r) \/ Infer(r) \/ NoInference(r)
    \/ AnswerFromEdge(r) \/ EscalateUnsure(r) \/ FallBack(r) \/ Submit(r)

Next ==
    \/ \E r \in Requests, w \in Workers, human \in HumanReviews, async \in BOOLEAN :
          Arrive(r, w, human, async)
    \/ \E r \in Requests : HandlerStep(r) \/ Deliver(r)
    \/ Tick \/ CloudChanges
    \/ \E c \in Configs : Reconfigure(c)
    \/ \E k \in Pods : PodChanges(k)

Spec == Init /\ [][Next]_vars

-----------------------------------------------------------------------------
PCs == {"new", "lookup", "fetch", "route", "available", "infer", "edge", "missing", "cloud",
        "submit", "refresh", "suspend", "again", "refetch", "drop", "restore", "end"}
Answers == {"none", "edge", "cloud", "400", "500", "503", "metadata error", "cloud error", "AssertionError"}

\* Every variable keeps to its type.
TypeOK ==
    /\ now \in Nat
    /\ config \in Configs
    /\ req \in [Requests -> [pc : PCs, w : Workers, human : HumanReviews, async : BOOLEAN,
                             config : Configs, at : Nat, sure : BOOLEAN,
                             answer : Answers, done : BOOLEAN]]
    /\ entry \in [Workers -> [held : BOOLEAN, since : Nat]]
    /\ suspended \in [Workers -> BOOLEAN]
    /\ ready \in [Workers -> [Pods -> [ok : BOOLEAN, since : Nat]]]
    /\ escalated \in [Workers -> Nat]
    /\ pods \in [Pods -> BOOLEAN]
    /\ downAt \in [Pods -> Nat]
    /\ online \in BOOLEAN
    /\ records \subseteq Pods
    /\ {queue, unwritten, lost} \subseteq SUBSET Requests
    /\ raced \subseteq Workers
    /\ accepted \in [Requests -> Nat]
    /\ tally \in [Activities -> Nat]
    /\ count \in [Events -> Nat]

Sent(r) == r \in queue \/ accepted[r] > 0

\* A query of a detector with disable_cloud_escalation, by the configuration the query
\* found, reaches neither the cloud nor the queue on any path, and never the assertion
\* that the code says cannot be reached.
NothingSentWhenDisabled ==
    \A r \in Requests :
        /\ req[r].config = "disable" => ~Sent(r)
        /\ req[r].answer # "AssertionError"

\* A query that the client was told is not done, or that failed for want of the cloud
\* after its image was to be sent there, is with the cloud or waits in the queue, unless
\* the write to the queue failed - which nobody is told.
UndoneIsSent ==
    \A r \in Requests :
        req[r].answer \in {"cloud", "cloud error"} \/ (req[r].answer = "edge" /\ ~req[r].done)
        => Sent(r) \/ r \in unwritten

\* The cloud takes a query once, or twice when it had taken the first submission and
\* its answer was lost: the submission carries no ID by which to recognise the second.
TwiceOnlyIfAnswerLost ==
    \A r \in Requests : accepted[r] <= IF r \in lost THEN 2 ELSE 1

\* Metadata that a worker has once had is not lost to a refresh that fails: they are
\* cached, or suspended while a refresh is under way - unless two refreshes overlapped.
MetadataKept ==
    \A r \in Requests :
        LET w == req[r].w IN
        /\ req[r].pc \notin {"new", "lookup", "fetch"} /\ req[r].answer # "metadata error"
        /\ w \notin raced
        => entry[w].held \/ (suspended[w] /\ Refreshing(w) # {})

\* Background escalations by one worker are more than min_time_between_escalations
\* apart, also when queries overlap and the configuration changes.
CooldownKept ==
    \A r, s \in Requests :
        /\ r # s /\ req[r].w = req[s].w
        /\ {req[r].answer, req[s].answer} = {"edge"} /\ ~req[r].done /\ ~req[s].done
        => req[r].at - req[s].at > Cooldown \/ req[s].at - req[r].at > Cooldown

\* A query is sent to a server that no longer answers only when the server went down
\* less than the TTL of the readiness cache before the check, or after it.
StaleReadinessBounded ==
    [][\A r \in Requests :
          req[r].pc = "infer" /\ req'[r].answer = "500"
             => \E k \in Pods : ~pods[k] /\ downAt[k] + ReadyTtl > req[r].at]_vars

\* The escalation counter: one for every query sent, or to be sent, for want of a
\* confident edge answer, and a second one for human_review=ALWAYS, which is counted
\* where edge inference is skipped and again where the query is submitted.
EscalationsCounted ==
    LET submitted == {r \in Requests : req[r].pc = "submit" \/ req[r].answer = "cloud"}
        failed == {r \in Requests : req[r].answer = "cloud error" /\ (Sent(r) \/ r \in unwritten)}
        background == {r \in Requests : req[r].answer = "edge" /\ ~req[r].done}
        always == {r \in Requests : req[r].human = "ALWAYS" /\ ~req[r].async}
        inCloud == {r \in always : req[r].pc = "cloud"}
    IN  tally["escalations"] = Cardinality(submitted \cup failed \cup background)
            + Cardinality(always \cap (submitted \cup failed)) + Cardinality(inCloud)

=============================================================================
