------------------------- MODULE ImageQueriesProofs -------------------------
(***************************************************************************)
(* Proofs about ImageQueries, for any finite set of requests, any number   *)
(* of uvicorn workers and any number of changes of the configuration, the  *)
(* pods and the cloud.                                                     *)
(***************************************************************************)
EXTENDS ImageQueries, FiniteSetTheorems, TLAPS

RequestStates == [pc : PCs, w : Workers, human : HumanReviews, async : BOOLEAN,
                  config : Configs, at : Nat, sure : BOOLEAN, answer : Answers, done : BOOLEAN]

\* The handler in its order: before the parameters are held against the configuration;
\* on the way to an edge answer; on the way to the cloud; in the background task.
Early == {"new", "lookup", "fetch", "route"}
Middle == {"available", "infer", "edge", "missing"}
Outward == {"cloud", "submit"}
After == {"refresh", "suspend", "again", "refetch", "drop", "restore"}

\* One request.  Until it is answered nothing of it has left; what is on its way to the
\* cloud found a configuration that lets it go; only a response with a body has a
\* background task; what waits in the queue will be taken once more.
RequestOf(r) ==
    LET s == req[r] IN
    /\ s.pc \in Early \cup Middle \cup Outward
          => s.answer = "none" /\ ~Sent(r) /\ r \notin unwritten /\ r \notin lost
    /\ s.pc \in Outward => s.config # "disable"
    /\ s.pc \in After => s.answer \in {"edge", "cloud"}
    /\ accepted[r] <= 2 /\ (r \in queue => accepted[r] <= 1)
    /\ r \notin lost => accepted[r] <= 1 /\ (r \in queue => accepted[r] = 0)
    /\ s.config = "disable" => ~Sent(r)
    /\ s.answer # "AssertionError"
    /\ s.answer \in {"cloud", "cloud error"} \/ (s.answer = "edge" /\ ~s.done)
          => Sent(r) \/ r \in unwritten
RequestInv == \A r \in Requests : RequestOf(r)

\* A request that has had metadata, and one whose refresh has put the entry aside.
Had(r) == req[r].pc \notin {"new", "lookup", "fetch"} /\ req[r].answer # "metadata error"
Tasks == {"suspend", "again", "refetch", "drop", "restore"}
Holders == {"again", "refetch", "restore"}

\* The cache of the worker of q, unless refreshes overlapped there: one refresh at most,
\* which finds what its step counts on; and what q has had is cached or put aside.
CacheOf(q) ==
    LET w == req[q].w IN
    w \notin raced =>
        /\ \A s \in Requests : req[s].w = w /\ {req[q].pc, req[s].pc} \subseteq Tasks => s = q
        /\ req[q].pc \in {"suspend", "drop"} => entry[w].held
        /\ req[q].pc \in Holders => suspended[w]
        /\ Had(q) => entry[w].held \/ \E s \in Requests : req[s].w = w /\ req[s].pc \in Holders
CacheInv == \A q \in Requests : CacheOf(q)

\* A query that was escalated behind its edge answer.
Background(r) == req[r].answer = "edge" /\ ~req[r].done

\* The background escalations of a worker are not later than the one it remembers.
LastInv ==
    /\ now >= 1
    /\ \A w \in Workers : escalated[w] <= now
    /\ \A r \in Requests : Background(r) => req[r].at >= 1 /\ req[r].at <= escalated[req[r].w]

\* A server that was ready when it was last asked answers, or has gone down since; so
\* too for a request that is about to run inference.
ReadyInv ==
    /\ \A w \in Workers, k \in Pods :
          /\ ready[w][k].since <= now
          /\ ready[w][k].since # 0 /\ ready[w][k].ok => pods[k] \/ downAt[k] >= ready[w][k].since
    /\ \A r \in Requests :
          req[r].pc = "infer" =>
             /\ req[r].at <= now
             /\ \A k \in Pods : pods[k] \/ downAt[k] + ReadyTtl > req[r].at

-----------------------------------------------------------------------------
(* Types. *)

\* The record of a request is replaced by another.
LEMMA TypedMove ==
    ASSUME req \in [Requests -> RequestStates], NEW r \in Requests, NEW s \in RequestStates,
           Becomes(r, s)
    PROVE  /\ req' \in [Requests -> RequestStates]
           /\ req'[r] = s
           /\ \A q \in Requests \ {r} : req'[q] = req[q]
BY DEF Becomes

\* What the steps of a handler assign to the record of its request is of its type.
LEMMA TypedRecords ==
    ASSUME NEW s \in RequestStates, NEW n \in Nat
    PROVE  /\ \A p \in PCs : [s EXCEPT !.pc = p] \in RequestStates
           /\ \A p \in PCs, a \in Answers : [s EXCEPT !.pc = p, !.answer = a] \in RequestStates
           /\ \A p \in PCs, a \in Answers, d \in BOOLEAN :
                 [s EXCEPT !.pc = p, !.answer = a, !.done = d, !.at = IF d THEN 0 ELSE n] \in RequestStates
           /\ \A p \in PCs : [s EXCEPT !.pc = p, !.at = n] \in RequestStates
           /\ \A p \in PCs, d \in BOOLEAN : [s EXCEPT !.pc = p, !.sure = d] \in RequestStates
           /\ \A c \in Configs : [s EXCEPT !.config = c] \in RequestStates
           /\ \A p \in PCs, w \in Workers, h \in HumanReviews, d \in BOOLEAN :
                 [s EXCEPT !.pc = p, !.w = w, !.human = h, !.async = d] \in RequestStates
BY DEF RequestStates

\* The constants in use are of their types.
LEMMA Names ==
    /\ PCs = Early \cup Middle \cup Outward \cup After \cup {"end"}
    /\ "primary" \in Pods
    /\ {"iqs", "escalations", "below_threshold_iqs", "audits"} \subseteq Activities
BY DEF PCs, Early, Middle, Outward, After, Pods, Activities

\* Counters only grow by what is recorded.
LEMMA TypedTally ==
    ASSUME tally \in [Activities -> Nat], NEW S, Records(Tally(S))
    PROVE  /\ tally' \in [Activities -> Nat]
           /\ tally'["escalations"] = tally["escalations"] + IF "escalations" \in S THEN 1 ELSE 0
BY DEF Records, Tally, Activities

\* An event is counted.
LEMMA TypedCount ==
    ASSUME count \in [Events -> Nat], NEW x \in Events, Occurs(x)
    PROVE  count' \in [Events -> Nat]
BY DEF Occurs

\* The steps of the metadata cache keep the types.
LEMMA MetadataTypes ==
    ASSUME TypeOK, NEW r \in Requests, MetadataStep(r)
    PROVE  TypeOK'
<1> USE DEF TypeOK
<1> DEFINE s == req[r]
<1>1. s \in RequestStates /\ s.w \in Workers /\ now \in Nat /\ req \in [Requests -> RequestStates]
  BY DEF RequestStates
<1>2. \A p \in PCs : [s EXCEPT !.pc = p] \in RequestStates
  BY <1>1, TypedRecords
<1>3. \A a \in Answers : [s EXCEPT !.pc = "end", !.answer = a] \in RequestStates
  BY <1>1, TypedRecords DEF PCs
<1>4. \A p \in PCs : Goto(r, p) => req' \in [Requests -> RequestStates]
  BY <1>1, <1>2, TypedMove DEF Goto
<1>5. \A a \in Answers : Fail(r, a) => req' \in [Requests -> RequestStates]
  BY <1>1, <1>3, TypedMove DEF Fail
<1>6. Fetched(s.w) => entry' \in [Workers -> [held : BOOLEAN, since : Nat]]
  BY <1>1 DEF Fetched
<1> USE DEF outsideMetadata, metadataVars, inferenceVars, cloudVars, queueVars
<1>7. CASE LookUpMetadata(r)
  BY <1>4, <1>7 DEF LookUpMetadata, RequestStates, PCs
<1>8. CASE FetchMetadata(r)
  BY <1>4, <1>5, <1>6, <1>8 DEF FetchMetadata, RequestStates, PCs, Answers
<1>9. CASE CheckAge(r)
  BY <1>1, <1>4, <1>9 DEF CheckAge, RequestStates, PCs
<1>10. CASE Suspend(r)
  <2>1. req' \in [Requests -> RequestStates]
    BY <1>4, <1>10 DEF Suspend, PCs
  <2>2. NoEntry \in [held : BOOLEAN, since : Nat]
    BY DEF NoEntry
  <2>3. entry' = entry \/ entry' = [entry EXCEPT ![s.w] = NoEntry]
    BY <1>10 DEF Suspend
  <2>4. suspended' = suspended \/ suspended' = [suspended EXCEPT ![s.w] = TRUE]
    BY <1>10 DEF Suspend
  <2>5. entry' \in [Workers -> [held : BOOLEAN, since : Nat]]
    BY <1>1, <2>2, <2>3
  <2>6. suspended' \in [Workers -> BOOLEAN]
    BY <1>1, <2>4
  <2> QED BY <1>10, <2>1, <2>5, <2>6 DEF Suspend, RequestStates
<1>11. CASE LookUpAgain(r)
  BY <1>4, <1>11 DEF LookUpAgain, RequestStates, PCs
<1>12. CASE Refetch(r)
  BY <1>4, <1>6, <1>12 DEF Refetch, RequestStates, PCs
<1>13. CASE DropSuspended(r)
  BY <1>4, <1>13 DEF DropSuspended, RequestStates, PCs
<1>14. CASE Restore(r)
  BY <1>4, <1>6, <1>14 DEF Restore, RequestStates, PCs
<1> QED BY <1>7, <1>8, <1>9, <1>10, <1>11, <1>12, <1>13, <1>14 DEF MetadataStep

\* The steps from routing to the choice of an answer keep the types.
LEMMA RoutingTypes ==
    ASSUME TypeOK, NEW r \in Requests,
           Route(r) \/ CheckAvailable(r) \/ Infer(r) \/ NoInference(r)
    PROVE  TypeOK'
<1> USE DEF TypeOK
<1> DEFINE s == req[r]
           c == [s EXCEPT !.config = config]
<1>1. s \in RequestStates /\ s.w \in Workers /\ now \in Nat /\ req \in [Requests -> RequestStates]
  BY DEF RequestStates
<1>2. c \in RequestStates
  BY <1>1, TypedRecords
<1>3. \A p \in PCs : Goto(r, p) => req' \in [Requests -> RequestStates]
  <2>1. \A p \in PCs : [s EXCEPT !.pc = p] \in RequestStates
    BY <1>1, TypedRecords
  <2> QED BY <1>1, <2>1, TypedMove DEF Goto
<1>4. \A a \in Answers : Fail(r, a) => req' \in [Requests -> RequestStates]
  <2>1. \A a \in Answers : [s EXCEPT !.pc = "end", !.answer = a] \in RequestStates
    BY <1>1, TypedRecords DEF PCs
  <2> QED BY <1>1, <2>1, TypedMove DEF Fail
<1>5. \A S : Records(Tally(S)) => tally' \in [Activities -> Nat]
  BY TypedTally
<1> USE DEF outsideRouting, metadataVars, inferenceVars, cloudVars, queueVars
<1>6. CASE Route(r)
  <2>1. \A p \in PCs : [c EXCEPT !.pc = p] \in RequestStates
    BY <1>2, TypedRecords
  <2>2. [c EXCEPT !.pc = "end", !.answer = "400"] \in RequestStates
    BY <1>2, TypedRecords DEF PCs, Answers
  <2> HIDE DEF c
  <2>3. \/ Becomes(r, [c EXCEPT !.pc = "end", !.answer = "400"])
        \/ \E p \in PCs : Becomes(r, [c EXCEPT !.pc = p])
    BY <1>6 DEF Route, PCs, c
  <2>4. req' \in [Requests -> RequestStates]
    BY <1>1, <2>1, <2>2, <2>3, TypedMove
  <2>5. tally' \in [Activities -> Nat]
    BY <1>5, <1>6 DEF Route
  <2> QED BY <1>6, <2>4, <2>5 DEF Route, RequestStates
<1>7. CASE CheckAvailable(r)
  <2>1. \A p \in PCs : [s EXCEPT !.pc = p, !.at = now] \in RequestStates
    BY <1>1, TypedRecords
  <2>2. \E p \in PCs : Becomes(r, [s EXCEPT !.pc = p, !.at = now])
    BY <1>7 DEF CheckAvailable, PCs
  <2>3. req' \in [Requests -> RequestStates]
    BY <1>1, <2>1, <2>2, TypedMove
  <2>4. ready' \in [Workers -> [Pods -> [ok : BOOLEAN, since : Nat]]]
    BY <1>1, <1>7 DEF CheckAvailable
  <2> QED BY <1>7, <2>3, <2>4 DEF CheckAvailable, RequestStates
<1>8. CASE Infer(r)
  <2>1. \A d \in BOOLEAN : [s EXCEPT !.pc = "edge", !.sure = d] \in RequestStates
    BY <1>1, TypedRecords DEF PCs
  <2>2. req' \in [Requests -> RequestStates]
    BY <1>1, <1>4, <1>8, <2>1, TypedMove DEF Infer, Answers
  <2>3. tally' \in [Activities -> Nat]
    BY <1>5, <1>8 DEF Infer
  <2> QED BY <1>8, <2>2, <2>3 DEF Infer, RequestStates
<1>9. CASE NoInference(r)
  BY <1>3, <1>4, <1>9 DEF NoInference, RequestStates, PCs, Answers
<1> QED BY <1>6, <1>7, <1>8, <1>9

\* The steps that answer or send keep the types.
LEMMA SendingTypes ==
    ASSUME TypeOK, NEW r \in Requests,
           AnswerFromEdge(r) \/ EscalateUnsure(r) \/ FallBack(r) \/ Submit(r)
    PROVE  TypeOK'
<1> USE DEF TypeOK
<1> DEFINE s == req[r]
<1>1. s \in RequestStates /\ s.w \in Workers /\ now \in Nat /\ req \in [Requests -> RequestStates]
  BY DEF RequestStates
<1>2. \A p \in PCs : Goto(r, p) => req' \in [Requests -> RequestStates]
  <2>1. \A p \in PCs : [s EXCEPT !.pc = p] \in RequestStates
    BY <1>1, TypedRecords
  <2> QED BY <1>1, <2>1, TypedMove DEF Goto
<1>3. \A a \in Answers : Fail(r, a) => req' \in [Requests -> RequestStates]
  <2>1. \A a \in Answers : [s EXCEPT !.pc = "end", !.answer = a] \in RequestStates
    BY <1>1, TypedRecords DEF PCs
  <2> QED BY <1>1, <2>1, TypedMove DEF Fail
<1>4. \A a \in Answers, d \in BOOLEAN : Answer(r, a, d) => req' \in [Requests -> RequestStates]
  <2>1. \A a \in Answers, d \in BOOLEAN :
           [s EXCEPT !.pc = "refresh", !.answer = a, !.done = d, !.at = IF d THEN 0 ELSE now] \in RequestStates
    BY <1>1, TypedRecords DEF PCs
  <2> QED BY <1>1, <2>1, TypedMove DEF Answer
<1>5. \A S : Records(Tally(S)) => tally' \in [Activities -> Nat]
  BY TypedTally
<1>6. \A x \in Events : Occurs(x) => count' \in [Events -> Nat]
  BY TypedCount
<1>7. WriteToQueue(r) => {queue', unwritten'} \subseteq SUBSET Requests /\ count' \in [Events -> Nat]
  BY <1>6 DEF WriteToQueue, Events
<1> USE DEF outsideRouting, metadataVars, inferenceVars, cloudVars, queueVars
<1>8. CASE AnswerFromEdge(r)
  <2>1. req' \in [Requests -> RequestStates]
    BY <1>4, <1>8 DEF AnswerFromEdge, Answers
  <2>2. tally' \in [Activities -> Nat] /\ {queue', unwritten'} \subseteq SUBSET Requests /\ count' \in [Events -> Nat]
    BY <1>5, <1>7, <1>8 DEF AnswerFromEdge
  <2>3. escalated' \in [Workers -> Nat]
    BY <1>1, <1>8 DEF AnswerFromEdge
  <2> QED BY <1>8, <2>1, <2>2, <2>3 DEF AnswerFromEdge, RequestStates
<1>9. CASE EscalateUnsure(r)
  BY <1>2, <1>9 DEF EscalateUnsure, RequestStates, PCs
<1>10. CASE FallBack(r)
  <2>1. req' \in [Requests -> RequestStates]
    BY <1>2, <1>3, <1>10 DEF FallBack, PCs, Answers
  <2>2. tally' \in [Activities -> Nat]
    BY <1>5, <1>10 DEF FallBack
  <2> QED BY <1>10, <2>1, <2>2 DEF FallBack, RequestStates
<1>11. CASE Submit(r)
  <2>1. req' \in [Requests -> RequestStates]
    BY <1>3, <1>4, <1>11 DEF Submit, Answers
  <2>2. {queue', unwritten', lost'} \subseteq SUBSET Requests /\ count' \in [Events -> Nat]
    BY <1>6, <1>7, <1>11 DEF Submit, Events
  <2>3. accepted' = accepted \/ accepted' = [accepted EXCEPT ![r] = accepted[r] + 1]
    BY <1>11 DEF Submit
  <2>4. accepted' \in [Requests -> Nat]
    <3>1. accepted \in [Requests -> Nat]
      OBVIOUS
    <3> HIDE DEF TypeOK
    <3> QED BY <2>3, <3>1
  <2> QED BY <1>11, <2>1, <2>2, <2>4 DEF Submit, RequestStates
<1> QED BY <1>8, <1>9, <1>10, <1>11

\* The steps around the handler keep the types.
LEMMA WorldTypes ==
    ASSUME TypeOK,
           \/ Tick \/ CloudChanges
           \/ \E c \in Configs : Reconfigure(c)
           \/ \E k \in Pods : PodChanges(k)
           \/ \E r \in Requests : Deliver(r)
    PROVE  TypeOK'
<1> USE DEF TypeOK, outsideWorld, metadataVars
<1>1. \A x \in Events : Occurs(x) => count' \in [Events -> Nat]
  BY TypedCount
<1>2. CASE Tick
  BY <1>2 DEF Tick
<1>3. CASE CloudChanges
  BY <1>1, <1>3 DEF CloudChanges, Events
<1>4. ASSUME NEW c \in Configs, Reconfigure(c) PROVE TypeOK'
  BY <1>1, <1>4 DEF Reconfigure, Events
<1>5. ASSUME NEW k \in Pods, PodChanges(k) PROVE TypeOK'
  <2>1. pods' \in [Pods -> BOOLEAN] /\ downAt' \in [Pods -> Nat]
    BY <1>5 DEF PodChanges
  <2> QED BY <1>1, <1>5, <2>1 DEF PodChanges, Events
<1>6. ASSUME NEW r \in Requests, Deliver(r) PROVE TypeOK'
  <2>1. accepted' \in [Requests -> Nat] /\ queue' \in SUBSET Requests
    BY <1>6 DEF Deliver
  <2> QED BY <1>6, <2>1 DEF Deliver
<1> QED BY <1>2, <1>3, <1>4, <1>5, <1>6

\* An arriving request keeps the types.
LEMMA ArriveTypes ==
    ASSUME TypeOK, NEW r \in Requests, NEW w \in Workers, NEW human \in HumanReviews,
           NEW async \in BOOLEAN, Arrive(r, w, human, async)
    PROVE  TypeOK'
<1>1. req[r] \in RequestStates /\ req \in [Requests -> RequestStates]
  BY DEF TypeOK, RequestStates
<1>2. [req[r] EXCEPT !.pc = "lookup", !.w = w, !.human = human, !.async = async] \in RequestStates
  BY <1>1, TypedRecords DEF PCs
<1>3. req' \in [Requests -> RequestStates]
  BY <1>1, <1>2, TypedMove DEF Arrive
<1> QED BY <1>3 DEF TypeOK, RequestStates, Arrive, outsideRouting, metadataVars, queueVars

\* Every step keeps the types.
LEMMA StepTypes == TypeOK /\ [Next]_vars => TypeOK'
<1> SUFFICES ASSUME TypeOK, [Next]_vars PROVE TypeOK'
  OBVIOUS
<1>1. CASE UNCHANGED vars
  BY <1>1 DEF TypeOK, vars, metadataVars, inferenceVars, cloudVars, queueVars
<1>2. ASSUME NEW r \in Requests, HandlerStep(r) PROVE TypeOK'
  BY <1>2, MetadataTypes, RoutingTypes, SendingTypes DEF HandlerStep
<1> QED BY <1>1, <1>2, ArriveTypes, WorldTypes DEF Next

\* The initial states are of the types.
LEMMA InitTypes == Init => TypeOK
<1> SUFFICES ASSUME Init PROVE TypeOK
  OBVIOUS
<1>1. (CHOOSE w \in Workers : TRUE) \in Workers
  BY QueryAssumption
<1>2. NewRequest \in RequestStates
  BY <1>1 DEF NewRequest, RequestStates, PCs, HumanReviews, Configs, Answers
<1>3. NoEntry \in [held : BOOLEAN, since : Nat]
  BY DEF NoEntry
<1> QED BY <1>2, <1>3 DEF Init, TypeOK, RequestStates

-----------------------------------------------------------------------------
(* What one step changes. *)

\* A step of one request leaves the others alone.
Apart(r) ==
    \A q \in Requests \ {r} :
        /\ req'[q] = req[q]
        /\ accepted'[q] = accepted[q]
        /\ q \in queue' <=> q \in queue
        /\ q \in unwritten' <=> q \in unwritten
        /\ q \in lost' <=> q \in lost

\* Nothing of a request has been sent, or taken from the queue, by this step.
NothingSent == UNCHANGED <<queue, unwritten, lost, accepted>>

\* The worker and the parameters of a request stay.
SameQuery(r) == req'[r].w = req[r].w /\ req'[r].human = req[r].human /\ req'[r].async = req[r].async

\* The record of r becomes s and the others stay; nothing is sent.
LEMMA QuietMove ==
    ASSUME TypeOK, NEW r \in Requests, NEW s, Becomes(r, s)
    PROVE  /\ req'[r] = s
           /\ \A q \in Requests \ {r} : req'[q] = req[q]
           /\ NothingSent => Apart(r)
BY DEF TypeOK, Becomes, NothingSent, Apart

\* The steps of the metadata cache move a request along and send nothing.
LEMMA MetadataMoves ==
    ASSUME TypeOK, NEW r \in Requests, MetadataStep(r)
    PROVE  /\ Apart(r) /\ NothingSent /\ UNCHANGED tally
           /\ \/ /\ req[r].pc \in {"lookup", "fetch"}
                 /\ \/ \E p \in {"route", "fetch"} : req'[r] = [req[r] EXCEPT !.pc = p]
                    \/ req'[r] = [req[r] EXCEPT !.pc = "end", !.answer = "metadata error"]
              \/ /\ req[r].pc \in After
                 /\ \E p \in After \cup {"end"} : req'[r] = [req[r] EXCEPT !.pc = p]
<1> USE DEF outsideMetadata, metadataVars, inferenceVars, cloudVars, queueVars, At, Goto, Fail,
            MetadataStep, LookUpMetadata, FetchMetadata, CheckAge, Suspend, LookUpAgain, Refetch,
            DropSuspended, Restore
<1>1. NothingSent /\ UNCHANGED tally
  BY DEF NothingSent
<1>2. \/ /\ req[r].pc \in {"lookup", "fetch"}
         /\ \/ \E p \in {"route", "fetch"} : Becomes(r, [req[r] EXCEPT !.pc = p])
            \/ Becomes(r, [req[r] EXCEPT !.pc = "end", !.answer = "metadata error"])
      \/ /\ req[r].pc \in After
         /\ \E p \in After \cup {"end"} : Becomes(r, [req[r] EXCEPT !.pc = p])
  BY Zenon DEF After
<1> QED BY <1>1, <1>2, QuietMove

\* The steps from the route to inference send nothing.
LEMMA RoutingMoves ==
    ASSUME TypeOK, NEW r \in Requests,
           Route(r) \/ CheckAvailable(r) \/ Infer(r) \/ NoInference(r)
    PROVE  Apart(r) /\ NothingSent
<1>1. NothingSent
  BY DEF NothingSent, outsideRouting, queueVars, Route, CheckAvailable, Infer, NoInference
<1>2. \E s : Becomes(r, s)
  BY Zenon DEF Route, CheckAvailable, Infer, NoInference, Goto, Fail
<1> QED BY <1>1, <1>2, QuietMove

\* A request that is answered or sent does nothing to another.
LEMMA SendingMoves ==
    ASSUME TypeOK, NEW r \in Requests,
           AnswerFromEdge(r) \/ EscalateUnsure(r) \/ FallBack(r) \/ Submit(r)
    PROVE  Apart(r)
<1>1. \E s : Becomes(r, s)
  BY Zenon DEF AnswerFromEdge, EscalateUnsure, FallBack, Submit, Goto, Fail, Answer
<1>2. \A q \in Requests \ {r} : req'[q] = req[q]
  BY <1>1, QuietMove
<1>3. WriteToQueue(r) => \A q \in Requests \ {r} : (q \in queue' <=> q \in queue) /\ (q \in unwritten' <=> q \in unwritten)
  BY DEF WriteToQueue
<1>4. \A q \in Requests \ {r} : (q \in queue' <=> q \in queue) /\ (q \in unwritten' <=> q \in unwritten)
  BY <1>3 DEF AnswerFromEdge, EscalateUnsure, FallBack, Submit, queueVars
<1>5. accepted' = accepted \/ accepted' = [accepted EXCEPT ![r] = accepted[r] + 1]
  BY DEF AnswerFromEdge, EscalateUnsure, FallBack, Submit
<1>6. lost' = lost \/ lost' = lost \cup {r}
  BY DEF AnswerFromEdge, EscalateUnsure, FallBack, Submit
<1>7. \A q \in Requests \ {r} : accepted'[q] = accepted[q]
  BY <1>5 DEF TypeOK
<1> QED BY <1>2, <1>4, <1>6, <1>7 DEF Apart

\* So no step changes more than one request, and the steps around the handler change
\* none but the one they hand to the cloud.
LEMMA OneMoves ==
    ASSUME TypeOK, NEW r \in Requests
    PROVE  /\ HandlerStep(r) => Apart(r)
           /\ Deliver(r) => Apart(r) /\ req' = req
           /\ \A w \in Workers, human \in HumanReviews, async \in BOOLEAN :
                 Arrive(r, w, human, async) => Apart(r) /\ NothingSent
<1>1. HandlerStep(r) => Apart(r)
  BY MetadataMoves, RoutingMoves, SendingMoves DEF HandlerStep
<1>2. ASSUME Deliver(r) PROVE Apart(r) /\ req' = req
  BY <1>2 DEF TypeOK, Deliver, Apart, outsideWorld
<1>3. ASSUME NEW w \in Workers, NEW human \in HumanReviews, NEW async \in BOOLEAN,
             Arrive(r, w, human, async)
      PROVE  Apart(r) /\ NothingSent
  <2>1. NothingSent
    BY <1>3 DEF NothingSent, Arrive, queueVars
  <2> QED BY <1>3, <2>1, QuietMove DEF Arrive
<1> QED BY <1>1, <1>2, <1>3

-----------------------------------------------------------------------------
(* The invariant of one request. *)

\* It is enough to look at the request that moves.
LEMMA OthersKept ==
    ASSUME RequestInv, NEW r \in Requests, Apart(r), RequestOf(r)'
    PROVE  RequestInv'
<1> SUFFICES ASSUME NEW q \in Requests, q # r PROVE RequestOf(q)'
  BY DEF RequestInv
<1>1. RequestOf(q) /\ req'[q] = req[q] /\ accepted'[q] = accepted[q]
  BY DEF RequestInv, Apart
<1>2. (q \in queue' <=> q \in queue) /\ (q \in unwritten' <=> q \in unwritten) /\ (q \in lost' <=> q \in lost)
  BY DEF Apart
<1> QED BY <1>1, <1>2 DEF RequestOf, Sent

\* The metadata cache: the path of the request and its answer stay what they were, or it
\* ends before anything was sent.
LEMMA MetadataRequest ==
    ASSUME TypeOK, RequestInv, NEW r \in Requests, MetadataStep(r)
    PROVE  RequestInv'
<1>1. req[r] \in RequestStates /\ RequestOf(r)
  BY DEF TypeOK, RequestStates, RequestInv
<1>2. Apart(r) /\ NothingSent
  BY MetadataMoves
<1>3. RequestOf(r)'
  <2>1. CASE req[r].pc \in {"lookup", "fetch"}
    <3>1. req'[r].pc \in {"route", "fetch", "end"} /\ req'[r].config = req[r].config
          /\ req'[r].done = req[r].done
      BY <1>1, <2>1, MetadataMoves DEF After, RequestStates
    <3>2. \/ req'[r].answer = req[r].answer
          \/ req'[r].answer = "metadata error" /\ req'[r].pc = "end"
      BY <1>1, <2>1, MetadataMoves DEF After, RequestStates
    <3> QED BY <1>1, <1>2, <2>1, <3>1, <3>2 DEF RequestOf, Sent, NothingSent, Early, Middle, Outward, After
  <2>2. CASE req[r].pc \in After
    <3>1. /\ req'[r].pc \in After \cup {"end"} /\ req'[r].config = req[r].config
          /\ req'[r].done = req[r].done /\ req'[r].answer = req[r].answer
      BY <1>1, <2>2, MetadataMoves DEF After, RequestStates
    <3> QED BY <1>1, <1>2, <2>2, <3>1 DEF RequestOf, Sent, NothingSent, Early, Middle, Outward, After
  <2> QED BY <2>1, <2>2, MetadataMoves
<1> QED BY <1>2, <1>3, OthersKept

\* From the route to inference: nothing is sent, and with disable_cloud_escalation the
\* way never leads to the cloud.
LEMMA RoutingRequest ==
    ASSUME TypeOK, RequestInv, NEW r \in Requests,
           Route(r) \/ CheckAvailable(r) \/ Infer(r) \/ NoInference(r)
    PROVE  RequestInv'
<1> DEFINE s == req[r]
           t == req'[r]
<1>1. s \in RequestStates /\ RequestOf(r)
  BY DEF TypeOK, RequestStates, RequestInv
<1>2. Apart(r) /\ NothingSent
  BY RoutingMoves
<1>3. s.pc \in {"route", "available", "infer", "missing"}
  BY DEF Route, CheckAvailable, Infer, NoInference, At
<1>4. s.answer = "none" /\ ~Sent(r) /\ r \notin unwritten /\ r \notin lost
  BY <1>1, <1>3 DEF RequestOf, Early, Middle
<1>5. \/ t.pc \in Middle /\ t.answer = "none"
      \/ t.pc \in Outward /\ t.answer = "none" /\ t.config # "disable"
      \/ t.pc = "end" /\ t.answer \in {"400", "500", "503"}
  <2>1. CASE Route(r)
    <3> DEFINE c == [s EXCEPT !.config = config]
    <3>1. c \in RequestStates /\ c.config = config /\ c.answer = "none"
      BY <1>1, <1>4 DEF RequestStates, TypeOK
    <3> HIDE DEF c
    <3>2. \/ Becomes(r, [c EXCEPT !.pc = "end", !.answer = "400"])
          \/ \E p \in Outward : config # "disable" /\ Becomes(r, [c EXCEPT !.pc = p])
          \/ Becomes(r, [c EXCEPT !.pc = "available"])
      BY <2>1 DEF Route, Outward, c, Configs, TypeOK
    <3>3. \/ t = [c EXCEPT !.pc = "end", !.answer = "400"]
          \/ \E p \in Outward : config # "disable" /\ t = [c EXCEPT !.pc = p]
          \/ t = [c EXCEPT !.pc = "available"]
      BY <3>2, QuietMove
    <3> QED BY <3>1, <3>3 DEF RequestStates, Middle, Outward
  <2>2. CASE CheckAvailable(r)
    <3>1. \E p \in {"infer", "missing"} : Becomes(r, [s EXCEPT !.pc = p, !.at = now])
      BY <2>2 DEF CheckAvailable
    <3>2. \E p \in {"infer", "missing"} : t = [s EXCEPT !.pc = p, !.at = now]
      BY <3>1, QuietMove
    <3> QED BY <1>1, <1>4, <3>2 DEF RequestStates, Middle
  <2>3. CASE Infer(r)
    <3>1. \/ \E d \in BOOLEAN : Becomes(r, [s EXCEPT !.pc = "edge", !.sure = d])
          \/ Becomes(r, [s EXCEPT !.pc = "end", !.answer = "500"])
      BY <2>3 DEF Infer, Fail
    <3>2. \/ \E d \in BOOLEAN : t = [s EXCEPT !.pc = "edge", !.sure = d]
          \/ t = [s EXCEPT !.pc = "end", !.answer = "500"]
      BY <3>1, QuietMove
    <3> QED BY <1>1, <1>4, <3>2 DEF RequestStates, Middle
  <2>4. CASE NoInference(r)
    <3>1. \/ s.config = "escalate" /\ Becomes(r, [s EXCEPT !.pc = "cloud"])
          \/ Becomes(r, [s EXCEPT !.pc = "end", !.answer = "503"])
      BY <2>4 DEF NoInference, Goto, Fail
    <3>2. \/ s.config = "escalate" /\ t = [s EXCEPT !.pc = "cloud"]
          \/ t = [s EXCEPT !.pc = "end", !.answer = "503"]
      BY <3>1, QuietMove
    <3> QED BY <1>1, <1>4, <3>2 DEF RequestStates, Outward
  <2> QED BY <2>1, <2>2, <2>3, <2>4
<1>6. RequestOf(r)'
  BY <1>1, <1>2, <1>4, <1>5 DEF RequestOf, Sent, NothingSent, Early, Middle, Outward, After
<1> QED BY <1>2, <1>6, OthersKept

\* What a write to the queue leaves behind: the request waits, or the write failed.
LEMMA Written ==
    ASSUME NEW r \in Requests, WriteToQueue(r)
    PROVE  \/ queue' = queue \cup {r} /\ unwritten' = unwritten
           \/ queue' = queue /\ unwritten' = unwritten \cup {r}
BY DEF WriteToQueue

\* The record of a request that is answered, and of one that fails.
LEMMA Answered ==
    ASSUME TypeOK, NEW r \in Requests, NEW a, NEW d \in BOOLEAN
    PROVE  /\ Answer(r, a, d) =>
                /\ req'[r].pc = "refresh" /\ req'[r].answer = a /\ req'[r].done = d
                /\ req'[r].at = IF d THEN 0 ELSE now
                /\ SameQuery(r) /\ req'[r].config = req[r].config
           /\ Fail(r, a) =>
                /\ req'[r].pc = "end" /\ req'[r].answer = a
                /\ SameQuery(r) /\ req'[r].config = req[r].config
                /\ req'[r].at = req[r].at /\ req'[r].done = req[r].done
<1>1. req[r] \in RequestStates
  BY DEF TypeOK, RequestStates
<1>2. ASSUME Answer(r, a, d)
      PROVE  req'[r] = [req[r] EXCEPT !.pc = "refresh", !.answer = a, !.done = d, !.at = IF d THEN 0 ELSE now]
  BY <1>2, QuietMove DEF Answer
<1>3. ASSUME Fail(r, a) PROVE req'[r] = [req[r] EXCEPT !.pc = "end", !.answer = a]
  BY <1>3, QuietMove DEF Fail
<1> QED BY <1>1, <1>2, <1>3 DEF RequestStates, SameQuery

\* An answer or a submission: what is promised to the client has been sent.
LEMMA SendingRequest ==
    ASSUME TypeOK, RequestInv, NEW r \in Requests,
           AnswerFromEdge(r) \/ EscalateUnsure(r) \/ FallBack(r) \/ Submit(r)
    PROVE  RequestInv'
<1> DEFINE s == req[r]
           t == req'[r]
<1>1. s \in RequestStates /\ RequestOf(r) /\ accepted[r] \in Nat /\ accepted \in [Requests -> Nat]
  BY DEF TypeOK, RequestStates, RequestInv
<1>2. Apart(r)
  BY SendingMoves
<1>3. s.pc \in {"edge", "cloud", "submit"}
  BY DEF AnswerFromEdge, EscalateUnsure, FallBack, Submit, At
<1>4. s.answer = "none" /\ r \notin queue /\ accepted[r] = 0 /\ r \notin unwritten /\ r \notin lost
  <2>1. s.answer = "none" /\ ~Sent(r) /\ r \notin unwritten /\ r \notin lost
    BY <1>1, <1>3 DEF RequestOf, Early, Middle, Outward
  <2> QED BY <1>1, <2>1 DEF Sent
<1>5. CASE AnswerFromEdge(r)
  <2>1. /\ UNCHANGED <<accepted, lost>>
        /\ \/ Answer(r, "edge", TRUE) /\ UNCHANGED <<queue, unwritten>>
           \/ \E d \in BOOLEAN : Answer(r, "edge", d) /\ s.config # "disable" /\ WriteToQueue(r)
    BY <1>5 DEF AnswerFromEdge, queueVars
  <2>2. \A d \in BOOLEAN : Answer(r, "edge", d) =>
            t.pc = "refresh" /\ t.answer = "edge" /\ t.done = d /\ t.config = s.config
    BY Answered
  <2>3. t.pc = "refresh" /\ t.answer = "edge" /\ t.config = s.config /\ accepted'[r] = 0 /\ r \notin lost'
    BY <1>4, <2>1, <2>2
  <2>4. \/ t.done = TRUE /\ r \notin queue' /\ r \notin unwritten'
        \/ s.config # "disable" /\ (r \in queue' \/ (r \notin queue' /\ r \in unwritten'))
    BY <1>4, <2>1, <2>2, Written
  <2>5. RequestOf(r)'
    BY <2>3, <2>4 DEF RequestOf, Sent, Early, Middle, Outward, After
  <2> QED BY <1>2, <2>5, OthersKept
<1>6. CASE EscalateUnsure(r)
  <2>1. NothingSent /\ s.config = "escalate"
    BY <1>6 DEF EscalateUnsure, NothingSent, queueVars
  <2>2. t.pc = "cloud" /\ t.answer = "none" /\ t.config = s.config
    BY <1>1, <1>4, <1>6, QuietMove DEF EscalateUnsure, Goto, RequestStates
  <2>3. RequestOf(r)'
    BY <1>1, <1>4, <2>1, <2>2 DEF RequestOf, Sent, NothingSent, Early, Middle, Outward, After
  <2> QED BY <1>2, <2>3, OthersKept
<1>7. CASE FallBack(r)
  <2>1. NothingSent /\ s.config # "disable"
    BY <1>1, <1>7 DEF FallBack, NothingSent, queueVars, At, RequestOf, Outward
  <2>2. t.pc = "submit" /\ t.answer = "none" /\ t.config = s.config
    BY <1>1, <1>4, <1>7, <2>1, QuietMove DEF FallBack, Goto, RequestStates
  <2>3. RequestOf(r)'
    BY <1>1, <1>4, <2>1, <2>2 DEF RequestOf, Sent, NothingSent, Early, Middle, Outward, After
  <2> QED BY <1>2, <2>3, OthersKept
<1>8. CASE Submit(r)
  <2>1. s.config # "disable"
    BY <1>1, <1>8 DEF Submit, At, RequestOf, Outward
  <2>2. Answer(r, "cloud", FALSE) => t.pc = "refresh" /\ t.answer = "cloud" /\ t.config = s.config
    BY Answered
  <2>3. Fail(r, "cloud error") => t.pc = "end" /\ t.answer = "cloud error" /\ t.config = s.config
    BY Answered
  <2>4. \/ /\ accepted' = [accepted EXCEPT ![r] = accepted[r] + 1]
           /\ Answer(r, "cloud", FALSE)
           /\ UNCHANGED <<lost, queue, unwritten>>
        \/ /\ accepted' = [accepted EXCEPT ![r] = accepted[r] + 1]
           /\ lost' = lost \cup {r} /\ queue' = queue \cup {r} /\ UNCHANGED unwritten
           /\ Fail(r, "cloud error")
        \/ /\ WriteToQueue(r) /\ UNCHANGED <<accepted, lost>>
           /\ Fail(r, "cloud error")
    BY <1>8 DEF Submit, queueVars
  <2>5. accepted' = [accepted EXCEPT ![r] = accepted[r] + 1] => accepted'[r] = 1
    BY <1>1, <1>4
  <2>6. /\ t.pc \in {"refresh", "end"} /\ t.answer \in {"cloud", "cloud error"} /\ t.config # "disable"
        /\ t.pc = "refresh" => t.answer = "cloud"
    BY <2>1, <2>2, <2>3, <2>4
  <2>7. \/ accepted'[r] = 1 /\ r \notin queue'
        \/ accepted'[r] = 1 /\ r \in queue' /\ r \in lost'
        \/ accepted'[r] = 0 /\ r \in queue'
        \/ accepted'[r] = 0 /\ r \notin queue' /\ r \in unwritten'
    BY <1>4, <2>4, <2>5, Written
  <2>8. RequestOf(r)'
    <3>1. t.pc \notin Early \cup Middle \cup Outward /\ (t.pc \in After => t.answer \in {"edge", "cloud"})
      BY <2>6 DEF Early, Middle, Outward, After
    <3>2. /\ Sent(r)' \/ r \in unwritten'
          /\ accepted'[r] <= 2 /\ (r \in queue' => accepted'[r] <= 1)
          /\ r \notin lost' => accepted'[r] <= 1 /\ (r \in queue' => accepted'[r] = 0)
      BY <2>7 DEF Sent
    <3> QED BY <2>6, <3>1, <3>2 DEF RequestOf
  <2> QED BY <1>2, <2>8, OthersKept
<1> QED BY <1>5, <1>6, <1>7, <1>8

\* The invariant of the requests is kept by every step.
LEMMA StepRequest == TypeOK /\ RequestInv /\ [Next]_vars => RequestInv'
<1> SUFFICES ASSUME TypeOK, RequestInv, [Next]_vars PROVE RequestInv'
  OBVIOUS
<1>1. CASE UNCHANGED <<req, queue, unwritten, lost, accepted>>
  BY <1>1 DEF RequestInv, RequestOf, Sent
<1>2. CASE UNCHANGED vars
  BY <1>1, <1>2 DEF vars, cloudVars, queueVars
<1>3. CASE Tick \/ CloudChanges \/ (\E c \in Configs : Reconfigure(c)) \/ (\E k \in Pods : PodChanges(k))
  BY <1>1, <1>3 DEF Tick, CloudChanges, Reconfigure, PodChanges, outsideWorld
<1>4. ASSUME NEW r \in Requests, NEW w \in Workers, NEW human \in HumanReviews, NEW async \in BOOLEAN,
             Arrive(r, w, human, async)
      PROVE  RequestInv'
  <2>1. req[r] \in RequestStates /\ RequestOf(r) /\ req[r].pc = "new"
    BY <1>4 DEF TypeOK, RequestStates, RequestInv, Arrive, At
  <2>2. Apart(r) /\ NothingSent
    BY <1>4, OneMoves
  <2>3. req'[r] = [req[r] EXCEPT !.pc = "lookup", !.w = w, !.human = human, !.async = async]
    BY <1>4, QuietMove DEF Arrive
  <2>4. RequestOf(r)'
    BY <2>1, <2>2, <2>3 DEF RequestOf, RequestStates, NothingSent, Sent, Early, Middle, Outward, After
  <2> QED BY <2>2, <2>4, OthersKept
<1>5. ASSUME NEW r \in Requests, Deliver(r) PROVE RequestInv'
  <2>1. Apart(r) /\ req' = req /\ RequestOf(r) /\ accepted[r] \in Nat
    BY <1>5, OneMoves DEF RequestInv, TypeOK
  <2>2. /\ r \in queue /\ r \notin queue' /\ accepted'[r] = accepted[r] + 1
        /\ UNCHANGED <<unwritten, lost>>
    BY <1>5 DEF Deliver, TypeOK, outsideWorld
  <2>3. /\ req[r].config # "disable" /\ req[r].pc \notin Early \cup Middle \cup Outward
        /\ accepted[r] <= 1 /\ (r \notin lost => accepted[r] = 0)
    BY <2>1, <2>2 DEF RequestOf, Sent
  <2>4. Sent(r)' /\ accepted'[r] <= 2 /\ (r \notin lost' => accepted'[r] <= 1)
    BY <2>1, <2>2, <2>3 DEF Sent
  <2>5. RequestOf(r)'
    BY <2>1, <2>2, <2>3, <2>4 DEF RequestOf
  <2> QED BY <2>1, <2>5, OthersKept
<1>6. ASSUME NEW r \in Requests, HandlerStep(r) PROVE RequestInv'
  BY <1>6, MetadataRequest, RoutingRequest, SendingRequest DEF HandlerStep
<1> QED BY <1>2, <1>3, <1>4, <1>5, <1>6 DEF Next

\* Initially no request has been answered and none has been sent.
LEMMA InitRequest == Init => RequestInv
<1> SUFFICES ASSUME Init, NEW r \in Requests PROVE RequestOf(r)
  BY DEF RequestInv
<1>1. /\ req[r].pc = "new" /\ req[r].answer = "none" /\ req[r].config = "escalate"
      /\ accepted[r] = 0 /\ queue = {} /\ unwritten = {} /\ lost = {}
  BY DEF Init, NewRequest
<1> QED BY <1>1 DEF RequestOf, Sent, Early, Middle, Outward, After

\* In every reachable state of the handlers and their background tasks the types hold, and
\* of each request: nothing has left before it is answered, only a configuration that
\* allows it leads to the cloud, and what the client was told is true.
THEOREM RequestsInductive == Spec => [](TypeOK /\ RequestInv)
<1>1. TypeOK /\ RequestInv /\ [Next]_vars => (TypeOK /\ RequestInv)'
  BY StepTypes, StepRequest
<1> QED BY <1>1, InitTypes, InitRequest, PTL DEF Spec

\* A query that found disable_cloud_escalation is sent nowhere on any path of
\* post_image_query, and the assertion before the cloud is never reached.
THEOREM DisabledStaysLocal == Spec => []NothingSentWhenDisabled
<1>1. RequestInv => NothingSentWhenDisabled
  BY DEF RequestInv, RequestOf, NothingSentWhenDisabled
<1> QED BY <1>1, RequestsInductive, PTL

\* Whatever a client was told is not done is with the cloud, waits in the queue, or is one
\* whose write to the queue failed.
THEOREM PromisedIsSent == Spec => []UndoneIsSent
<1>1. RequestInv => UndoneIsSent
  BY DEF RequestInv, RequestOf, UndoneIsSent
<1> QED BY <1>1, RequestsInductive, PTL

\* The direct submission and the queue together hand a query to the cloud once, or twice
\* when the answer to the first submission was lost.
THEOREM SubmittedOnce == Spec => []TwiceOnlyIfAnswerLost
<1>1. TypeOK /\ RequestInv => TwiceOnlyIfAnswerLost
  BY DEF TypeOK, RequestInv, RequestOf, TwiceOnlyIfAnswerLost
<1> QED BY <1>1, RequestsInductive, PTL

-----------------------------------------------------------------------------
(* The cache of detector metadata. *)

\* A step that leaves the cache alone and neither starts nor moves a refresh.
LEMMA CacheFrame ==
    ASSUME CacheInv, UNCHANGED <<entry, suspended, raced>>,
           \A q \in Requests :
              \/ req'[q].pc = req[q].pc /\ req'[q].w = req[q].w /\ req'[q].answer = req[q].answer
              \/ /\ req[q].pc \notin Tasks /\ req'[q].pc \notin Tasks
                 /\ Had(q)' => Had(q) /\ req'[q].w = req[q].w
    PROVE  CacheInv'
<1> SUFFICES ASSUME NEW q \in Requests, req'[q].w \notin raced PROVE CacheOf(q)'
  BY DEF CacheInv, CacheOf
<1> DEFINE w == req'[q].w
<1>1. CacheOf(q)
  BY DEF CacheInv
<1>2. \A s \in Requests : req'[s].w = w /\ {req'[q].pc, req'[s].pc} \subseteq Tasks => s = q
  BY <1>1 DEF CacheOf
<1>3. (req'[q].pc \in {"suspend", "drop"} => entry[w].held) /\ (req'[q].pc \in Holders => suspended[w])
  BY <1>1 DEF CacheOf, Tasks, Holders
<1>4. ASSUME Had(q)'
      PROVE  entry[w].held \/ \E s \in Requests : req'[s].w = w /\ req'[s].pc \in Holders
  <2>1. Had(q) /\ w = req[q].w
    BY <1>4 DEF Had
  <2>2. entry[w].held \/ \E s \in Requests : req[s].w = w /\ req[s].pc \in Holders
    BY <1>1, <2>1 DEF CacheOf
  <2>3. ASSUME NEW s \in Requests, req[s].w = w, req[s].pc \in Holders
        PROVE  req'[s].w = w /\ req'[s].pc \in Holders
    BY <2>3 DEF Tasks, Holders
  <2> QED BY <2>2, <2>3
<1> QED BY <1>2, <1>3, <1>4 DEF CacheOf

\* What a request of another worker sees of a step of r.
LEMMA CacheElsewhere ==
    ASSUME TypeOK, CacheInv, NEW r \in Requests, NEW q \in Requests, req[q].w # req[r].w, Apart(r),
           req'[r].w = req[r].w,
           entry'[req[q].w] = entry[req[q].w], suspended'[req[q].w] = suspended[req[q].w],
           req[q].w \in raced => req[q].w \in raced'
    PROVE  CacheOf(q)'
<1>1. CacheOf(q) /\ q # r /\ req'[q] = req[q]
  BY DEF CacheInv, Apart
<1>2. \A s \in Requests : req'[s].w = req[q].w => s # r /\ req'[s] = req[s]
  BY DEF Apart
<1>3. \A s \in Requests : req[s].w = req[q].w => s # r /\ req'[s] = req[s]
  BY DEF Apart
<1> QED BY <1>1, <1>2, <1>3 DEF CacheOf, Had

\* A request moves on.
LEMMA Gone ==
    ASSUME TypeOK, NEW r \in Requests, NEW p, Goto(r, p)
    PROVE  /\ req'[r].pc = p
           /\ SameQuery(r) /\ req'[r].config = req[r].config
           /\ req'[r].at = req[r].at /\ req'[r].answer = req[r].answer /\ req'[r].done = req[r].done
<1>1. req[r] \in RequestStates
  BY DEF TypeOK, RequestStates
<1>2. req'[r] = [req[r] EXCEPT !.pc = p]
  BY QuietMove DEF Goto
<1> QED BY <1>1, <1>2 DEF RequestStates, SameQuery

\* The lookup and the fetch of a handler: what the handler goes on with is cached.
LEMMA LookUpCache ==
    ASSUME TypeOK, CacheInv, NEW r \in Requests, LookUpMetadata(r) \/ FetchMetadata(r)
    PROVE  CacheInv'
<1> DEFINE w == req[r].w
<1>1. w \in Workers /\ Apart(r) /\ req[r].pc \in {"lookup", "fetch"} /\ UNCHANGED <<suspended, raced>>
      /\ entry \in [Workers -> [held : BOOLEAN, since : Nat]]
  BY MetadataMoves DEF TypeOK, MetadataStep, LookUpMetadata, FetchMetadata, At, metadataVars
<1>2. \/ entry' = entry
      \/ entry' = [entry EXCEPT ![w] = [held |-> TRUE, since |-> now]]
  BY DEF LookUpMetadata, FetchMetadata, metadataVars, Fetched
<1>3. req'[r].w = w /\ req'[r].pc \in {"route", "fetch", "end"} /\ (Had(r)' => entry'[w].held)
  <2>1. CASE LookUpMetadata(r)
    <3>1. Goto(r, IF entry[w].held THEN "route" ELSE "fetch") /\ entry' = entry
      BY <2>1 DEF LookUpMetadata, metadataVars
    <3> QED BY <3>1, Gone DEF Had, SameQuery
  <2>2. CASE FetchMetadata(r) /\ online
    <3>1. Goto(r, "route") /\ entry' = [entry EXCEPT ![w] = [held |-> TRUE, since |-> now]]
      BY <2>2 DEF FetchMetadata, Fetched
    <3>2. entry'[w].held
      BY <1>1, <3>1
    <3> QED BY <3>1, <3>2, Gone DEF Had, SameQuery
  <2>3. CASE FetchMetadata(r) /\ ~online
    <3>1. Fail(r, "metadata error")
      BY <2>3 DEF FetchMetadata
    <3> QED BY <3>1, Answered DEF Had, SameQuery
  <2> QED BY <2>1, <2>2, <2>3
<1>4. \A v \in Workers : entry[v].held => entry'[v].held
  BY <1>1, <1>2
<1> SUFFICES ASSUME NEW q \in Requests PROVE CacheOf(q)'
  BY DEF CacheInv
<1>5. CacheOf(q) /\ req[q].w \in Workers
  BY DEF CacheInv, TypeOK
<1>6. CASE q = r
  BY <1>1, <1>3, <1>6 DEF CacheOf, Tasks, Holders
<1>7. CASE q # r
  <2>1. req'[q] = req[q] /\ \A s \in Requests : req[s].pc \in Tasks \/ req'[s].pc \in Tasks => req'[s] = req[s]
    BY <1>1, <1>3, <1>7 DEF Apart, Tasks
  <2>2. Holders \subseteq Tasks
    BY DEF Holders, Tasks
  <2> SUFFICES ASSUME req[q].w \notin raced PROVE CacheOf(q)'
    BY <1>1, <2>1 DEF CacheOf
  <2>3. \A s \in Requests : req'[s].w = req[q].w /\ {req'[q].pc, req'[s].pc} \subseteq Tasks => s = q
    BY <1>5, <2>1 DEF CacheOf
  <2>4. Had(q) => entry'[req[q].w].held \/ \E s \in Requests : req'[s].w = req[q].w /\ req'[s].pc \in Holders
    BY <1>4, <1>5, <2>1, <2>2 DEF CacheOf
  <2> QED BY <1>1, <1>4, <1>5, <2>1, <2>3, <2>4 DEF CacheOf, Had
<1> QED BY <1>6, <1>7

\* The steps of a refresh: a worker in which no other refresh runs has its entry until it
\* is put aside, and what was put aside until the entry is back.
LEMMA RefreshCache ==
    ASSUME TypeOK, CacheInv, NEW r \in Requests,
           \/ CheckAge(r) \/ Suspend(r) \/ LookUpAgain(r) \/ Refetch(r)
           \/ DropSuspended(r) \/ Restore(r)
    PROVE  CacheInv'
<1> DEFINE w == req[r].w
<1>1. w \in Workers /\ Apart(r) /\ entry \in [Workers -> [held : BOOLEAN, since : Nat]]
      /\ suspended \in [Workers -> BOOLEAN]
  BY MetadataMoves DEF TypeOK, MetadataStep
<1>2. /\ \/ entry' = entry
         \/ entry' = [entry EXCEPT ![w] = [held |-> TRUE, since |-> now]]
         \/ entry' = [entry EXCEPT ![w] = NoEntry]
      /\ suspended' = suspended \/ \E b \in BOOLEAN : suspended' = [suspended EXCEPT ![w] = b]
      /\ raced \subseteq raced'
  BY DEF CheckAge, Suspend, LookUpAgain, Refetch, DropSuspended, Restore, metadataVars, Fetched
<1>3. req'[r].w = w /\ req'[r].answer = req[r].answer
  <2>1. \E p : Goto(r, p)
    BY Zenon DEF CheckAge, Suspend, LookUpAgain, Refetch, DropSuspended, Restore
  <2> QED BY <2>1, Gone DEF SameQuery
<1> SUFFICES ASSUME NEW q \in Requests PROVE CacheOf(q)'
  BY DEF CacheInv
<1>4. CASE req[q].w # w
  <2>1. entry'[req[q].w] = entry[req[q].w] /\ suspended'[req[q].w] = suspended[req[q].w]
    BY <1>1, <1>2, <1>4 DEF TypeOK
  <2> QED BY <1>1, <1>2, <1>3, <1>4, <2>1, CacheElsewhere
<1>5. ASSUME req[q].w = w, w \notin raced' PROVE CacheOf(q)'
  <2>1. w \notin raced /\ CacheOf(q) /\ CacheOf(r) /\ req'[q].w = w
    BY <1>1, <1>2, <1>3, <1>5 DEF CacheInv, Apart
  <2>2. \A s \in Requests : s # r => req'[s] = req[s]
    BY <1>1 DEF Apart
  <2>3. CASE CheckAge(r)
    <3>1. req[r].pc = "refresh" /\ UNCHANGED <<entry, suspended>>
      BY <2>3 DEF CheckAge, At
    <3>2. \/ req'[r].pc = "end"
          \/ req'[r].pc = "suspend" /\ entry[w].held /\ Refreshing(w) = {}
      BY <1>5, <2>1, <2>3, Gone DEF CheckAge
    <3>3. Had(q)' => Had(q)
      BY <1>3, <2>2, <3>1 DEF Had
    <3>4. \A s \in Requests : req'[s].w = w /\ {req'[q].pc, req'[s].pc} \subseteq Tasks => s = q
      <4>1. Refreshing(w) = {s \in Requests : req[s].w = w /\ req[s].pc \in Tasks}
        BY DEF Refreshing, Tasks
      <4> QED BY <1>3, <1>5, <2>1, <2>2, <3>2, <4>1 DEF CacheOf, Tasks
    <3>5. (req'[q].pc \in {"suspend", "drop"} => entry[w].held) /\ (req'[q].pc \in Holders => suspended[w])
      BY <1>5, <2>1, <2>2, <3>2 DEF CacheOf, Holders
    <3>6. \A s \in Requests : req[s].w = w /\ req[s].pc \in Holders => req'[s] = req[s]
      BY <2>2, <3>1 DEF Holders
    <3> QED BY <1>5, <2>1, <3>1, <3>3, <3>4, <3>5, <3>6 DEF CacheOf
  <2>4. ASSUME req[r].pc \in Tasks PROVE \A s \in Requests : req[s].w = w /\ req[s].pc \in Tasks => s = r
    BY <2>1, <2>4 DEF CacheOf
  <2>6. CASE Suspend(r)
    <3>1. req[r].pc = "suspend" /\ entry[w].held /\ req'[r].pc = "again" /\ suspended'[w] = TRUE
      BY <1>1, <2>1, <2>6, Gone DEF CacheOf, Suspend, At
    <3> QED BY <1>3, <1>5, <2>1, <2>4, <2>2, <3>1 DEF CacheOf, Tasks, Holders, Had
  <2>7. CASE LookUpAgain(r)
    <3>1. req[r].pc = "again" /\ UNCHANGED <<entry, suspended>> /\ suspended[w]
      BY <2>1, <2>7 DEF CacheOf, LookUpAgain, At, metadataVars, Holders
    <3>2. IF entry[w].held THEN req'[r].pc = "drop" ELSE req'[r].pc = "refetch"
      BY <2>7, Gone DEF LookUpAgain
    <3> QED BY <1>3, <1>5, <2>1, <2>4, <2>2, <3>1, <3>2 DEF CacheOf, Tasks, Holders, Had
  <2>8. CASE Refetch(r)
    <3>1. req[r].pc = "refetch" /\ suspended' = suspended /\ suspended[w]
      BY <2>1, <2>8 DEF CacheOf, Refetch, At, Holders
    <3>2. \/ req'[r].pc = "drop" /\ entry'[w].held
          \/ req'[r].pc = "restore" /\ entry' = entry
      BY <1>1, <2>8, Gone DEF Refetch, Fetched
    <3> QED BY <1>3, <1>5, <2>1, <2>4, <2>2, <3>1, <3>2 DEF CacheOf, Tasks, Holders, Had
  <2>9. CASE DropSuspended(r)
    <3>1. req[r].pc = "drop" /\ entry' = entry /\ entry[w].held /\ req'[r].pc = "end"
      BY <2>1, <2>9, Gone DEF CacheOf, DropSuspended, At
    <3> QED BY <1>3, <1>5, <2>1, <2>4, <2>2, <3>1 DEF CacheOf, Tasks, Holders, Had
  <2>10. CASE Restore(r)
    <3>1. req[r].pc = "restore" /\ entry'[w].held /\ req'[r].pc = "end"
      BY <1>1, <2>1, <2>10, Gone DEF CacheOf, Restore, At, Holders, Fetched
    <3> QED BY <1>3, <1>5, <2>1, <2>4, <2>2, <3>1 DEF CacheOf, Tasks, Holders, Had
  <2> QED BY <2>3, <2>6, <2>7, <2>8, <2>9, <2>10
<1>6. CASE req[q].w = w /\ w \in raced'
  BY <1>1, <1>3, <1>6 DEF CacheOf, Apart
<1> QED BY <1>4, <1>5, <1>6

\* A query is escalated behind its edge answer.
Escalating(r) ==
    /\ CooldownComplete(req[r].w)
    /\ escalated' = [escalated EXCEPT ![req[r].w] = now]
    /\ req'[r].at = now

\* What becomes of a request past its lookup, and by how much the step counts it.
Outcome(r, e) ==
    LET s == req[r]
        t == req'[r]
    IN
    \/ s.pc = "route" /\ t.pc = "available" /\ t.answer = "none" /\ s.human # "ALWAYS" /\ e = 0
    \/ s.pc = "route" /\ t.pc = "submit" /\ t.answer = "none" /\ s.async /\ e = 1
    \/ s.pc = "route" /\ t.pc = "cloud" /\ t.answer = "none" /\ s.human = "ALWAYS" /\ ~s.async /\ e = 1
    \/ s.pc \in Middle /\ t.pc \in Middle \cup {"cloud"} /\ t.answer = "none" /\ e = 0
    \/ s.pc \in {"route"} \cup Middle /\ t.pc = "end" /\ t.answer \in {"400", "500", "503"} /\ e = 0
    \/ s.pc \in Middle /\ t.pc = "refresh" /\ t.answer = "edge" /\ t.done /\ e = 0
    \/ s.pc \in Middle /\ t.pc = "refresh" /\ t.answer = "edge" /\ ~t.done /\ Escalating(r) /\ e = 1
    \/ s.pc = "cloud" /\ t.pc = "submit" /\ t.answer = "none" /\ e = 1
    \/ s.pc = "submit" /\ t.pc \in {"refresh", "end"} /\ t.answer \in {"cloud", "cloud error"} /\ e = 0

\* Every step of the handler past its lookup has such an outcome.
LEMMA Outcomes ==
    ASSUME TypeOK, RequestInv, NEW r \in Requests,
           \/ Route(r) \/ CheckAvailable(r) \/ Infer(r) \/ NoInference(r)
           \/ AnswerFromEdge(r) \/ EscalateUnsure(r) \/ FallBack(r) \/ Submit(r)
    PROVE  /\ SameQuery(r) /\ now' = now /\ (escalated' = escalated \/ Escalating(r))
           /\ \E e \in {0, 1} : Outcome(r, e) /\ tally'["escalations"] = tally["escalations"] + e
<1> DEFINE s == req[r]
           t == req'[r]
           Grown(e) == tally'["escalations"] = tally["escalations"] + e
<1>1. s \in RequestStates /\ tally["escalations"] \in Nat
  BY DEF TypeOK, RequestStates, Activities
<1>2. s.pc \in {"route", "available", "infer", "missing", "edge", "cloud", "submit"}
  BY DEF Route, CheckAvailable, Infer, NoInference, AnswerFromEdge, EscalateUnsure, FallBack, Submit, At
<1>3. s.answer = "none"
  BY <1>2 DEF RequestInv, RequestOf, Early, Middle, Outward
<1>4. UNCHANGED tally => Grown(0)
  BY <1>1
<1>5. /\ \A S : "escalations" \in S /\ Records(Tally(S)) => Grown(1)
      /\ \A S : "escalations" \notin S /\ Records(Tally(S)) => Grown(0)
  BY TypedTally DEF TypeOK
<1> HIDE DEF Grown
<1>6. now' = now /\ (~AnswerFromEdge(r) => escalated' = escalated)
  BY DEF Route, CheckAvailable, Infer, NoInference, AnswerFromEdge, EscalateUnsure, FallBack, Submit,
         outsideRouting
<1>7. CASE Route(r)
  <2> DEFINE c == [s EXCEPT !.config = config]
  <2>1. c \in RequestStates /\ c.answer = "none" /\ c.w = s.w /\ c.human = s.human /\ c.async = s.async
    BY <1>1, <1>3 DEF RequestStates, TypeOK
  <2> HIDE DEF c
  <2>2. s.pc = "route" /\
        (\/ Becomes(r, [c EXCEPT !.pc = "end", !.answer = "400"]) /\ Grown(0)
         \/ Becomes(r, [c EXCEPT !.pc = "submit"]) /\ c.async /\ Grown(1)
         \/ Becomes(r, [c EXCEPT !.pc = "cloud"]) /\ c.human = "ALWAYS" /\ ~c.async /\ Grown(1)
         \/ Becomes(r, [c EXCEPT !.pc = "available"]) /\ c.human # "ALWAYS" /\ Grown(0))
    BY <1>4, <1>5, <1>7 DEF Route, At, c
  <2>3. \/ t = [c EXCEPT !.pc = "end", !.answer = "400"] /\ Grown(0)
        \/ t = [c EXCEPT !.pc = "submit"] /\ c.async /\ Grown(1)
        \/ t = [c EXCEPT !.pc = "cloud"] /\ c.human = "ALWAYS" /\ ~c.async /\ Grown(1)
        \/ t = [c EXCEPT !.pc = "available"] /\ c.human # "ALWAYS" /\ Grown(0)
    BY <2>2, QuietMove
  <2>4. SameQuery(r)
    BY <2>1, <2>3 DEF RequestStates, SameQuery
  <2>5. \E e \in {0, 1} : Outcome(r, e) /\ Grown(e)
    <3>1. \/ t.pc = "end" /\ t.answer = "400" /\ Grown(0)
          \/ t.pc = "submit" /\ t.answer = "none" /\ s.async /\ Grown(1)
          \/ t.pc = "cloud" /\ t.answer = "none" /\ s.human = "ALWAYS" /\ ~s.async /\ Grown(1)
          \/ t.pc = "available" /\ t.answer = "none" /\ s.human # "ALWAYS" /\ Grown(0)
      BY <2>1, <2>3 DEF RequestStates
    <3> QED BY <2>2, <3>1 DEF Outcome
  <2> QED BY <1>6, <2>2, <2>4, <2>5 DEF Grown, AnswerFromEdge, At
<1>8. CASE CheckAvailable(r)
  <2>1. s.pc = "available" /\ Grown(0) /\ \E p \in {"infer", "missing"} : Becomes(r, [s EXCEPT !.pc = p, !.at = now])
    BY <1>4, <1>8 DEF CheckAvailable, At
  <2>2. \E p \in {"infer", "missing"} : t = [s EXCEPT !.pc = p, !.at = now]
    BY <2>1, QuietMove
  <2>3. SameQuery(r) /\ t.pc \in {"infer", "missing"} /\ t.answer = "none"
    BY <1>1, <1>3, <2>2 DEF RequestStates, SameQuery
  <2> QED BY <1>6, <2>1, <2>3 DEF Outcome, Grown, Middle, AnswerFromEdge, At
<1>9. CASE Infer(r)
  <2>1. s.pc = "infer" /\ Grown(0)
    BY <1>4, <1>5, <1>9 DEF Infer, At
  <2>2. Fail(r, "500") \/ \E d \in BOOLEAN : t = [s EXCEPT !.pc = "edge", !.sure = d]
    BY <1>9, QuietMove DEF Infer
  <2>3. ASSUME Fail(r, "500") PROVE SameQuery(r) /\ t.pc = "end" /\ t.answer = "500"
    BY <2>3, Answered
  <2>4. ASSUME NEW d \in BOOLEAN, t = [s EXCEPT !.pc = "edge", !.sure = d]
        PROVE  SameQuery(r) /\ t.pc = "edge" /\ t.answer = "none"
    BY <1>1, <1>3, <2>4 DEF RequestStates, SameQuery
  <2> QED BY <1>6, <2>1, <2>2, <2>3, <2>4 DEF Outcome, Grown, Middle, AnswerFromEdge, At
<1>10. CASE NoInference(r) \/ EscalateUnsure(r)
  <2>1. s.pc \in {"missing", "edge"} /\ Grown(0)
    BY <1>4, <1>10 DEF NoInference, EscalateUnsure, At
  <2>2. Goto(r, "cloud") \/ Fail(r, "503")
    BY <1>10 DEF NoInference, EscalateUnsure
  <2>3. ASSUME Goto(r, "cloud") PROVE SameQuery(r) /\ t.pc = "cloud" /\ t.answer = "none"
    BY <1>3, <2>3, Gone
  <2>4. ASSUME Fail(r, "503") PROVE SameQuery(r) /\ t.pc = "end" /\ t.answer = "503"
    BY <2>4, Answered
  <2>5. escalated' = escalated
    BY <1>10 DEF NoInference, EscalateUnsure
  <2> QED BY <1>6, <2>1, <2>2, <2>3, <2>4, <2>5 DEF Outcome, Grown, Middle
<1>11. CASE AnswerFromEdge(r)
  <2>1. /\ s.pc = "edge"
        /\ \/ Answer(r, "edge", TRUE) /\ Grown(0) /\ escalated' = escalated
           \/ /\ Answer(r, "edge", FALSE) /\ Grown(1) /\ CooldownComplete(s.w)
              /\ escalated' = [escalated EXCEPT ![s.w] = now]
    BY <1>4, <1>5, <1>11 DEF AnswerFromEdge, At
  <2>2. ASSUME NEW d \in BOOLEAN, Answer(r, "edge", d)
        PROVE  SameQuery(r) /\ t.pc = "refresh" /\ t.answer = "edge" /\ t.done = d /\ (~d => t.at = now)
    BY <2>2, Answered
  <2> QED BY <1>6, <2>1, <2>2 DEF Outcome, Grown, Middle, Escalating
<1>12. CASE FallBack(r)
  <2>1. s.pc = "cloud" /\ s.config # "disable"
    BY <1>12 DEF FallBack, At, RequestInv, RequestOf, Outward
  <2>2. Goto(r, "submit") /\ Grown(1)
    BY <1>5, <1>12, <2>1 DEF FallBack
  <2>3. SameQuery(r) /\ t.pc = "submit" /\ t.answer = "none"
    BY <1>3, <2>2, Gone
  <2> QED BY <1>6, <2>1, <2>2, <2>3 DEF Outcome, Grown, AnswerFromEdge, At
<1>13. CASE Submit(r)
  <2>1. s.pc = "submit" /\ Grown(0) /\ (Answer(r, "cloud", FALSE) \/ Fail(r, "cloud error"))
    BY <1>4, <1>13 DEF Submit, At
  <2>2. SameQuery(r) /\ t.pc \in {"refresh", "end"} /\ t.answer \in {"cloud", "cloud error"}
    BY <2>1, Answered
  <2> QED BY <1>6, <2>1, <2>2 DEF Outcome, Grown, AnswerFromEdge, At
<1> QED BY <1>7, <1>8, <1>9, <1>10, <1>11, <1>12, <1>13

\* The handler past its lookup, and what surrounds it, leave the cache alone.
LEMMA HandlerCache ==
    ASSUME TypeOK, RequestInv, CacheInv, NEW r \in Requests,
           \/ Route(r) \/ CheckAvailable(r) \/ Infer(r) \/ NoInference(r)
           \/ AnswerFromEdge(r) \/ EscalateUnsure(r) \/ FallBack(r) \/ Submit(r)
    PROVE  CacheInv'
<1> DEFINE s == req[r]
<1>1. s \in RequestStates
  BY DEF TypeOK, RequestStates
<1>2. UNCHANGED <<entry, suspended, raced>>
  BY DEF Route, CheckAvailable, Infer, NoInference, AnswerFromEdge, EscalateUnsure, FallBack, Submit,
         outsideRouting, metadataVars
<1>3. Apart(r)
  BY RoutingMoves, SendingMoves
<1>4. s.pc \in {"route", "available", "infer", "missing", "edge", "cloud", "submit"}
  BY DEF Route, CheckAvailable, Infer, NoInference, AnswerFromEdge, EscalateUnsure, FallBack, Submit, At
<1>5. s.answer = "none"
  BY <1>4 DEF RequestInv, RequestOf, Early, Middle, Outward
<1>6. req'[r].w = s.w /\ req'[r].pc \in Middle \cup Outward \cup {"refresh", "end"}
  <2>1. SameQuery(r) /\ \E e \in {0, 1} : Outcome(r, e)
    BY Outcomes
  <2> QED BY <2>1 DEF Outcome, Middle, Outward, SameQuery
<1>7. ASSUME NEW q \in Requests
      PROVE  \/ req'[q].pc = req[q].pc /\ req'[q].w = req[q].w /\ req'[q].answer = req[q].answer
             \/ /\ req[q].pc \notin Tasks /\ req'[q].pc \notin Tasks
                /\ Had(q)' => Had(q) /\ req'[q].w = req[q].w
  BY <1>3, <1>4, <1>5, <1>6 DEF Apart, Had, Tasks, Middle, Outward
<1> QED BY <1>2, <1>7, CacheFrame

\* The cache invariant is kept by every step.
LEMMA StepCache == TypeOK /\ RequestInv /\ CacheInv /\ [Next]_vars => CacheInv'
<1> SUFFICES ASSUME TypeOK, RequestInv, CacheInv, [Next]_vars PROVE CacheInv'
  OBVIOUS
<1>1. CASE UNCHANGED <<req, entry, suspended, raced>>
  BY <1>1 DEF CacheInv, CacheOf, Had
<1>2. CASE UNCHANGED vars
  BY <1>1, <1>2 DEF vars, metadataVars
<1>3. CASE \/ Tick \/ CloudChanges \/ (\E c \in Configs : Reconfigure(c)) \/ (\E k \in Pods : PodChanges(k))
           \/ (\E r \in Requests : Deliver(r))
  BY <1>1, <1>3 DEF Tick, CloudChanges, Reconfigure, PodChanges, Deliver, outsideWorld, metadataVars
<1>4. ASSUME NEW r \in Requests, NEW w \in Workers, NEW human \in HumanReviews, NEW async \in BOOLEAN,
             Arrive(r, w, human, async)
      PROVE  CacheInv'
  <2>1. UNCHANGED <<entry, suspended, raced>> /\ Apart(r) /\ req[r] \in RequestStates /\ req[r].pc = "new"
    BY <1>4, OneMoves DEF Arrive, outsideRouting, metadataVars, At, TypeOK, RequestStates
  <2>2. req'[r] = [req[r] EXCEPT !.pc = "lookup", !.w = w, !.human = human, !.async = async]
    BY <1>4, QuietMove DEF Arrive
  <2>3. req'[r].pc = "lookup"
    BY <2>1, <2>2 DEF RequestStates
  <2>4. ASSUME NEW q \in Requests
        PROVE  \/ req'[q].pc = req[q].pc /\ req'[q].w = req[q].w /\ req'[q].answer = req[q].answer
               \/ /\ req[q].pc \notin Tasks /\ req'[q].pc \notin Tasks
                  /\ Had(q)' => Had(q) /\ req'[q].w = req[q].w
    BY <2>1, <2>3 DEF Apart, Had, Tasks
  <2> QED BY <2>1, <2>4, CacheFrame
<1>5. ASSUME NEW r \in Requests, HandlerStep(r) PROVE CacheInv'
  BY <1>5, LookUpCache, RefreshCache, HandlerCache DEF HandlerStep, MetadataStep
<1> QED BY <1>2, <1>3, <1>4, <1>5 DEF Next

\* Initially no request has had metadata.
LEMMA InitCache == Init => CacheInv
<1> SUFFICES ASSUME Init, NEW q \in Requests PROVE CacheOf(q)
  BY DEF CacheInv
<1>1. \A s \in Requests : req[s].pc = "new"
  BY DEF Init, NewRequest
<1> QED BY <1>1 DEF CacheOf, Had, Tasks, Holders

\* Metadata that a worker has had stay cached or put aside by a refresh under way, unless
\* two refreshes of one worker overlapped.
THEOREM MetadataNotLost == Spec => []MetadataKept
<1>1. TypeOK /\ RequestInv /\ CacheInv /\ [Next]_vars => (TypeOK /\ RequestInv /\ CacheInv)'
  BY StepTypes, StepRequest, StepCache
<1>2. CacheInv => MetadataKept
  <2> SUFFICES ASSUME CacheInv, NEW r \in Requests, Had(r), req[r].w \notin raced
               PROVE  entry[req[r].w].held \/ (suspended[req[r].w] /\ Refreshing(req[r].w) # {})
    BY DEF MetadataKept, Had
  <2>1. CASE entry[req[r].w].held
    BY <2>1
  <2>2. ASSUME NEW s \in Requests, req[s].w = req[r].w, req[s].pc \in Holders
        PROVE  suspended[req[r].w] /\ Refreshing(req[r].w) # {}
    <3>1. CacheOf(s)
      BY DEF CacheInv
    <3> QED BY <2>2, <3>1 DEF CacheOf, Holders, Refreshing
  <2> QED BY <2>1, <2>2 DEF CacheInv, CacheOf
<1> QED BY <1>1, <1>2, InitTypes, InitRequest, InitCache, PTL DEF Spec

-----------------------------------------------------------------------------
(* The cooldown between the background escalations of a worker. *)

\* A step escalates no query in the background, or one, after the cooldown of its worker.
LEMMA EscalationMoves ==
    ASSUME TypeOK, RequestInv, [Next]_vars
    PROVE  \/ /\ escalated' = escalated /\ now' \in {now, now + 1}
              /\ \A q \in Requests : Background(q)' =>
                    Background(q) /\ req'[q].at = req[q].at /\ req'[q].w = req[q].w
           \/ \E r \in Requests :
                 /\ CooldownComplete(req[r].w) /\ Apart(r) /\ now' = now
                 /\ escalated' = [escalated EXCEPT ![req[r].w] = now]
                 /\ req'[r].at = now /\ req'[r].w = req[r].w
<1> DEFINE Quiet == /\ escalated' = escalated /\ now' \in {now, now + 1}
                    /\ \A q \in Requests : Background(q)' =>
                          Background(q) /\ req'[q].at = req[q].at /\ req'[q].w = req[q].w
           Escalates(r) == /\ CooldownComplete(req[r].w) /\ Apart(r) /\ now' = now
                           /\ escalated' = [escalated EXCEPT ![req[r].w] = now]
                           /\ req'[r].at = now /\ req'[r].w = req[r].w
<1>1. ASSUME NEW r \in Requests, Apart(r), escalated' = escalated, now' = now,
             Background(r)' => Background(r) /\ req'[r].at = req[r].at /\ req'[r].w = req[r].w
      PROVE  Quiet
  BY <1>1 DEF Apart, Background
<1>2. CASE UNCHANGED vars
  BY <1>2 DEF vars, Background
<1>3. CASE \/ Tick \/ CloudChanges \/ (\E c \in Configs : Reconfigure(c)) \/ (\E k \in Pods : PodChanges(k))
           \/ (\E r \in Requests : Deliver(r))
  BY <1>3 DEF Tick, CloudChanges, Reconfigure, PodChanges, Deliver, outsideWorld, Background
<1>4. ASSUME NEW r \in Requests, NEW w \in Workers, NEW human \in HumanReviews, NEW async \in BOOLEAN,
             Arrive(r, w, human, async)
      PROVE  Quiet
  <2>1. Apart(r) /\ req[r] \in RequestStates /\ req[r].pc = "new" /\ escalated' = escalated /\ now' = now
    BY <1>4, OneMoves DEF Arrive, outsideRouting, At, TypeOK, RequestStates
  <2>2. req'[r] = [req[r] EXCEPT !.pc = "lookup", !.w = w, !.human = human, !.async = async]
    BY <1>4, QuietMove DEF Arrive
  <2>3. req'[r].answer = "none"
    BY <2>1, <2>2 DEF RequestStates, RequestInv, RequestOf, Early
  <2> QED BY <1>1, <2>1, <2>3 DEF Background
<1>5. ASSUME NEW r \in Requests, MetadataStep(r) PROVE Quiet
  <2>1. Apart(r) /\ req[r] \in RequestStates
    BY <1>5, MetadataMoves DEF TypeOK, RequestStates
  <2>2. escalated' = escalated /\ now' = now
    BY <1>5 DEF MetadataStep, LookUpMetadata, FetchMetadata, CheckAge, Suspend, LookUpAgain, Refetch,
                DropSuspended, Restore, outsideMetadata
  <2>3. \/ req'[r].answer = "metadata error"
        \/ /\ req'[r].answer = req[r].answer /\ req'[r].done = req[r].done
           /\ req'[r].at = req[r].at /\ req'[r].w = req[r].w
    <3>1. \/ \E p : req'[r] = [req[r] EXCEPT !.pc = p]
          \/ req'[r] = [req[r] EXCEPT !.pc = "end", !.answer = "metadata error"]
      BY <1>5, MetadataMoves
    <3> QED BY <2>1, <3>1 DEF RequestStates
  <2> QED BY <1>1, <2>1, <2>2, <2>3 DEF Background
<1>6. ASSUME NEW r \in Requests,
             \/ Route(r) \/ CheckAvailable(r) \/ Infer(r) \/ NoInference(r)
             \/ AnswerFromEdge(r) \/ EscalateUnsure(r) \/ FallBack(r) \/ Submit(r)
      PROVE  Quiet \/ Escalates(r)
  <2>1. Apart(r)
    BY <1>6, RoutingMoves, SendingMoves
  <2>2. SameQuery(r) /\ now' = now /\ (escalated' = escalated \/ Escalating(r)) /\ \E e \in {0, 1} : Outcome(r, e)
    BY <1>6, Outcomes
  <2>3. Background(r)' => Escalating(r)
    BY <2>2 DEF Background, Outcome
  <2>4. CASE Escalating(r)
    BY <2>1, <2>2, <2>4 DEF Escalating, SameQuery
  <2>5. CASE ~Escalating(r)
    BY <1>1, <2>1, <2>2, <2>3, <2>5
  <2> QED BY <2>4, <2>5
<1> QED BY <1>2, <1>3, <1>4, <1>5, <1>6 DEF Next, HandlerStep

\* A worker's background escalations are a cooldown apart, and it remembers the last.
LEMMA StepCooldown ==
    TypeOK /\ RequestInv /\ LastInv /\ CooldownKept /\ [Next]_vars => LastInv' /\ CooldownKept'
<1> SUFFICES ASSUME TypeOK, RequestInv, LastInv, CooldownKept, [Next]_vars
             PROVE  LastInv' /\ CooldownKept'
  OBVIOUS
<1> DEFINE Spaced(q, s) == req[q].at - req[s].at > Cooldown \/ req[s].at - req[q].at > Cooldown
<1>1. CooldownKept <=> \A q, s \in Requests :
                          q # s /\ req[q].w = req[s].w /\ Background(q) /\ Background(s) => Spaced(q, s)
  BY DEF CooldownKept, Background
<1>2. CooldownKept' <=> \A q, s \in Requests :
                          q # s /\ req'[q].w = req'[s].w /\ Background(q)' /\ Background(s)' => Spaced(q, s)'
  <2>1. \A q, s \in Requests : {req'[q].answer, req'[s].answer} = {"edge"} <=>
                                 req'[q].answer = "edge" /\ req'[s].answer = "edge"
    OBVIOUS
  <2> HIDE DEF CooldownKept, Background
  <2>2. CooldownKept' <=> \A q, s \in Requests :
           q # s /\ req'[q].w = req'[s].w /\ req'[q].answer = "edge" /\ req'[s].answer = "edge"
           /\ ~req'[q].done /\ ~req'[s].done => Spaced(q, s)'
    BY <2>1, Zenon DEF CooldownKept
  <2> QED BY <2>2, Zenon DEF Background
<1>3. /\ now \in Nat /\ escalated \in [Workers -> Nat] /\ Cooldown \in Nat
      /\ \A q \in Requests : req[q].w \in Workers /\ req[q].at \in Nat
  BY QueryAssumption DEF TypeOK
<1>4. CASE /\ escalated' = escalated /\ now' \in {now, now + 1}
           /\ \A q \in Requests : Background(q)' =>
                 Background(q) /\ req'[q].at = req[q].at /\ req'[q].w = req[q].w
  <2>1. CooldownKept'
    BY <1>1, <1>2, <1>4
  <2>2. LastInv'
    BY <1>3, <1>4 DEF LastInv
  <2> QED BY <2>1, <2>2
<1>5. ASSUME NEW r \in Requests, CooldownComplete(req[r].w), Apart(r), now' = now,
             escalated' = [escalated EXCEPT ![req[r].w] = now],
             req'[r].at = now, req'[r].w = req[r].w
      PROVE  LastInv' /\ CooldownKept'
  <2>1. \A q \in Requests \ {r} : req'[q] = req[q] /\ (Background(q)' <=> Background(q))
    BY <1>5 DEF Apart, Background
  <2>2. escalated'[req[r].w] = now /\ \A v \in Workers : v # req[r].w => escalated'[v] = escalated[v]
    BY <1>3, <1>5
  <2>3. \A q \in Requests \ {r} : Background(q) /\ req[q].w = req[r].w => now - req[q].at > Cooldown
    BY <1>3, <1>5 DEF LastInv, CooldownComplete
  <2>4. LastInv'
    <3>1. \A v \in Workers : escalated'[v] <= now
      BY <1>3, <2>2 DEF LastInv
    <3>2. ASSUME NEW q \in Requests, Background(q)' PROVE req'[q].at >= 1 /\ req'[q].at <= escalated'[req'[q].w]
      <4>1. CASE q = r
        BY <1>3, <1>5, <2>2, <4>1 DEF LastInv
      <4>2. CASE q # r
        <5>1. req'[q] = req[q] /\ req[q].at >= 1 /\ req[q].at <= escalated[req[q].w] /\ escalated[req[q].w] <= now
          BY <1>3, <2>1, <3>2, <4>2 DEF LastInv
        <5> QED BY <1>3, <2>2, <5>1
      <4> QED BY <4>1, <4>2
    <3> QED BY <1>5, <3>1, <3>2 DEF LastInv
  <2>5. ASSUME NEW q \in Requests, NEW s \in Requests, q # s, req'[q].w = req'[s].w,
               Background(q)', Background(s)'
        PROVE  Spaced(q, s)'
    <3>1. CASE q # r /\ s # r
      BY <1>1, <2>1, <2>5, <3>1
    <3>2. CASE q = r
      BY <1>5, <2>1, <2>3, <2>5, <3>2
    <3>3. CASE s = r
      BY <1>5, <2>1, <2>3, <2>5, <3>3
    <3> QED BY <3>1, <3>2, <3>3
  <2> QED BY <1>2, <2>4, <2>5
<1> QED BY <1>4, <1>5, EscalationMoves

\* Two background escalations of one uvicorn worker are more than
\* min_time_between_escalations apart, however its queries overlap.
THEOREM EscalationsSpaced == Spec => []CooldownKept
<1>1. Init => LastInv /\ CooldownKept
  <2> SUFFICES ASSUME Init PROVE LastInv /\ CooldownKept
    OBVIOUS
  <2>1. \A r \in Requests : req[r].answer = "none"
    BY DEF Init, NewRequest
  <2>2. now = 1 /\ \A w \in Workers : escalated[w] = 0
    BY DEF Init
  <2>3. LastInv
    BY <2>1, <2>2 DEF LastInv, Background
  <2>4. CooldownKept
    BY <2>1 DEF CooldownKept
  <2> QED BY <2>3, <2>4
<1>2. /\ TypeOK /\ RequestInv /\ LastInv /\ CooldownKept
      /\ [Next]_vars
      => (TypeOK /\ RequestInv /\ LastInv /\ CooldownKept)'
  BY StepTypes, StepRequest, StepCooldown
<1> QED BY <1>1, <1>2, InitTypes, InitRequest, PTL DEF Spec

-----------------------------------------------------------------------------
(* The readiness cache. *)

\* Only the check of availability sends a request to inference, or changes the cache.
LEMMA InferMoves ==
    ASSUME TypeOK, RequestInv, [Next]_vars
    PROVE  \/ /\ ready' = ready
              /\ \A q \in Requests : req'[q].pc = "infer" => req[q].pc = "infer" /\ req'[q].at = req[q].at
           \/ \E r \in Requests : CheckAvailable(r)
<1>1. ASSUME NEW r \in Requests, Apart(r), req'[r].pc # "infer"
      PROVE  \A q \in Requests : req'[q].pc = "infer" => req[q].pc = "infer" /\ req'[q].at = req[q].at
  BY <1>1 DEF Apart
<1>2. CASE UNCHANGED vars
  BY <1>2 DEF vars, inferenceVars
<1>3. CASE \/ Tick \/ CloudChanges \/ (\E c \in Configs : Reconfigure(c)) \/ (\E k \in Pods : PodChanges(k))
           \/ (\E r \in Requests : Deliver(r))
  BY <1>3 DEF Tick, CloudChanges, Reconfigure, PodChanges, Deliver, outsideWorld
<1>4. ASSUME NEW r \in Requests, NEW w \in Workers, NEW human \in HumanReviews, NEW async \in BOOLEAN,
             Arrive(r, w, human, async)
      PROVE  ready' = ready /\ Apart(r) /\ req'[r].pc # "infer"
  <2>1. Apart(r) /\ req[r] \in RequestStates /\ ready' = ready
    BY <1>4, OneMoves DEF Arrive, TypeOK, RequestStates
  <2>2. req'[r] = [req[r] EXCEPT !.pc = "lookup", !.w = w, !.human = human, !.async = async]
    BY <1>4, QuietMove DEF Arrive
  <2> QED BY <2>1, <2>2 DEF RequestStates
<1>5. ASSUME NEW r \in Requests, MetadataStep(r) PROVE ready' = ready /\ Apart(r) /\ req'[r].pc # "infer"
  <2>1. Apart(r) /\ req[r] \in RequestStates
    BY <1>5, MetadataMoves DEF TypeOK, RequestStates
  <2>2. ready' = ready
    BY <1>5 DEF MetadataStep, LookUpMetadata, FetchMetadata, CheckAge, Suspend, LookUpAgain, Refetch,
                DropSuspended, Restore, outsideMetadata, inferenceVars
  <2>3. \/ \E p \in After \cup {"end", "route", "fetch"} : req'[r] = [req[r] EXCEPT !.pc = p]
        \/ req'[r] = [req[r] EXCEPT !.pc = "end", !.answer = "metadata error"]
    BY <1>5, MetadataMoves
  <2> QED BY <2>1, <2>2, <2>3 DEF RequestStates, After
<1>6. ASSUME NEW r \in Requests, Route(r) PROVE ready' = ready /\ Apart(r) /\ req'[r].pc # "infer"
  <2>1. ready' = ready /\ Apart(r) /\ req[r].pc = "route" /\ \E e \in {0, 1} : Outcome(r, e)
    BY <1>6, RoutingMoves, Outcomes DEF Route, At
  <2> QED BY <2>1 DEF Outcome, Middle
<1>7. ASSUME NEW r \in Requests, Infer(r) PROVE ready' = ready /\ Apart(r) /\ req'[r].pc # "infer"
  <2>1. ready' = ready /\ Apart(r) /\ req[r] \in RequestStates
    BY <1>7, RoutingMoves DEF Infer, TypeOK, RequestStates
  <2>2. Fail(r, "500") \/ \E d \in BOOLEAN : req'[r] = [req[r] EXCEPT !.pc = "edge", !.sure = d]
    BY <1>7, QuietMove DEF Infer
  <2>3. Fail(r, "500") => req'[r].pc # "infer"
    BY Answered
  <2> QED BY <2>1, <2>2, <2>3 DEF RequestStates
<1>8. ASSUME NEW r \in Requests, NoInference(r) \/ EscalateUnsure(r) \/ FallBack(r)
      PROVE  ready' = ready /\ Apart(r) /\ req'[r].pc # "infer"
  <2>1. ready' = ready /\ Apart(r)
    BY <1>8, RoutingMoves, SendingMoves DEF NoInference, EscalateUnsure, FallBack
  <2>2. (\E p \in {"cloud", "submit"} : Goto(r, p)) \/ \E a : Fail(r, a)
    BY <1>8, Zenon DEF NoInference, EscalateUnsure, FallBack
  <2>3. ASSUME NEW p \in {"cloud", "submit"}, Goto(r, p) PROVE req'[r].pc # "infer"
    BY <2>3, Gone
  <2>4. ASSUME NEW a, Fail(r, a) PROVE req'[r].pc # "infer"
    BY <2>4, Answered
  <2> QED BY <2>1, <2>2, <2>3, <2>4
<1>9. ASSUME NEW r \in Requests, AnswerFromEdge(r) \/ Submit(r)
      PROVE  ready' = ready /\ Apart(r) /\ req'[r].pc # "infer"
  <2>1. ready' = ready /\ Apart(r)
    BY <1>9, SendingMoves DEF AnswerFromEdge, Submit
  <2>2. (\E a : \E d \in BOOLEAN : Answer(r, a, d)) \/ \E a : Fail(r, a)
    BY <1>9, Zenon DEF AnswerFromEdge, Submit
  <2>3. ASSUME NEW a, NEW d \in BOOLEAN, Answer(r, a, d) PROVE req'[r].pc # "infer"
    BY <2>3, Answered
  <2>4. ASSUME NEW a, Fail(r, a) PROVE req'[r].pc # "infer"
    BY <2>4, Answered
  <2> QED BY <2>1, <2>2, <2>3, <2>4
<1> QED BY <1>1, <1>2, <1>3, <1>4, <1>5, <1>6, <1>7, <1>8, <1>9 DEF Next, HandlerStep

\* The clock and the pods change by themselves, with all else as it was.
LEMMA PodMoves ==
    ASSUME [Next]_vars
    PROVE  \/ UNCHANGED <<now, pods, downAt>>
           \/ now' = now + 1 /\ UNCHANGED <<req, ready, pods, downAt>>
           \/ \E k \in Pods :
                 /\ UNCHANGED <<now, req, ready>>
                 /\ pods' = [pods EXCEPT ![k] = ~pods[k]]
                 /\ downAt' = [downAt EXCEPT ![k] = IF pods[k] THEN now ELSE downAt[k]]
<1>1. CASE UNCHANGED vars
  BY <1>1 DEF vars, inferenceVars
<1>2. CASE Tick
  BY <1>2 DEF Tick, outsideWorld
<1>3. ASSUME NEW k \in Pods, PodChanges(k)
      PROVE  /\ UNCHANGED <<now, req, ready>>
             /\ pods' = [pods EXCEPT ![k] = ~pods[k]]
             /\ downAt' = [downAt EXCEPT ![k] = IF pods[k] THEN now ELSE downAt[k]]
  BY <1>3 DEF PodChanges, outsideWorld
<1>4. CASE CloudChanges \/ (\E c \in Configs : Reconfigure(c)) \/ (\E r \in Requests : Deliver(r))
  BY <1>4 DEF CloudChanges, Reconfigure, Deliver
<1>5. ASSUME NEW r \in Requests, HandlerStep(r) PROVE UNCHANGED <<now, pods, downAt>>
  BY <1>5 DEF HandlerStep, MetadataStep, LookUpMetadata, FetchMetadata, CheckAge, Suspend, LookUpAgain,
              Refetch, DropSuspended, Restore, outsideMetadata, inferenceVars, Route, CheckAvailable,
              Infer, NoInference, AnswerFromEdge, EscalateUnsure, FallBack, Submit, outsideRouting
<1>6. ASSUME NEW r \in Requests, NEW w \in Workers, NEW human \in HumanReviews, NEW async \in BOOLEAN,
             Arrive(r, w, human, async)
      PROVE  UNCHANGED <<now, pods, downAt>>
  BY <1>6 DEF Arrive, outsideRouting
<1> QED BY <1>1, <1>2, <1>3, <1>4, <1>5, <1>6 DEF Next

\* The check of availability: a cached answer is younger than the ttl, and what it was
\* true of is up or went down since; any other answer is true now.
LEMMA CheckReady ==
    ASSUME TypeOK, ReadyInv, NEW r \in Requests, CheckAvailable(r)
    PROVE  ReadyInv'
<1> DEFINE w == req[r].w
           New(k) == ready'[w][k]
<1>1. /\ w \in Workers /\ now \in Nat /\ ReadyTtl \in Nat \ {0}
      /\ ready \in [Workers -> [Pods -> [ok : BOOLEAN, since : Nat]]]
      /\ pods \in [Pods -> BOOLEAN] /\ downAt \in [Pods -> Nat]
  BY QueryAssumption DEF TypeOK
<1>2. UNCHANGED <<now, pods, downAt>> /\ Apart(r)
  BY RoutingMoves DEF CheckAvailable, outsideRouting
<1>3. \A v \in Workers \ {w} : ready'[v] = ready[v]
  BY <1>1 DEF CheckAvailable
<1>4. \A k \in Pods : New(k) = ready[w][k] \/ New(k) = [ok |-> pods[k], since |-> now]
  BY <1>1 DEF CheckAvailable
<1>5. ASSUME NEW v \in Workers, NEW k \in Pods
      PROVE  /\ ready'[v][k].since <= now
             /\ ready'[v][k].since # 0 /\ ready'[v][k].ok => pods[k] \/ downAt[k] >= ready'[v][k].since
  <2>1. /\ ready[v][k].since <= now
        /\ ready[v][k].since # 0 /\ ready[v][k].ok => pods[k] \/ downAt[k] >= ready[v][k].since
    BY DEF ReadyInv
  <2>2. CASE ready'[v][k] = ready[v][k]
    BY <2>1, <2>2
  <2>3. CASE ready'[v][k] = [ok |-> pods[k], since |-> now]
    BY <1>1, <2>3
  <2> QED BY <1>3, <1>4, <2>2, <2>3
<1>6. ASSUME NEW q \in Requests, req'[q].pc = "infer"
      PROVE  req'[q].at <= now /\ \A k \in Pods : pods[k] \/ downAt[k] + ReadyTtl > req'[q].at
  <2>1. CASE q # r
    BY <1>2, <1>6, <2>1 DEF Apart, ReadyInv
  <2>2. CASE q = r
    <3>1. req[r] \in RequestStates
      BY DEF TypeOK, RequestStates
    <3>2. req'[r] = [req[r] EXCEPT !.pc = IF \A k \in Pods : Ready(w, k) THEN "infer" ELSE "missing", !.at = now]
      BY QuietMove DEF CheckAvailable
    <3>3. req'[r].at = now /\ \A k \in Pods : Ready(w, k)
      BY <1>6, <2>2, <3>1, <3>2 DEF RequestStates
    <3>4. ASSUME NEW k \in Pods PROVE pods[k] \/ downAt[k] + ReadyTtl > now
      <4>1. CASE Fresh(w, k)
        <5>1. ready[w][k].ok /\ ready[w][k].since # 0 /\ now - ready[w][k].since < ReadyTtl
          BY <3>3, <4>1 DEF Ready, Fresh
        <5>2. ready[w][k].since \in Nat /\ downAt[k] \in Nat /\ (pods[k] \/ downAt[k] >= ready[w][k].since)
          BY <1>1, <5>1 DEF ReadyInv
        <5> QED BY <1>1, <5>1, <5>2
      <4>2. CASE ~Fresh(w, k)
        BY <3>3, <4>2 DEF Ready
      <4> QED BY <4>1, <4>2
    <3> QED BY <1>1, <2>2, <3>3, <3>4
  <2> QED BY <2>1, <2>2
<1> QED BY <1>2, <1>5, <1>6 DEF ReadyInv

\* The readiness invariant is kept by every step.
LEMMA StepReady == TypeOK /\ RequestInv /\ ReadyInv /\ [Next]_vars => ReadyInv'
<1> SUFFICES ASSUME TypeOK, RequestInv, ReadyInv, [Next]_vars PROVE ReadyInv'
  OBVIOUS
<1>1. /\ now \in Nat /\ ReadyTtl \in Nat \ {0}
      /\ ready \in [Workers -> [Pods -> [ok : BOOLEAN, since : Nat]]]
      /\ pods \in [Pods -> BOOLEAN] /\ downAt \in [Pods -> Nat]
      /\ \A q \in Requests : req[q].at \in Nat
  BY QueryAssumption DEF TypeOK
<1>2. CASE now' = now + 1 /\ UNCHANGED <<req, ready, pods, downAt>>
  BY <1>1, <1>2 DEF ReadyInv
<1>3. ASSUME NEW k \in Pods, UNCHANGED <<now, req, ready>>,
             pods' = [pods EXCEPT ![k] = ~pods[k]],
             downAt' = [downAt EXCEPT ![k] = IF pods[k] THEN now ELSE downAt[k]]
      PROVE  ReadyInv'
  <2>1. \A j \in Pods : j # k => pods'[j] = pods[j] /\ downAt'[j] = downAt[j]
    BY <1>1, <1>3
  <2>2. pods'[k] \/ downAt'[k] = now
    BY <1>1, <1>3
  <2>3. ASSUME NEW v \in Workers, NEW j \in Pods
        PROVE  /\ ready[v][j].since <= now
               /\ ready[v][j].since # 0 /\ ready[v][j].ok => pods'[j] \/ downAt'[j] >= ready[v][j].since
    BY <1>1, <2>1, <2>2 DEF ReadyInv
  <2>4. ASSUME NEW q \in Requests, req[q].pc = "infer"
        PROVE  req[q].at <= now /\ \A j \in Pods : pods'[j] \/ downAt'[j] + ReadyTtl > req[q].at
    <3>1. req[q].at <= now /\ \A j \in Pods : pods[j] \/ downAt[j] + ReadyTtl > req[q].at
      BY <2>4 DEF ReadyInv
    <3>2. now + ReadyTtl > req[q].at
      BY <1>1, <3>1
    <3> QED BY <2>1, <2>2, <3>1, <3>2
  <2> QED BY <1>3, <2>3, <2>4 DEF ReadyInv
<1>4. CASE /\ UNCHANGED <<now, pods, downAt, ready>>
           /\ \A q \in Requests : req'[q].pc = "infer" => req[q].pc = "infer" /\ req'[q].at = req[q].at
  BY <1>4 DEF ReadyInv
<1> QED BY <1>2, <1>3, <1>4, PodMoves, InferMoves, CheckReady

\* A query that runs inference on a server that is down was let through by an answer of
\* the readiness cache no older than its ttl, or the server went down after the check.
THEOREM ReadinessFreshEnough == Spec => StaleReadinessBounded
<1> DEFINE Bounded == \A r \in Requests :
              req[r].pc = "infer" /\ req'[r].answer = "500"
                 => \E k \in Pods : ~pods[k] /\ downAt[k] + ReadyTtl > req[r].at
<1>1. Init => ReadyInv
  <2> SUFFICES ASSUME Init PROVE ReadyInv
    OBVIOUS
  <2>1. now = 1 /\ (\A r \in Requests : req[r].pc = "new") /\ \A w \in Workers, k \in Pods : ready[w][k].since = 0
    BY DEF Init, NewRequest
  <2> QED BY <2>1 DEF ReadyInv
<1>2. TypeOK /\ RequestInv /\ ReadyInv /\ [Next]_vars => (TypeOK /\ RequestInv /\ ReadyInv)'
  BY StepTypes, StepRequest, StepReady
<1>3. TypeOK /\ RequestInv /\ ReadyInv /\ [Next]_vars => Bounded
  <2> SUFFICES ASSUME TypeOK, RequestInv, ReadyInv, [Next]_vars, NEW r \in Requests,
                      req[r].pc = "infer", req'[r].answer = "500"
               PROVE  \E k \in Pods : ~pods[k] /\ downAt[k] + ReadyTtl > req[r].at
    OBVIOUS
  <2>1. req[r].answer = "none"
    BY DEF RequestInv, RequestOf, Middle
  <2>2. Infer(r)
    <3>1. req'[r] # req[r]
      BY <2>1
    <3>2. \A q \in Requests : Apart(q) => q = r
      BY <3>1 DEF Apart
    <3>3. \E q \in Requests :
             \/ HandlerStep(q)
             \/ \E w \in Workers, human \in HumanReviews, async \in BOOLEAN : Arrive(q, w, human, async)
      BY <3>1 DEF Next, vars, Tick, CloudChanges, Reconfigure, PodChanges, Deliver, outsideWorld
    <3>4. \/ HandlerStep(r)
          \/ \E w \in Workers, human \in HumanReviews, async \in BOOLEAN : Arrive(r, w, human, async)
      BY <3>2, <3>3, OneMoves
    <3> QED BY <3>4 DEF HandlerStep, MetadataStep, LookUpMetadata, FetchMetadata, CheckAge, Suspend,
                        LookUpAgain, Refetch, DropSuspended, Restore, Route, CheckAvailable, NoInference,
                        AnswerFromEdge, EscalateUnsure, FallBack, Submit, Arrive, At
  <2>3. \E k \in Pods : ~pods[k]
    <3>1. CASE \E k \in Pods : ~pods[k]
      BY <3>1
    <3>2. CASE \A k \in Pods : pods[k]
      <4>1. \E d \in BOOLEAN : Becomes(r, [req[r] EXCEPT !.pc = "edge", !.sure = d])
        BY <2>2, <3>2 DEF Infer
      <4>2. \E d \in BOOLEAN : req'[r] = [req[r] EXCEPT !.pc = "edge", !.sure = d]
        BY <4>1, QuietMove
      <4>3. req[r] \in RequestStates
        BY DEF TypeOK, RequestStates
      <4> QED BY <2>1, <4>2, <4>3 DEF RequestStates
    <3> QED BY <3>1, <3>2
  <2> QED BY <2>3 DEF ReadyInv
<1>4. TypeOK /\ RequestInv /\ ReadyInv /\ [Next]_vars => [Bounded]_vars
  BY <1>3
<1> QED BY <1>1, <1>2, <1>4, InitTypes, InitRequest, PTL DEF Spec, StaleReadinessBounded

-----------------------------------------------------------------------------
(* The counter of escalations. *)

\* A query that edge inference is tried for was not one for human review only.
HumanInv == \A r \in Requests : req[r].pc \in Middle => req[r].human # "ALWAYS"

\* What the counter counts: a query that was, or is about to be, sent; again one for
\* human review that was or is to be submitted; and one for human review on its way there.
Out(r) ==
    \/ req[r].pc = "submit" \/ req[r].answer \in {"cloud", "cloud error"}
    \/ req[r].answer = "edge" /\ ~req[r].done
Reviewed(r) ==
    /\ req[r].human = "ALWAYS" /\ ~req[r].async
    /\ req[r].pc = "submit" \/ req[r].answer \in {"cloud", "cloud error"}
Waiting(r) == req[r].human = "ALWAYS" /\ ~req[r].async /\ req[r].pc = "cloud"
CountInv ==
    tally["escalations"] = Cardinality({r \in Requests : Out(r)})
        + Cardinality({r \in Requests : Reviewed(r)}) + Cardinality({r \in Requests : Waiting(r)})

One(b) == IF b THEN 1 ELSE 0

\* A set of requests in which one may come or go.
LEMMA OneComesOrGoes ==
    ASSUME NEW S \in SUBSET Requests, NEW T \in SUBSET Requests, NEW r \in Requests,
           \A q \in Requests \ {r} : q \in S <=> q \in T
    PROVE  /\ Cardinality(S) \in Nat /\ Cardinality(T) \in Nat
           /\ Cardinality(T) + One(r \in S) = Cardinality(S) + One(r \in T)
<1>1. IsFiniteSet(S) /\ IsFiniteSet(T) /\ Cardinality(S) \in Nat /\ Cardinality(T) \in Nat
  BY QueryAssumption, FS_Subset, FS_CardinalityType
<1>2. CASE r \in S <=> r \in T
  <2>1. S = T
    BY <1>2
  <2> QED BY <1>1, <2>1 DEF One
<1>3. CASE r \in S /\ r \notin T
  <2>1. S = T \cup {r}
    BY <1>3
  <2>2. Cardinality(S) = Cardinality(T) + 1
    BY <1>1, <1>3, <2>1, FS_AddElement
  <2> QED BY <1>1, <1>3, <2>2 DEF One
<1>4. CASE r \notin S /\ r \in T
  <2>1. T = S \cup {r}
    BY <1>4
  <2>2. Cardinality(T) = Cardinality(S) + 1
    BY <1>1, <1>4, <2>1, FS_AddElement
  <2> QED BY <1>1, <1>4, <2>2 DEF One
<1> QED BY <1>2, <1>3, <1>4

\* A step of r that counts as many as r adds.
LEMMA CountedMove ==
    ASSUME CountInv, tally["escalations"] \in Nat, NEW r \in Requests, Apart(r),
           NEW e \in {0, 1}, tally'["escalations"] = tally["escalations"] + e,
           One(Out(r)') + One(Reviewed(r)') + One(Waiting(r)')
              = One(Out(r)) + One(Reviewed(r)) + One(Waiting(r)) + e
    PROVE  CountInv'
<1> DEFINE A == {q \in Requests : Out(q)}
           B == {q \in Requests : Reviewed(q)}
           C == {q \in Requests : Waiting(q)}
           A1 == {q \in Requests : Out(q)'}
           B1 == {q \in Requests : Reviewed(q)'}
           C1 == {q \in Requests : Waiting(q)'}
<1>1. \A q \in Requests \ {r} : (q \in A <=> q \in A1) /\ (q \in B <=> q \in B1) /\ (q \in C <=> q \in C1)
  BY DEF Apart, Out, Reviewed, Waiting
<1>2. /\ Cardinality(A) \in Nat /\ Cardinality(A1) \in Nat
      /\ Cardinality(A1) + One(r \in A) = Cardinality(A) + One(r \in A1)
  BY <1>1, OneComesOrGoes
<1>3. /\ Cardinality(B) \in Nat /\ Cardinality(B1) \in Nat
      /\ Cardinality(B1) + One(r \in B) = Cardinality(B) + One(r \in B1)
  BY <1>1, OneComesOrGoes
<1>4. /\ Cardinality(C) \in Nat /\ Cardinality(C1) \in Nat
      /\ Cardinality(C1) + One(r \in C) = Cardinality(C) + One(r \in C1)
  BY <1>1, OneComesOrGoes
<1>5. /\ One(r \in A) = One(Out(r)) /\ One(r \in B) = One(Reviewed(r)) /\ One(r \in C) = One(Waiting(r))
      /\ One(r \in A1) = One(Out(r)') /\ One(r \in B1) = One(Reviewed(r)') /\ One(r \in C1) = One(Waiting(r)')
  BY DEF One
<1>6. tally["escalations"] = Cardinality(A) + Cardinality(B) + Cardinality(C)
  BY DEF CountInv
<1>7. One(r \in A) \in {0, 1} /\ One(r \in B) \in {0, 1} /\ One(r \in C) \in {0, 1}
      /\ One(r \in A1) \in {0, 1} /\ One(r \in B1) \in {0, 1} /\ One(r \in C1) \in {0, 1}
  BY DEF One
<1>8. tally'["escalations"] = Cardinality(A1) + Cardinality(B1) + Cardinality(C1)
  <2>1. One(r \in A1) + One(r \in B1) + One(r \in C1) = One(r \in A) + One(r \in B) + One(r \in C) + e
    BY <1>5
  <2> DEFINE a == Cardinality(A)
             b == Cardinality(B)
             c == Cardinality(C)
             a1 == Cardinality(A1)
             b1 == Cardinality(B1)
             c1 == Cardinality(C1)
             ra == One(r \in A)
             rb == One(r \in B)
             rc == One(r \in C)
             ra1 == One(r \in A1)
             rb1 == One(r \in B1)
             rc1 == One(r \in C1)
  <2>2. /\ {a, b, c, a1, b1, c1, ra, rb, rc, ra1, rb1, rc1} \subseteq Nat
        /\ a1 + ra = a + ra1 /\ b1 + rb = b + rb1 /\ c1 + rc = c + rc1
        /\ ra1 + rb1 + rc1 = ra + rb + rc + e
    BY <1>2, <1>3, <1>4, <1>7, <2>1
  <2>3. tally["escalations"] = a + b + c
    BY <1>6
  <2> HIDE DEF a, b, c, a1, b1, c1, ra, rb, rc, ra1, rb1, rc1
  <2>4. tally'["escalations"] = a1 + b1 + c1
    BY <2>2, <2>3
  <2> QED BY <2>4 DEF a1, b1, c1
<1> QED BY <1>8 DEF CountInv

\* A handler past its lookup: each outcome counts what it adds.
LEMMA OutcomeCounted ==
    ASSUME TypeOK, RequestInv, HumanInv, CountInv, NEW r \in Requests,
           \/ Route(r) \/ CheckAvailable(r) \/ Infer(r) \/ NoInference(r)
           \/ AnswerFromEdge(r) \/ EscalateUnsure(r) \/ FallBack(r) \/ Submit(r)
    PROVE  HumanInv' /\ CountInv'
<1> DEFINE s == req[r]
           t == req'[r]
<1>1. Apart(r)
  BY RoutingMoves, SendingMoves
<1>2. PICK e \in {0, 1} : Outcome(r, e) /\ tally'["escalations"] = tally["escalations"] + e
  BY Outcomes
<1>3. t.human = s.human /\ t.async = s.async
  BY Outcomes DEF SameQuery
<1>4. s.pc \in {"route"} \cup Middle \cup Outward /\ s.answer = "none" /\ (s.pc \in Middle => s.human # "ALWAYS")
  <2>1. s.pc \in {"route"} \cup Middle \cup Outward
    BY <1>2 DEF Outcome, Outward
  <2> QED BY <2>1 DEF RequestInv, RequestOf, HumanInv, Early
<1>5. HumanInv'
  <2>1. t.pc \in Middle => t.human # "ALWAYS"
    BY <1>2, <1>3, <1>4 DEF Outcome, Middle
  <2> QED BY <1>1, <2>1 DEF HumanInv, Apart
<1>6. One(Out(r)') + One(Reviewed(r)') + One(Waiting(r)')
         = One(Out(r)) + One(Reviewed(r)) + One(Waiting(r)) + e
  <2> DEFINE review == s.human = "ALWAYS" /\ ~s.async
  <2>1. CASE s.pc = "route"
    <3>1. ~Out(r) /\ ~Reviewed(r) /\ ~Waiting(r)
      BY <1>4, <2>1 DEF Out, Reviewed, Waiting
    <3>2. \/ Out(r)' /\ ~Reviewed(r)' /\ ~Waiting(r)' /\ e = 1
          \/ ~Out(r)' /\ ~Reviewed(r)' /\ Waiting(r)' /\ e = 1
          \/ ~Out(r)' /\ ~Reviewed(r)' /\ ~Waiting(r)' /\ e = 0
      BY <1>2, <1>3, <2>1 DEF Outcome, Out, Reviewed, Waiting, Middle
    <3> QED BY <3>1, <3>2 DEF One
  <2>2. CASE s.pc \in Middle
    <3>1. ~Out(r) /\ ~Reviewed(r) /\ ~Waiting(r)
      BY <1>4, <2>2 DEF Out, Reviewed, Waiting, Middle
    <3>2. \/ Out(r)' /\ ~Reviewed(r)' /\ ~Waiting(r)' /\ e = 1
          \/ ~Out(r)' /\ ~Reviewed(r)' /\ ~Waiting(r)' /\ e = 0
      BY <1>2, <1>3, <1>4, <2>2 DEF Outcome, Out, Reviewed, Waiting, Middle
    <3> QED BY <3>1, <3>2 DEF One
  <2>3. CASE s.pc = "cloud"
    <3>1. ~Out(r) /\ ~Reviewed(r) /\ (Waiting(r) <=> review)
      BY <1>4, <2>3 DEF Out, Reviewed, Waiting
    <3>2. Out(r)' /\ (Reviewed(r)' <=> review) /\ ~Waiting(r)' /\ e = 1
      BY <1>2, <1>3, <2>3 DEF Outcome, Out, Reviewed, Waiting, Middle
    <3> QED BY <3>1, <3>2 DEF One
  <2>4. CASE s.pc = "submit"
    <3>1. Out(r) /\ (Reviewed(r) <=> review) /\ ~Waiting(r)
      BY <1>4, <2>4 DEF Out, Reviewed, Waiting
    <3>2. Out(r)' /\ (Reviewed(r)' <=> review) /\ ~Waiting(r)' /\ e = 0
      BY <1>2, <1>3, <2>4 DEF Outcome, Out, Reviewed, Waiting, Middle
    <3> QED BY <3>1, <3>2 DEF One
  <2> QED BY <1>4, <2>1, <2>2, <2>3, <2>4 DEF Outward
<1>7. tally["escalations"] \in Nat
  BY DEF TypeOK, Activities
<1> QED BY <1>1, <1>2, <1>5, <1>6, <1>7, CountedMove

\* Every step counts what it adds.
LEMMA StepCount ==
    TypeOK /\ RequestInv /\ HumanInv /\ CountInv /\ [Next]_vars => HumanInv' /\ CountInv'
<1> SUFFICES ASSUME TypeOK, RequestInv, HumanInv, CountInv, [Next]_vars PROVE HumanInv' /\ CountInv'
  OBVIOUS
<1>1. CASE UNCHANGED <<req, tally>>
  <2>1. {q \in Requests : Out(q)}' = {q \in Requests : Out(q)}
    BY <1>1 DEF Out
  <2>2. {q \in Requests : Reviewed(q)}' = {q \in Requests : Reviewed(q)}
    BY <1>1 DEF Reviewed
  <2>3. {q \in Requests : Waiting(q)}' = {q \in Requests : Waiting(q)}
    BY <1>1 DEF Waiting
  <2> QED BY <1>1, <2>1, <2>2, <2>3 DEF HumanInv, CountInv
<1>2. CASE UNCHANGED vars
  BY <1>1, <1>2 DEF vars
<1>3. CASE \/ Tick \/ CloudChanges \/ (\E c \in Configs : Reconfigure(c)) \/ (\E k \in Pods : PodChanges(k))
           \/ (\E r \in Requests : Deliver(r))
  BY <1>1, <1>3 DEF Tick, CloudChanges, Reconfigure, PodChanges, Deliver, outsideWorld
<1>4. ASSUME NEW r \in Requests, Apart(r), UNCHANGED tally,
             req[r].pc \notin Outward, req'[r].pc \notin Outward \cup Middle,
             \/ req'[r].answer = req[r].answer /\ req'[r].answer = "none"
             \/ req'[r].answer = "metadata error" /\ req[r].answer = "none"
             \/ /\ req'[r].answer = req[r].answer /\ req'[r].done = req[r].done /\ SameQuery(r)
      PROVE  HumanInv' /\ CountInv'
  <2>1. HumanInv'
    BY <1>4 DEF HumanInv, Apart
  <2>2. One(Out(r)') + One(Reviewed(r)') + One(Waiting(r)')
           = One(Out(r)) + One(Reviewed(r)) + One(Waiting(r)) + 0
    <3>1. (Out(r)' <=> Out(r)) /\ (Reviewed(r)' <=> Reviewed(r)) /\ ~Waiting(r) /\ ~Waiting(r)'
      BY <1>4 DEF Out, Reviewed, Waiting, Outward, SameQuery
    <3> QED BY <3>1 DEF One
  <2>3. tally["escalations"] \in Nat
    BY DEF TypeOK, Activities
  <2>4. tally'["escalations"] = tally["escalations"] + 0
    <3>1. tally' = tally
      BY <1>4
    <3> QED BY <2>3, <3>1
  <2> QED BY <1>4, <2>1, <2>2, <2>3, <2>4, CountedMove
<1>5. ASSUME NEW r \in Requests, NEW w \in Workers, NEW human \in HumanReviews, NEW async \in BOOLEAN,
             Arrive(r, w, human, async)
      PROVE  HumanInv' /\ CountInv'
  <2>1. Apart(r) /\ req[r] \in RequestStates /\ UNCHANGED tally /\ req[r].pc = "new"
    BY <1>5, OneMoves DEF Arrive, TypeOK, RequestStates, At
  <2>2. req'[r] = [req[r] EXCEPT !.pc = "lookup", !.w = w, !.human = human, !.async = async]
    BY <1>5, QuietMove DEF Arrive
  <2>3. req[r].answer = "none"
    BY <2>1 DEF RequestInv, RequestOf, Early
  <2>4. req'[r].pc = "lookup" /\ req'[r].answer = "none"
    BY <2>1, <2>2, <2>3 DEF RequestStates
  <2> QED BY <1>4, <2>1, <2>3, <2>4 DEF Outward, Middle
<1>6. ASSUME NEW r \in Requests, MetadataStep(r) PROVE HumanInv' /\ CountInv'
  <2>1. Apart(r) /\ req[r] \in RequestStates /\ UNCHANGED tally
    BY <1>6, MetadataMoves DEF TypeOK, RequestStates
  <2>2. CASE req[r].pc \in {"lookup", "fetch"}
    <3>1. req[r].answer = "none"
      BY <2>2 DEF RequestInv, RequestOf, Early
    <3>2. \/ \E p \in {"route", "fetch"} : req'[r] = [req[r] EXCEPT !.pc = p]
          \/ req'[r] = [req[r] EXCEPT !.pc = "end", !.answer = "metadata error"]
      BY <1>6, <2>2, MetadataMoves DEF After
    <3>3. /\ req'[r].pc \in {"route", "fetch", "end"}
          /\ req'[r].answer = "none" \/ req'[r].answer = "metadata error"
      BY <2>1, <3>1, <3>2 DEF RequestStates
    <3> QED BY <1>4, <2>1, <2>2, <3>1, <3>3 DEF Outward, Middle
  <2>3. CASE req[r].pc \in After
    <3>1. \E p \in After \cup {"end"} : req'[r] = [req[r] EXCEPT !.pc = p]
      BY <1>6, <2>3, MetadataMoves DEF After
    <3>2. /\ req'[r].pc \in After \cup {"end"} /\ req'[r].answer = req[r].answer
          /\ req'[r].done = req[r].done /\ SameQuery(r)
      BY <2>1, <3>1 DEF RequestStates, SameQuery
    <3> QED BY <1>4, <2>1, <2>3, <3>2 DEF Outward, Middle, After
  <2> QED BY <1>6, <2>2, <2>3, MetadataMoves
<1> QED BY <1>2, <1>3, <1>5, <1>6, OutcomeCounted DEF Next, HandlerStep

\* The counter of escalations that the metrics report equals the number of queries sent or
\* to be sent, plus those for human review, which are counted twice.
THEOREM EscalationCounter == Spec => []EscalationsCounted
<1>1. Init => HumanInv /\ CountInv
  <2> SUFFICES ASSUME Init PROVE HumanInv /\ CountInv
    OBVIOUS
  <2>1. \A r \in Requests : req[r].pc = "new" /\ req[r].answer = "none"
    BY DEF Init, NewRequest
  <2>2. {r \in Requests : Out(r)} = {} /\ {r \in Requests : Reviewed(r)} = {} /\ {r \in Requests : Waiting(r)} = {}
    BY <2>1 DEF Out, Reviewed, Waiting
  <2>3. Cardinality({}) = 0 /\ tally["escalations"] = 0
    BY FS_EmptySet DEF Init, Activities
  <2>4. CountInv
    <3>1. /\ Cardinality({r \in Requests : Out(r)}) = 0
          /\ Cardinality({r \in Requests : Reviewed(r)}) = 0
          /\ Cardinality({r \in Requests : Waiting(r)}) = 0
      BY <2>2, <2>3, Zenon
    <3> QED BY <2>3, <3>1 DEF CountInv
  <2>5. HumanInv
    BY <2>1 DEF HumanInv, Middle
  <2> QED BY <2>4, <2>5
<1>2. TypeOK /\ RequestInv /\ HumanInv /\ CountInv /\ [Next]_vars
         => (TypeOK /\ RequestInv /\ HumanInv /\ CountInv)'
  BY StepTypes, StepRequest, StepCount
<1>3. RequestInv /\ CountInv => EscalationsCounted
  <2> SUFFICES ASSUME RequestInv, CountInv PROVE EscalationsCounted
    OBVIOUS
  <2> DEFINE submitted == {r \in Requests : req[r].pc = "submit" \/ req[r].answer = "cloud"}
             failed == {r \in Requests : req[r].answer = "cloud error" /\ (Sent(r) \/ r \in unwritten)}
             background == {r \in Requests : req[r].answer = "edge" /\ ~req[r].done}
             always == {r \in Requests : req[r].human = "ALWAYS" /\ ~req[r].async}
             inCloud == {r \in always : req[r].pc = "cloud"}
  <2>1. failed = {r \in Requests : req[r].answer = "cloud error"}
    BY DEF RequestInv, RequestOf
  <2>2. submitted \cup failed \cup background = {r \in Requests : Out(r)}
    BY <2>1 DEF Out
  <2>3. always \cap (submitted \cup failed) = {r \in Requests : Reviewed(r)}
    BY <2>1 DEF Reviewed
  <2>4. inCloud = {r \in Requests : Waiting(r)}
    BY DEF Waiting
  <2> QED BY <2>2, <2>3, <2>4 DEF CountInv, EscalationsCounted
<1> QED BY <1>1, <1>2, <1>3, InitTypes, InitRequest, PTL DEF Spec

=============================================================================
