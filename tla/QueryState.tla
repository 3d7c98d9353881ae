----------------------------- MODULE QueryState -----------------------------
(***************************************************************************)
(* What POST /image-queries works on, for one detector: of each uvicorn    *)
(* worker the metadata cache, the readiness cache and the time of the last *)
(* escalation; the inference pods; the escalation queue, here only the set *)
(* of requests in it; and the cloud.                                       *)
(***************************************************************************)
EXTENDS Integers, FiniteSets

CONSTANTS
    Requests,       \* image queries, one each
    Workers,        \* the uvicorn workers
    SeparateOodd,   \* separate_oodd_inference: the OODD model has a pod of its own
    StaleAfter,     \* STALE_METADATA_THRESHOLD_SEC, in ticks
    ReadyTtl,       \* the ttl of the readiness cache, in ticks
    Cooldown,       \* min_time_between_escalations, in ticks
    MaxTime,        \* bound: clock ticks
    Limit           \* bounds: how often each event of Events happens

\* A PUT of the detector's configuration; the cloud goes down or comes back, loses an
\* answer; a pod goes down or comes back; a write to the queue fails.
Events == {"put", "cloud", "lost", "pod", "disk"}

ASSUME QueryAssumption ==
    /\ SeparateOodd \in BOOLEAN
    /\ IsFiniteSet(Requests) /\ Workers # {}
    /\ {StaleAfter, Cooldown, MaxTime} \subseteq Nat
    /\ ReadyTtl \in Nat \ {0}
    /\ Limit \in [Events -> Nat]

\* How a detector may be configured: not at all or with escalation, with
\* always_return_edge_prediction, and with disable_cloud_escalation as well.  The SDK's
\* model of the configuration refuses disable_cloud_escalation alone.
Configs == {"escalate", "return", "disable"}
HumanReviews == {"DEFAULT", "ALWAYS"}    \* the handler treats NEVER as DEFAULT
Pods == IF SeparateOodd THEN {"primary", "oodd"} ELSE {"primary"}
Activities == {"iqs", "escalations", "below_threshold_iqs", "audits"}

VARIABLES
    now,        \* the clock
    config,     \* the active configuration of the detector
    req,        \* of each request: pc, worker, parameters, what it has seen, its answer
    entry,      \* of each worker: is the detector in the metadata cache, and since when?
    suspended,  \* of each worker: is there a suspended value?
    ready,      \* of each worker and pod: the cached answer of /health/ready, and its age
    escalated,  \* of each worker: last_escalation_times, 0 when there is none
    pods,       \* of each pod: does it answer?
    downAt,     \* of each pod: when it last went down
    online,     \* is the cloud reachable?
    queue,      \* requests that wait in the escalation queue
    records,    \* the models with a record of an inference deployment
    accepted,   \* of each request: how often the cloud has taken its image
    tally,      \* the activity counters
    unwritten,  \* history: requests whose write to the queue failed
    lost,       \* history: requests whose submission the cloud took without an answer
    raced,      \* history: workers in which two refreshes of the metadata overlapped
    count       \* history: events so far

metadataVars == <<entry, suspended, raced>>
inferenceVars == <<ready, pods, downAt, records>>
cloudVars == <<online, accepted, lost>>
queueVars == <<queue, unwritten>>
vars == <<now, config, req, metadataVars, inferenceVars, escalated, cloudVars, queueVars,
          tally, count>>

Occurs(event) ==
    /\ count[event] < Limit[event]
    /\ count' = [count EXCEPT ![event] = @ + 1]

At(r, pc) == req[r].pc = pc
Becomes(r, s) == req' = [req EXCEPT ![r] = s]
Goto(r, pc) == Becomes(r, [req[r] EXCEPT !.pc = pc])

\* The response of r, with a body: the background tasks run after it.  An exception
\* drops them.
Answer(r, answer, done) ==
    Becomes(r, [req[r] EXCEPT !.pc = "refresh", !.answer = answer, !.done = done,
                              !.at = IF done THEN 0 ELSE now])
Fail(r, status) == Becomes(r, [req[r] EXCEPT !.pc = "end", !.answer = status])

NewRequest == [pc |-> "new", w |-> CHOOSE w \in Workers : TRUE, human |-> "DEFAULT",
               async |-> FALSE, config |-> "escalate", at |-> 0, sure |-> FALSE,
               answer |-> "none", done |-> FALSE]
NoEntry == [held |-> FALSE, since |-> 0]

Init ==
    /\ now = 1
    /\ config \in Configs
    /\ req = [r \in Requests |-> NewRequest]
    /\ entry = [w \in Workers |-> NoEntry]
    /\ suspended = [w \in Workers |-> FALSE]
    /\ ready = [w \in Workers |-> [k \in Pods |-> [ok |-> FALSE, since |-> 0]]]
    /\ escalated = [w \in Workers |-> 0]
    /\ pods \in [Pods -> BOOLEAN]
    /\ downAt = [k \in Pods |-> 0]
    /\ online = TRUE
    /\ queue = {} /\ records = {} /\ unwritten = {} /\ lost = {} /\ raced = {}
    /\ accepted = [r \in Requests |-> 0]
    /\ tally = [a \in Activities |-> 0]
    /\ count = [x \in Events |-> 0]

=============================================================================
