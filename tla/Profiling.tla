----------------------------- MODULE Profiling -----------------------------
(***************************************************************************)
(* The trace of one request: spans are started and ended by the event loop *)
(* and by the two threads that run_inference asks the inference servers    *)
(* from, each in a copy of the loop's context.                             *)
(***************************************************************************)
EXTENDS Naturals, Sequences, FiniteSets, SequencesExt

CONSTANTS MaxSpans, MaxNow

Threads == {"loop", "primary", "oodd"}
Workers == {"primary", "oodd"}
Root == 1           \* the root span's place in the list of spans
NoSpan == 0         \* no current span, no parent, not ended

VARIABLES
    now,        \* time.perf_counter_ns()
    spans,      \* of the trace: name, parent, from, to
    current,    \* _current_span in the context of each thread
    stack,      \* of each thread: spans and tokens of the wrappers it is in
    forked,     \* of each worker: "no", "running" or "done"
    sent,       \* when the response was sent
    request     \* "none", "handled", "recorded"

profilingVars == <<now, spans, current, stack, forked, sent, request>>

ProfilingInit ==
    /\ now = 1 /\ spans = <<>>
    /\ current = [t \in Threads |-> NoSpan] /\ stack = [t \in Threads |-> <<>>]
    /\ forked = [t \in Workers |-> "no"] /\ sent = 0 /\ request = "none"

Span(name, parent) == [name |-> name, parent |-> parent, from |-> now, to |-> NoSpan]
\* Is thread t running the request's code?
Running(t) ==
    /\ request = "handled"
    /\ IF t = "loop" THEN \A w \in Workers : forked[w] # "running" ELSE forked[t] = "running"

\* ProfilingMiddleware starts the trace.
StartTrace ==
    /\ request = "none"
    /\ request' = "handled"
    /\ spans' = <<Span("request", NoSpan)>>
    /\ UNCHANGED <<now, current, stack, forked, sent>>

\* trace_span, or run_in_threadpool as it is patched: what is called becomes the current span.
Enter(t, name) ==
    /\ Running(t)
    /\ Len(spans) < MaxSpans
    /\ spans' = Append(spans, Span(name, IF current[t] = NoSpan THEN Root ELSE current[t]))
    /\ stack' = [stack EXCEPT ![t] = Append(stack[t], [span |-> Len(spans) + 1, token |-> current[t]])]
    /\ current' = [current EXCEPT ![t] = Len(spans) + 1]
    /\ UNCHANGED <<now, forked, sent, request>>

\* The call returns or raises: the finally clause ends the span and resets the context.
Leave(t) ==
    /\ Running(t) /\ stack[t] # <<>>
    /\ LET top == Last(stack[t])
       IN  /\ spans' = [spans EXCEPT ![top.span] = [spans[top.span] EXCEPT !.to = now]]
           /\ current' = [current EXCEPT ![t] = top.token]
    /\ stack' = [stack EXCEPT ![t] = Front(stack[t])]
    /\ forked' = IF t \in Workers /\ Len(stack[t]) = 1 THEN [forked EXCEPT ![t] = "done"] ELSE forked
    /\ UNCHANGED <<now, sent, request>>

\* run_inference submits the two calls, each to run in a copy of the context, and waits.
Fork ==
    /\ Running("loop") /\ sent = 0
    /\ stack["loop"] # <<>> /\ spans[current["loop"]].name = "run_inference"
    /\ \A w \in Workers : forked[w] = "no"
    /\ forked' = [w \in Workers |-> "running"]
    /\ current' = [t \in Threads |-> current["loop"]]
    /\ UNCHANGED <<now, spans, stack, sent, request>>

\* Each thread does one call.
Submit(t) ==
    /\ t \in Workers /\ stack[t] = <<>>
    /\ Enter(t, IF t = "primary" THEN "_submit_primary_inference" ELSE "_submit_oodd_inference")

\* traced_send; background tasks come after it.
SendResponse ==
    /\ Running("loop") /\ stack["loop"] = <<>> /\ sent = 0
    /\ sent' = now
    /\ UNCHANGED <<now, spans, current, stack, forked, request>>

\* The middleware's finally clause, whether or not a response was sent.
Finish ==
    /\ Running("loop") /\ stack["loop"] = <<>>
    /\ spans' = [spans EXCEPT ![Root] = [spans[Root] EXCEPT !.to = now]]
    /\ request' = "recorded"
    /\ UNCHANGED <<now, current, stack, forked, sent>>

Time ==
    /\ request = "handled" /\ now < MaxNow
    /\ now' = now + 1
    /\ UNCHANGED <<spans, current, stack, forked, sent, request>>

ProfilingNext ==
    \/ StartTrace \/ Fork \/ SendResponse \/ Finish \/ Time
    \/ \E name \in {"run_inference", "run_in_threadpool"} : Enter("loop", name)
    \/ \E w \in Workers : Submit(w)
    \/ \E t \in Threads : Leave(t)

-----------------------------------------------------------------------------
(* What the dashboard makes of a recorded trace. *)

InferenceCallSpanNames == {"_submit_primary_inference", "_submit_oodd_inference"}

\* _extract_request_ms_and_inference_intervals
InferenceIntervals(trace) ==
    {<<trace[i].from, trace[i].to>> :
        i \in {j \in DOMAIN trace : trace[j].name \in InferenceCallSpanNames /\ trace[j].to > trace[j].from}}
Duration(span) == span.to - span.from
RequestTime(trace) ==
    LET roots == {i \in DOMAIN trace : trace[i].name = "request" /\ trace[i].parent = NoSpan}
    IN  IF roots = {} THEN 0 ELSE Duration(trace[CHOOSE i \in roots : TRUE])

Before(a, b) == a[1] < b[1] \/ (a[1] = b[1] /\ a[2] < b[2])
\* One interval after the other, in the order of their starts: overlapping ones are joined.
Join(acc, iv) ==
    IF iv[1] <= acc.to
    THEN [acc EXCEPT !.to = IF iv[2] > @ THEN iv[2] ELSE @]
    ELSE [sum |-> acc.sum + (acc.to - acc.from), from |-> iv[1], to |-> iv[2]]

\* Mutant: two calls at the same time count twice.
EdgePodTimeSum(trace) ==
    LET times == [i \in DOMAIN trace |->
                    IF trace[i].name \in InferenceCallSpanNames THEN Duration(trace[i]) ELSE 0]
        sum == FoldLeft(LAMBDA a, b : a + b, 0, times)
    IN  IF sum > RequestTime(trace) THEN 0 ELSE RequestTime(trace) - sum

\* The intervals in the order of their starts.
InOrder(ivs) ==
    CHOOSE s \in [1..Cardinality(ivs) -> ivs] : \A i, j \in DOMAIN s : i < j => Before(s[i], s[j])
Joined(s) ==
    LET upTo[i \in DOMAIN s] == IF i = 1 THEN [sum |-> 0, from |-> s[1][1], to |-> s[1][2]]
                                ELSE Join(upTo[i - 1], s[i])
    IN  upTo[Len(s)]

\* compute_edge_pod_ms, of a request that called for inference
EdgePodTime(trace) ==
    LET all == Joined(InOrder(InferenceIntervals(trace)))
        union == all.sum + (all.to - all.from)
    IN  IF union > RequestTime(trace) THEN 0 ELSE RequestTime(trace) - union

\* A recorded trace is a tree of finished spans under the one of the request, each within
\* the time of its parent, though three threads made them; a thread's current span is the
\* innermost it is in, so that what the threads of run_inference do is under run_inference.
TreeOfSpans ==
    /\ \A t \in Threads : stack[t] # <<>> => current[t] = Last(stack[t]).span
    /\ request = "recorded" =>
        \A i \in DOMAIN spans :
           /\ spans[i].to >= spans[i].from
           /\ spans[i].parent = NoSpan <=> i = Root
           /\ i # Root => LET p == spans[spans[i].parent]
                          IN  spans[i].parent < i /\ p.from <= spans[i].from /\ spans[i].to <= p.to
           /\ spans[i].name \in InferenceCallSpanNames => spans[spans[i].parent].name = "run_inference"

\* The spans of a trace form a tree as the code means it to, and the time that the edge
\* endpoint itself took for the request is the time that no inference call was out.
TracesAreTrees ==
    /\ TreeOfSpans
    /\ request = "recorded" /\ InferenceIntervals(spans) # {} =>
          EdgePodTime(spans) =
             Cardinality({t \in spans[Root].from .. (spans[Root].to - 1) :
                             \A iv \in InferenceIntervals(spans) : t < iv[1] \/ t >= iv[2]})

=============================================================================
