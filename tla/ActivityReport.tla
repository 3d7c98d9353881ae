--------------------------- MODULE ActivityReport ---------------------------
(***************************************************************************)
(* The report of a detector's last hour: what the workers recorded of      *)
(* confidences and classes, in files named for what they count, is found   *)
(* again by taking the names apart.  A file's name is a record of its      *)
(* parts; ActivityMetrics has how a file is written.                       *)
(***************************************************************************)
EXTENDS Naturals, FiniteSetsExt, Sums

CONSTANTS
    BucketWidth,    \* ConfidenceHistogramConfig.BUCKET_WIDTH; divides 100
    Confidences,    \* in hundredths; the fraction below is cut by the code
    Classes, NoClass,
    Widths,         \* bucket widths of the versions that may have left files behind
    Pids,           \* worker processes
    MaxRecords, MaxHour

\* A confidence is cut to hundredths and never negative; NoClass is what is recorded when a
\* prediction has none.
ASSUME ActivityAssumption ==
    /\ BucketWidth \in {1, 2, 4, 5, 10, 20, 25, 50, 100}
    /\ Confidences \subseteq 0..100
    /\ Widths \subseteq Nat
    /\ NoClass \notin Classes
    /\ IsFiniteSet(Pids)

VARIABLES
    files,      \* count of each file there is, by name
    recorder,   \* of each worker: the record it is making
    hour,
    made,       \* history: what was recorded whole, with its hour
    histogram   \* what was reported, and of which hour

activityVars == <<files, recorder, hour, made, histogram>>

Kinds == {"iqs", "escalations", "confidence"}       \* audits are counted as iqs are,
                                                    \* below_threshold_iqs as escalations are
PerClass == {"escalations", "confidence"}
Idle == [of |-> "none"]
ActivityInit ==
    /\ files = <<>> /\ recorder = [w \in Pids |-> Idle]
    /\ hour = 1 /\ made = {} /\ histogram = [hour |-> 0]

NumBuckets == 100 \div BucketWidth
Invalid == NumBuckets       \* bucket_name_to_index raised ValueError

\* Mutant: 1.0 has no bucket of its own.
ConfidenceToBucketOpen(c) ==
    LET start == (c \div BucketWidth) * BucketWidth
    IN  [from |-> start, to |-> start + BucketWidth]

\* confidence_to_bucket: the last bucket holds 1.0 too.
ConfidenceToBucket(c) ==
    LET start == (c \div BucketWidth) * BucketWidth
    IN  IF c = 100 THEN [from |-> 100 - BucketWidth, to |-> 100]
        ELSE [from |-> start, to |-> start + BucketWidth]

\* bucket_name_to_index
BucketIndex(b) ==
    IF b.to - b.from # BucketWidth \/ b.from \div BucketWidth >= NumBuckets THEN Invalid
    ELSE b.from \div BucketWidth

Increment(name) ==
    files' = [n \in DOMAIN files \cup {name} |->
                (IF n \in DOMAIN files THEN files[n] ELSE 0) + (IF n = name THEN 1 ELSE 0)]

\* hourly_activity_file
FileOf(r, class, w) ==
    [of |-> r.of, class |-> class, pid |-> w, hour |-> r.hour,
     bucket |-> IF r.of = "confidence" THEN ConfidenceToBucket(r.conf) ELSE [from |-> 0, to |-> 0]]

\* record_confidence_for_metrics and record_activity_for_metrics: the file of all classes,
\* then the file of the class, of the kinds that have one.
RecordAll(w, of, conf, class) ==
    /\ recorder[w] = Idle
    /\ Cardinality(made) < MaxRecords
    /\ LET r == [of |-> of, conf |-> conf, class |-> class, hour |-> hour,
                 id |-> Cardinality(made) + 1]
       IN  /\ Increment(FileOf(r, NoClass, w))
           /\ made' = made \cup {r}
           /\ recorder' = [recorder EXCEPT ![w] =
                             IF class = NoClass \/ of \notin PerClass THEN Idle ELSE r]
    /\ UNCHANGED <<hour, histogram>>

RecordClass(w) ==
    /\ recorder[w] # Idle
    /\ Increment(FileOf(recorder[w], recorder[w].class, w))
    /\ recorder' = [recorder EXCEPT ![w] = Idle]
    /\ UNCHANGED <<hour, made, histogram>>

\* A worker of another version, with buckets of another width, left a file behind.
LeaveOldFile(width, w) ==
    /\ width # BucketWidth
    /\ LET name == [of |-> "confidence", class |-> NoClass,
                    bucket |-> [from |-> 0, to |-> width], pid |-> w, hour |-> hour]
       IN  name \notin DOMAIN files /\ Increment(name)
    /\ UNCHANGED <<recorder, hour, made, histogram>>

NextHour ==
    /\ hour < MaxHour
    /\ hour' = hour + 1
    /\ UNCHANGED <<files, recorder, made, histogram>>

\* The sum of the counts of some files
Total(S) == SumOver(files, S)

\* get_detector_activity_metrics, with get_per_class_activity and
\* get_detector_confidence_histogram, of the hour before
Report ==
    /\ hour > 1 /\ histogram.hour < hour - 1
    /\ LET past == {n \in DOMAIN files : n.hour = hour - 1}
           total(kind, class) == Total({n \in past : n.of = kind /\ n.class = class})
           found == {n \in past : n.of = "confidence" /\ BucketIndex(n.bucket) # Invalid}
           of(class) == [i \in 0..(NumBuckets - 1) |->
                           Total({n \in found : n.class = class /\ BucketIndex(n.bucket) = i})]
       IN  histogram' = [hour |-> hour - 1,
                         totals |-> [k \in Kinds \ {"confidence"} |-> total(k, NoClass)],
                         escalations |-> [c \in Classes |-> total("escalations", c)],
                         counts |-> of(NoClass),
                         byClass |-> [c \in {n.class : n \in found} \ {NoClass} |-> of(c)],
                         late |-> {w \in Pids : recorder[w] # Idle}]
    /\ UNCHANGED <<files, recorder, hour, made>>

ActivityNext ==
    \/ \E w \in Pids :
          \/ RecordClass(w)
          \/ \E conf \in Confidences, class \in Classes \cup {NoClass} :
                RecordAll(w, "confidence", conf, class)
          \/ \E of \in Kinds \ {"confidence"}, class \in Classes \cup {NoClass} :
                RecordAll(w, of, 0, class)
          \/ \E width \in Widths : LeaveOldFile(width, w)
    \/ NextHour \/ Report

\* The report of an hour has every activity and confidence recorded in it once, a confidence
\* at the place that the docstring gives: the i-th count is of [i * width, (i + 1) * width),
\* 1.0 in the last; the counts of a class are those of the records that had it, but for
\* records that were half made when the report was.  Files with other buckets do not count.
HistogramRight ==
    histogram.hour > 0 =>
        LET past == {r \in made : r.hour = histogram.hour}
            exactBut(n, S) == n <= Cardinality(S) /\ Cardinality(S) <= n + Cardinality(histogram.late)
            of(i, classes) ==
                {r \in past : /\ r.of = "confidence" /\ r.class \in classes
                              /\ \/ i * BucketWidth <= r.conf /\ r.conf < (i + 1) * BucketWidth
                                 \/ r.conf = 100 /\ i = NumBuckets - 1}
        IN  /\ \A i \in 0..(NumBuckets - 1) :
                  /\ histogram.counts[i] = Cardinality(of(i, Classes \cup {NoClass}))
                  /\ \A c \in DOMAIN histogram.byClass : exactBut(histogram.byClass[c][i], of(i, {c}))
                  /\ \A c \in Classes \ DOMAIN histogram.byClass : exactBut(0, of(i, {c}))
            /\ \A k \in Kinds \ {"confidence"} :
                  histogram.totals[k] = Cardinality({r \in past : r.of = k})
            /\ \A c \in Classes :
                  exactBut(histogram.escalations[c], {r \in past : r.of = "escalations" /\ r.class = c})

=============================================================================
