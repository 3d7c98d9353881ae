--------------------------- MODULE MetricsProofs ---------------------------
(***************************************************************************)
(* Proofs about Metrics, for any number of workers, hours and events, and  *)
(* any number of records and hours that are kept.                          *)
(***************************************************************************)
EXTENDS Metrics, FiniteSetTheorems, WellFoundedInduction, TLAPS

-----------------------------------------------------------------------------
(* The invariants. *)

\* What a worker is doing: the hour it records for, the counters that are left, the number
\* it is about to write into a file that is empty or was cleared meanwhile.
WorkerInv ==
    \A p \in Pids :
        /\ PAt(p, "idle") => proc[p] = Idle
        /\ ~PAt(p, "idle") => proc[p].h \in 1..hour
        /\ PAt(p, "count") \/ PAt(p, "write") => proc[p].todo \in {Names, Tail(Names)}
        /\ PAt(p, "write") => proc[p].n >= 1 /\ file[FileOf(p)] <= Empty

\* A counter file is empty because its process is between truncating and writing it, or
\* because that was cut short.
EmptyInv ==
    \A f \in Files :
        file[f] = Empty => f \in cut \/ (PAt(f[2], "write") /\ FileOf(f[2]) = f)

\* The collector reads a past hour, and its files only; what is cleared is older still.
CollectorInv ==
    /\ collector.pc = "read" =>
          /\ collector.h \in Hours /\ collector.h < hour
          /\ \A f \in collector.todo : f[1] = collector.h
    /\ collector.pc = "idle" => collector = IdleCollector
    /\ pending \subseteq 1..(hour - 1)
    /\ \A f \in clearing : f[1] + KeepHours < hour

\* Does p still have to count c, in the activity it is recording?
Awaits(p, c) ==
    \/ PAt(p, "count") /\ (proc[p].todo = Names \/ c = "class")
    \/ PAt(p, "write") /\ proc[p].todo = Names /\ c = "class"

\* What the counter file of p for hour h will say when p is done.
Potential(h, p, c) ==
    (IF PAt(p, "write") /\ FileOf(p) = <<h, p, c>> THEN proc[p].n ELSE ValueOf(<<h, p, c>>))
    + (IF proc[p].h = h /\ Awaits(p, c) THEN 1 ELSE 0)

\* The sum of a function on the process IDs, as the size of the set of points under it.
Under(v) == {q \in Pids \X Nat : q[2] >= 1 /\ q[2] <= v[q[1]]}
Sum(v) == Cardinality(Under(v))

AllOf(h, c) == [p \in Pids |-> Potential(h, p, c)]
UnreadOf(h, c) == [p \in Pids |-> IF <<h, p, c>> \in collector.todo THEN Potential(h, p, c) ELSE 0]

\* The counters of an hour never promise more than happened in it, and exactly that unless
\* something was cut or the hour is old enough to be cleared.
CountInv ==
    \A h \in Hours : \A c \in Counters :
        /\ Sum(AllOf(h, c)) <= begun[h]
        /\ h \notin blurred /\ h + KeepHours >= hour => Sum(AllOf(h, c)) = begun[h]

\* The same of what the collector has summed and has still to read; nothing of its hour is
\* still being recorded, or the hour is blurred.
SumInv ==
    collector.pc = "read" =>
        LET h == collector.h IN
        /\ h \in blurred \/ \A p \in Pids : proc[p].h # h
        /\ \A c \in Counters :
              /\ collector.sum[c] + Sum(UnreadOf(h, c)) <= begun[h]
              /\ h \notin blurred => collector.sum[c] + Sum(UnreadOf(h, c)) = begun[h]

\* The records: those before the next were written; the reader has one temporary file at
\* most, unless it was killed; what it prunes is a listing of all there are.
RecordInv ==
    /\ next = count["failure"] + 1
    /\ recorder.pc = "idle" => recorder = IdleRecorder
    /\ recorder.pc = "replace" =>
          next > 1 /\ next - 1 \notin failed /\ Cardinality(failed) + 1 <= MaxRecords + unpruned
    /\ recorder.pc \in {"stat", "prune"} => failed \subseteq recorder.todo
    /\ count["killReader"] = 0 => tmp = IF recorder.pc = "replace" THEN {next - 1} ELSE {}

-----------------------------------------------------------------------------
(* Sums of functions on the process IDs. *)

LEMMA UnderIsFinite ==
    ASSUME NEW v \in [Pids -> Nat]
    PROVE  IsFiniteSet(Under(v)) /\ Sum(v) \in Nat
<1> DEFINE column == [p \in Pids |-> {p} \X (1..v[p])]
           columns == {column[p] : p \in Pids}
<1>1. IsFiniteSet(Pids)
    BY MetricsAssumption
<1>2. column \in Surjection(Pids, columns)
    BY DEF Surjection
<1>3. IsFiniteSet(columns)
    <2> HIDE DEF column, columns
    <2> QED BY <1>1, <1>2, FS_Surjection
<1>4. ASSUME NEW T \in columns
      PROVE  IsFiniteSet(T)
    <2>1. PICK p \in Pids : T = {p} \X (1..v[p])
        OBVIOUS
    <2>2. IsFiniteSet({p})
        BY FS_Singleton
    <2>3. v[p] \in Int /\ 1 \in Int
        OBVIOUS
    <2>4. IsFiniteSet(1..v[p])
        BY <2>3, FS_Interval
    <2> QED BY <2>1, <2>2, <2>4, FS_Product
<1>5. IsFiniteSet(UNION columns)
    <2> HIDE DEF columns
    <2> QED BY <1>3, <1>4, FS_UNION
<1>6. Under(v) \subseteq UNION columns
    <2> SUFFICES ASSUME NEW q \in Under(v)
                 PROVE  q \in UNION columns
        OBVIOUS
    <2>1. q \in Pids \X Nat /\ q[2] \in 1..v[q[1]]
        BY DEF Under
    <2>2. q \in column[q[1]] /\ column[q[1]] \in columns
        BY <2>1
    <2> QED BY <2>2
<1> HIDE DEF columns
<1>7. IsFiniteSet(Under(v))
    BY <1>5, <1>6, FS_Subset
<1> QED BY <1>7, FS_CardinalityType DEF Sum

LEMMA SumOfLess ==
    ASSUME NEW v \in [Pids -> Nat], NEW w \in [Pids -> Nat], \A p \in Pids : v[p] <= w[p]
    PROVE  Sum(v) <= Sum(w)
<1>1. Under(v) \subseteq Under(w)
    BY DEF Under
<1> QED BY <1>1, UnderIsFinite, FS_Subset DEF Sum

LEMMA SumOfOneMore ==
    ASSUME NEW v \in [Pids -> Nat], NEW w \in [Pids -> Nat], NEW p \in Pids,
           w[p] = v[p] + 1, \A q \in Pids \ {p} : w[q] = v[q]
    PROVE  Sum(w) = Sum(v) + 1
<1> DEFINE top == <<p, v[p] + 1>>
<1>1. Under(w) = Under(v) \cup {top}
    <2>1. ASSUME NEW x \in Under(w)
          PROVE  x \in Under(v) \cup {top}
        BY <2>1 DEF Under
    <2>2. Under(v) \cup {top} \subseteq Under(w)
        BY DEF Under
    <2> QED BY <2>1, <2>2
<1>2. top \notin Under(v)
    BY DEF Under
<1> HIDE DEF top
<1> QED BY <1>1, <1>2, UnderIsFinite, FS_AddElement DEF Sum

\* What p has, taken out of the sum.
LEMMA SumWithout ==
    ASSUME NEW v \in [Pids -> Nat], NEW w \in [Pids -> Nat], NEW p \in Pids,
           w[p] = 0, \A q \in Pids \ {p} : w[q] = v[q]
    PROVE  Sum(v) = Sum(w) + v[p]
<1> DEFINE column == {p} \X (1..v[p])
<1>1. Under(v) = Under(w) \cup column
    <2>1. ASSUME NEW x \in Under(v)
          PROVE  x \in Under(w) \cup column
        BY <2>1 DEF Under
    <2>2. Under(w) \cup column \subseteq Under(v)
        BY DEF Under
    <2> QED BY <2>1, <2>2
<1>2. Under(w) \cap column = {}
    BY DEF Under
<1>3. IsFiniteSet({p}) /\ Cardinality({p}) = 1
    BY FS_Singleton
<1>4. v[p] \in Int /\ 1 \in Int /\ v[p] \in Nat
    OBVIOUS
<1>5. IsFiniteSet(1..v[p]) /\ Cardinality(1..v[p]) = v[p]
    BY <1>4, FS_Interval
<1>6. IsFiniteSet(column) /\ Cardinality(column) = 1 * v[p]
    BY <1>3, <1>5, FS_Product
<1> HIDE DEF column
<1>7. Cardinality(Under(w) \cap column) = 0
    BY <1>2, FS_EmptySet
<1> QED BY <1>1, <1>4, <1>6, <1>7, UnderIsFinite, FS_Union DEF Sum

-----------------------------------------------------------------------------
(* The oldest of some numbers, the counters of an activity, records.       *)

LEMMA OldestExists ==
    ASSUME NEW S \in SUBSET Nat, S # {}
    PROVE  Oldest(S) \in S /\ \A y \in S : Oldest(S) <= y
<1> DEFINE R == {ss \in Nat \X Nat : ss[1] < ss[2]}
<1>1. IsWellFoundedOn(R, Nat)
    BY NatLessThanWellFounded DEF OpToRel
<1>2. \A x, y \in Nat : y < x => <<y, x>> \in R
    OBVIOUS
<1> HIDE DEF R
<1>3. \E x \in S : \A y \in S : ~(<<y, x>> \in R)
    BY <1>1, WFMin
<1>4. PICK x \in S : \A y \in S : ~(<<y, x>> \in R)
    BY <1>3
<1>5. \A y \in S : ~(y < x)
    BY <1>2, <1>4
<1>6. \A y \in S : x <= y
    BY <1>5
<1> QED BY <1>6 DEF Oldest

LEMMA NamesFacts ==
    /\ Head(Names) = "all" /\ Head(Tail(Names)) = "class"
    /\ Tail(Tail(Names)) = <<>> /\ Names # <<>> /\ Tail(Names) # <<>> /\ Names # Tail(Names)
    /\ Names # Tail(Tail(Names))
BY DEF Names

LEMMA FileOfIsFile ==
    ASSUME TypeOK, WorkerInv, NEW p \in Pids, PAt(p, "count") \/ PAt(p, "write")
    PROVE  /\ FileOf(p) \in Files /\ FileOf(p)[1] = proc[p].h /\ FileOf(p)[2] = p
           /\ FileOf(p)[3] \in Counters /\ proc[p].h \in Hours
           /\ proc[p].todo \in {Names, Tail(Names)} /\ Tail(proc[p].todo) \in {Tail(Names), <<>>}
           /\ Tail(proc[p].todo) = <<>> <=> proc[p].todo = Tail(Names)
           /\ FileOf(p)[3] = IF proc[p].todo = Names THEN "all" ELSE "class"
<1>1. proc[p].h \in Hours
    <2>1. \A q \in Pids : PAt(q, "idle") \/ proc[q].h \in Hours
        BY DEF TypeOK
    <2> QED BY <2>1 DEF PAt
<1>2. proc[p].todo \in {Names, Tail(Names)}
    BY DEF WorkerInv
<1>3. Head(proc[p].todo) = IF proc[p].todo = Names THEN "all" ELSE "class"
    BY <1>2, NamesFacts
<1>4. Tail(proc[p].todo) \in {Tail(Names), <<>>} /\ (Tail(proc[p].todo) = <<>> <=> proc[p].todo = Tail(Names))
    BY <1>2, NamesFacts
<1>5. Head(proc[p].todo) \in Counters
    BY <1>3 DEF Counters
<1> QED BY <1>1, <1>2, <1>3, <1>4, <1>5 DEF FileOf, Files

\* The record of a worker.
Becomes(p, pc, h, todo, n) ==
    proc'[p].pc = pc /\ proc'[p].h = h /\ proc'[p].todo = todo /\ proc'[p].n = n

WorkerTypes == [pc : {"idle", "count", "write", "touch"}, h : Hours \cup {0},
                todo : {Names, Tail(Names), <<>>}, n : Nat]

LEMMA WorkerTyped ==
    ASSUME NEW r \in WorkerTypes, NEW pc \in {"idle", "count", "write", "touch"}
    PROVE  /\ \A n \in Nat : [r EXCEPT !.pc = pc, !.n = n] \in WorkerTypes
           /\ \A todo \in {Names, Tail(Names), <<>>} :
                 [r EXCEPT !.pc = pc, !.todo = todo] \in WorkerTypes
<1> DEFINE T == {Names, Tail(Names), <<>>}
<1>1. WorkerTypes = [pc : {"idle", "count", "write", "touch"}, h : Hours \cup {0}, todo : T, n : Nat]
    BY DEF WorkerTypes
<1> HIDE DEF T
<1>2. /\ \A n \in Nat : [r EXCEPT !.pc = pc, !.n = n] \in WorkerTypes
      /\ \A todo \in T : [r EXCEPT !.pc = pc, !.todo = todo] \in WorkerTypes
    BY <1>1
<1> QED BY <1>2 DEF T

-----------------------------------------------------------------------------
(* What a step of a worker does, in one formula per kind of step.          *)

Begins(p) ==
    /\ PAt(p, "idle") /\ Becomes(p, "count", hour, Names, 0)
    /\ begun' = [begun EXCEPT ![hour] = @ + 1] /\ folder' = TRUE
    /\ UNCHANGED <<file, last, blurred, cut, refused>>

Counts(p) ==
    /\ PAt(p, "count") /\ file[FileOf(p)] # Empty
    /\ Becomes(p, "write", proc[p].h, proc[p].todo, ValueOf(FileOf(p)) + 1)
    /\ file' = [file EXCEPT ![FileOf(p)] = Empty]
    /\ UNCHANGED <<begun, folder, last, blurred, cut, refused>>

Refuses(p) ==
    /\ PAt(p, "count") /\ file[FileOf(p)] = Empty /\ proc'[p] = Idle
    /\ refused' = refused \cup {FileOf(p)} /\ blurred' = blurred \cup {proc[p].h}
    /\ UNCHANGED <<file, begun, folder, last, cut>>

Writes(p) ==
    /\ PAt(p, "write")
    /\ Becomes(p, IF proc[p].todo = Names THEN "count" ELSE "touch", proc[p].h,
                         Tail(proc[p].todo), proc[p].n)
    /\ file' = [file EXCEPT ![FileOf(p)] = proc[p].n + 1]
    /\ UNCHANGED <<begun, folder, last, blurred, cut, refused>>

Ends(p) ==
    /\ PAt(p, "touch") /\ proc'[p] = Idle /\ last' = TRUE
    /\ UNCHANGED <<file, begun, folder, blurred, cut, refused>>

Breaks(p) ==
    /\ ~PAt(p, "idle") /\ proc'[p] = Idle
    /\ blurred' = blurred \cup {proc[p].h}
    /\ cut' = IF PAt(p, "write") THEN cut \cup {FileOf(p)} ELSE cut
    /\ UNCHANGED <<file, begun, folder, last, refused>>

WorkerMove(p) == Begins(p) \/ Counts(p) \/ Refuses(p) \/ Writes(p) \/ Ends(p) \/ Breaks(p)

WorkerFrame == UNCHANGED <<hour, monitorVars, failedVars, limit>>

LEMMA WorkerIsTyped ==
    ASSUME TypeOK
    PROVE  /\ proc \in [Pids -> WorkerTypes] /\ file \in [Files -> Nat] /\ hour \in Hours
           /\ count \in [Events -> Nat] /\ \A f \in Files : ValueOf(f) \in Nat
           /\ begun \in [Hours -> Nat]
<1>1. proc \in [Pids -> WorkerTypes] /\ file \in [Files -> Nat] /\ hour \in Hours
      /\ count \in [Events -> Nat] /\ begun \in [Hours -> Nat]
    BY DEF TypeOK, WorkerTypes
<1>2. \A f \in Files : ValueOf(f) \in Nat
    BY <1>1 DEF ValueOf, Empty
<1> QED BY <1>1, <1>2

LEMMA WorkerMoves ==
    ASSUME TypeOK, WorkerInv, NEW p \in Pids, WorkerStep(p) \/ WorkerEvent(p)
    PROVE  /\ WorkerMove(p) /\ WorkerFrame
           /\ \A q \in Pids \ {p} : proc'[q] = proc[q]
           /\ proc' \in [Pids -> WorkerTypes]
           /\ count' \in [Events -> Nat] /\ count'["failure"] = count["failure"]
           /\ count'["killReader"] = count["killReader"]
           /\ count'["killMonitor"] = count["killMonitor"]
<1> DEFINE events == /\ count' \in [Events -> Nat] /\ count'["failure"] = count["failure"]
                     /\ count'["killReader"] = count["killReader"]
                     /\ count'["killMonitor"] = count["killMonitor"]
           becomes(s) == proc' = [proc EXCEPT ![p] = s] /\ s \in WorkerTypes
<1>1. proc \in [Pids -> WorkerTypes] /\ file \in [Files -> Nat] /\ hour \in Hours
      /\ count \in [Events -> Nat] /\ \A f \in Files : ValueOf(f) \in Nat
    BY WorkerIsTyped
<1>2. ASSUME NEW e \in {"query", "disk", "kill"}, Occurs(e)
      PROVE  events
    BY <1>1, <1>2 DEF Occurs, Events
<1>3. Idle \in WorkerTypes
    BY DEF Idle, WorkerTypes
<1>4. ASSUME NEW s, becomes(s)
      PROVE  /\ proc'[p] = s /\ proc' \in [Pids -> WorkerTypes]
             /\ \A q \in Pids \ {p} : proc'[q] = proc[q]
    BY <1>1, <1>4
<1>5. proc[p] \in WorkerTypes
    BY <1>1
<1>6. PAt(p, "count") \/ PAt(p, "write") =>
         /\ FileOf(p) \in Files /\ FileOf(p)[1] = proc[p].h
         /\ proc[p].todo \in {Names, Tail(Names)} /\ Tail(proc[p].todo) \in {Tail(Names), <<>>}
         /\ Tail(proc[p].todo) = <<>> <=> proc[p].todo = Tail(Names)
    BY FileOfIsFile
<1>7. CASE BeginRecord(p)
    <2> DEFINE s == [pc |-> "count", h |-> hour, todo |-> Names, n |-> 0]
    <2>1. s \in WorkerTypes
        BY <1>1 DEF WorkerTypes
    <2>2. becomes(s)
        BY <1>7, <2>1 DEF BeginRecord, PBecomes
    <2>3. events
        BY <1>2, <1>7 DEF BeginRecord
    <2>4. Begins(p)
        BY <1>4, <1>7, <2>2 DEF BeginRecord, Begins, Becomes
    <2> QED BY <1>4, <1>7, <2>2, <2>3, <2>4 DEF BeginRecord, outsideActivity, WorkerFrame, WorkerMove
<1>8. CASE Count(p) /\ file[FileOf(p)] # Empty
    <2> DEFINE s == [proc[p] EXCEPT !.pc = "write", !.n = ValueOf(FileOf(p)) + 1]
    <2>1. ValueOf(FileOf(p)) + 1 = IF file[FileOf(p)] = Absent THEN 1 ELSE file[FileOf(p)]
        BY <1>1, <1>6, <1>8 DEF ValueOf, Count, Empty, Absent
    <2>2. ValueOf(FileOf(p)) + 1 \in Nat
        BY <1>1, <1>6, <1>8 DEF Count
    <2>3. s \in WorkerTypes
        BY <1>5, <2>2, WorkerTyped
    <2>7. /\ s.pc = "write" /\ s.h = proc[p].h /\ s.todo = proc[p].todo
          /\ s.n = ValueOf(FileOf(p)) + 1
        BY <1>5 DEF WorkerTypes
    <2>4. becomes(s)
        BY <1>8, <2>1, <2>3 DEF Count, PBecomes
    <2>5. events
        BY <1>1, <1>8 DEF Count
    <2> HIDE DEF s
    <2>6. Counts(p)
        BY <1>4, <1>8, <2>4, <2>7 DEF Count, Counts, Becomes
    <2> QED BY <1>4, <1>8, <2>4, <2>5, <2>6 DEF Count, outsideActivity, WorkerFrame, WorkerMove
<1>9. CASE Count(p) /\ file[FileOf(p)] = Empty
    <2>1. becomes(Idle)
        BY <1>3, <1>9 DEF Count, PBecomes
    <2>2. events
        BY <1>1, <1>9 DEF Count
    <2>3. Refuses(p)
        BY <1>4, <1>6, <1>9, <2>1 DEF Count, Refuses
    <2> QED BY <1>4, <1>9, <2>1, <2>2, <2>3 DEF Count, outsideActivity, WorkerFrame, WorkerMove
<1>10. CASE Write(p)
    <2> DEFINE after == IF proc[p].todo = Names THEN "count" ELSE "touch"
               s == [proc[p] EXCEPT !.pc = after, !.todo = Tail(proc[p].todo)]
    <2>1. (IF Tail(proc[p].todo) = <<>> THEN "touch" ELSE "count") = after
        BY <1>6, <1>10, NamesFacts DEF Write
    <2>2. Tail(proc[p].todo) \in {Names, Tail(Names), <<>>}
        BY <1>6, <1>10 DEF Write
    <2>3. s \in WorkerTypes
        BY <1>5, <2>2, WorkerTyped
    <2>7. /\ s.pc = after /\ s.h = proc[p].h /\ s.todo = Tail(proc[p].todo)
          /\ s.n = proc[p].n
        BY <1>5 DEF WorkerTypes
    <2>4. becomes(s)
        BY <1>10, <2>1, <2>3 DEF Write, PBecomes
    <2>5. events
        BY <1>1, <1>10 DEF Write
    <2> HIDE DEF s
    <2>6. Writes(p)
        BY <1>4, <1>10, <2>4, <2>7 DEF Write, Writes, Becomes
    <2> QED BY <1>4, <1>10, <2>4, <2>5, <2>6 DEF Write, outsideActivity, WorkerFrame, WorkerMove
<1>11. CASE WriteFails(p) \/ KillWorker(p)
    <2>1. becomes(Idle)
        BY <1>3, <1>11 DEF WriteFails, KillWorker, PBecomes
    <2>2. events
        BY <1>2, <1>11 DEF WriteFails, KillWorker
    <2>3. Breaks(p)
        BY <1>4, <1>11, <2>1 DEF WriteFails, KillWorker, Breaks, PAt
    <2> QED BY <1>4, <1>11, <2>1, <2>2, <2>3
            DEF WriteFails, KillWorker, outsideActivity, WorkerFrame, WorkerMove
<1>12. CASE Touch(p)
    <2>1. becomes(Idle)
        BY <1>3, <1>12 DEF Touch, PBecomes
    <2>2. events
        BY <1>1, <1>12 DEF Touch
    <2>3. Ends(p)
        BY <1>4, <1>12, <2>1 DEF Touch, Ends
    <2> QED BY <1>4, <1>12, <2>1, <2>2, <2>3 DEF Touch, outsideActivity, WorkerFrame, WorkerMove
<1> QED BY <1>7, <1>8, <1>9, <1>10, <1>11, <1>12 DEF WorkerStep, WorkerEvent

-----------------------------------------------------------------------------
(* What a counter file will say in the end.                                *)

LEMMA PotentialIsNat ==
    ASSUME TypeOK
    PROVE  /\ \A h \in Hours, p \in Pids, c \in Counters : Potential(h, p, c) \in Nat
           /\ \A h \in Hours, c \in Counters :
                 AllOf(h, c) \in [Pids -> Nat] /\ UnreadOf(h, c) \in [Pids -> Nat]
<1>1. \A h \in Hours, p \in Pids, c \in Counters : Potential(h, p, c) \in Nat
    <2> TAKE h \in Hours, p \in Pids, c \in Counters
    <2>1. proc[p] \in WorkerTypes /\ <<h, p, c>> \in Files /\ \A f \in Files : ValueOf(f) \in Nat
        BY WorkerIsTyped DEF Files
    <2>2. proc[p].n \in Nat /\ ValueOf(<<h, p, c>>) \in Nat
        BY <2>1 DEF WorkerTypes
    <2> QED BY <2>2 DEF Potential
<1> QED BY <1>1 DEF AllOf, UnreadOf

\* A file that no longer belongs to an activity says what it will say.
LEMMA PotentialOfPast ==
    ASSUME TypeOK, WorkerInv, NEW h \in Hours, NEW p \in Pids, NEW c \in Counters, proc[p].h # h
    PROVE  Potential(h, p, c) = ValueOf(<<h, p, c>>)
<1>1. ~(PAt(p, "write") /\ FileOf(p) = <<h, p, c>>)
    BY FileOfIsFile
<1>2. ValueOf(<<h, p, c>>) \in Nat
    BY WorkerIsTyped DEF Files
<1> QED BY <1>1, <1>2 DEF Potential

LEMMA PotentialAtLeast ==
    ASSUME TypeOK, WorkerInv, NEW h \in Hours, NEW p \in Pids, NEW c \in Counters
    PROVE  ValueOf(<<h, p, c>>) <= Potential(h, p, c)
<1>1. proc[p] \in WorkerTypes /\ ValueOf(<<h, p, c>>) \in Nat
    BY WorkerIsTyped DEF Files
<1>2. CASE PAt(p, "write") /\ FileOf(p) = <<h, p, c>>
    <2>1. file[<<h, p, c>>] <= Empty
        BY <1>2 DEF WorkerInv
    <2>2. file[<<h, p, c>>] \in Nat
        BY WorkerIsTyped DEF Files
    <2>3. ValueOf(<<h, p, c>>) = 0
        BY <2>1, <2>2 DEF ValueOf, Empty
    <2>4. Potential(h, p, c) \in Nat
        BY PotentialIsNat
    <2> QED BY <2>3, <2>4
<1>3. CASE ~(PAt(p, "write") /\ FileOf(p) = <<h, p, c>>)
    BY <1>1, <1>3 DEF Potential
<1> QED BY <1>2, <1>3

\* A step of a worker promises one more when an activity begins, keeps every promise as it
\* counts and writes, and breaks one only of an hour that it blurs.
LEMMA PotentialMoves ==
    ASSUME TypeOK, WorkerInv, NEW p \in Pids, WorkerMove(p), WorkerFrame,
           \A q \in Pids \ {p} : proc'[q] = proc[q],
           NEW h \in Hours, NEW c \in Counters
    PROVE  /\ \A q \in Pids \ {p} : Potential(h, q, c)' = Potential(h, q, c)
           /\ Begins(p) /\ h = hour => Potential(h, p, c)' = Potential(h, p, c) + 1
           /\ ~(Begins(p) /\ h = hour) =>
                 /\ Potential(h, p, c)' <= Potential(h, p, c)
                 /\ h \notin blurred' => Potential(h, p, c)' = Potential(h, p, c)
<1> DEFINE f == <<h, p, c>>
           base == IF PAt(p, "write") /\ FileOf(p) = f THEN proc[p].n ELSE ValueOf(f)
           more == IF proc[p].h = h /\ Awaits(p, c) THEN 1 ELSE 0
<1>1. /\ proc \in [Pids -> WorkerTypes] /\ file \in [Files -> Nat] /\ hour \in Hours
      /\ \A g \in Files : ValueOf(g) \in Nat
    BY WorkerIsTyped
<1>2. f \in Files /\ file[f] \in Nat /\ ValueOf(f) \in Nat
    BY <1>1 DEF Files
<1>3. proc[p].n \in Nat /\ proc[p].h \in Hours \cup {0}
    BY <1>1 DEF WorkerTypes
<1>4. Potential(h, p, c) = base + more /\ base \in Nat /\ more \in Nat
    BY <1>2, <1>3 DEF Potential
<1>5. PAt(p, "count") \/ PAt(p, "write") =>
         /\ FileOf(p) \in Files /\ FileOf(p)[2] = p /\ proc[p].todo \in {Names, Tail(Names)}
         /\ (FileOf(p) = f <=> h = proc[p].h /\ (c = "all" <=> proc[p].todo = Names))
    <2> SUFFICES ASSUME PAt(p, "count") \/ PAt(p, "write")
                 PROVE  /\ FileOf(p) \in Files /\ FileOf(p)[2] = p
                        /\ proc[p].todo \in {Names, Tail(Names)}
                        /\ (FileOf(p) = f <=> h = proc[p].h /\ (c = "all" <=> proc[p].todo = Names))
        OBVIOUS
    <2>1. /\ FileOf(p) \in Files /\ FileOf(p)[1] = proc[p].h /\ FileOf(p)[2] = p
          /\ proc[p].todo \in {Names, Tail(Names)}
          /\ FileOf(p)[3] = IF proc[p].todo = Names THEN "all" ELSE "class"
        BY FileOfIsFile
    <2>2. FileOf(p) = <<FileOf(p)[1], FileOf(p)[2], FileOf(p)[3]>>
        BY <2>1 DEF Files
    <2> HIDE DEF f
    <2>3. FileOf(p) = f <=> f = <<proc[p].h, p, IF proc[p].todo = Names THEN "all" ELSE "class">>
        BY <2>1, <2>2
    <2> USE DEF f
    <2>4. c \in {"all", "class"}
        BY DEF Counters
    <2> QED BY <2>1, <2>3, <2>4
<1>6. \A q \in Pids \ {p} : Potential(h, q, c)' = Potential(h, q, c)
    <2> SUFFICES ASSUME NEW q \in Pids \ {p}
                 PROVE  Potential(h, q, c)' = Potential(h, q, c)
        OBVIOUS
    <2>1. <<h, q, c>> \in Files /\ (PAt(p, "count") \/ PAt(p, "write") => FileOf(p) # <<h, q, c>>)
        BY <1>5 DEF Files
    <2>2. file'[<<h, q, c>>] = file[<<h, q, c>>]
        BY <1>1, <2>1 DEF WorkerMove, Begins, Counts, Refuses, Writes, Ends, Breaks
    <2>3. proc'[q] = proc[q]
        OBVIOUS
    <2> QED BY <2>2, <2>3 DEF Potential, PAt, FileOf, ValueOf, Awaits
<1>7. CASE Begins(p)
    <2>1. PAt(p, "idle") /\ proc[p] = Idle
        BY <1>7 DEF Begins, WorkerInv
    <2>2. Potential(h, p, c) = ValueOf(f)
        BY <1>2, <2>1 DEF Potential, PAt, Awaits
    <2>3. ValueOf(f)' = ValueOf(f)
        BY <1>7 DEF Begins, ValueOf
    <2>4. ~PAt(p, "write")' /\ proc'[p].h = hour /\ Awaits(p, c)'
        BY <1>7 DEF Begins, Becomes, PAt, Awaits
    <2>5. Potential(h, p, c)' = ValueOf(f) + (IF hour = h THEN 1 ELSE 0)
        BY <2>3, <2>4 DEF Potential
    <2> QED BY <1>2, <1>6, <1>7, <2>2, <2>5
<1>8. CASE Counts(p)
    <2>1. PAt(p, "count") /\ ~PAt(p, "write") /\ PAt(p, "write")' /\ ~Begins(p)
        BY <1>8 DEF Counts, Becomes, PAt, Begins
    <2>2. FileOf(p)' = FileOf(p) /\ proc'[p].h = proc[p].h /\ proc'[p].todo = proc[p].todo
        BY <1>8 DEF Counts, Becomes, FileOf
    <2>3. CASE FileOf(p) = f
        <3>1. Potential(h, p, c) = ValueOf(f) + 1
            BY <1>2, <1>5, <2>1, <2>3 DEF Potential, Awaits, PAt, Counters
        <3>2. Potential(h, p, c)' = ValueOf(f) + 1 + (IF proc'[p].h = h /\ Awaits(p, c)' THEN 1 ELSE 0)
            BY <1>8, <2>1, <2>2, <2>3 DEF Potential, Counts, Becomes
        <3>3. ~Awaits(p, c)'
            BY <1>5, <2>1, <2>2, <2>3, NamesFacts DEF Awaits, PAt, Counters
        <3> QED BY <1>2, <1>6, <2>1, <3>1, <3>2, <3>3
    <2>4. CASE FileOf(p) # f
        <3>1. file'[f] = file[f]
            BY <1>1, <1>2, <1>5, <1>8, <2>1, <2>4 DEF Counts
        <3>2. ValueOf(f)' = ValueOf(f)
            BY <3>1 DEF ValueOf
        <3>3. proc[p].h = h => (Awaits(p, c)' <=> Awaits(p, c))
            BY <1>5, <2>1, <2>2, <2>4 DEF Awaits, PAt, Counters
        <3> QED BY <1>2, <1>6, <2>1, <2>2, <2>4, <3>2, <3>3 DEF Potential
    <2> QED BY <2>3, <2>4
<1>9. CASE Writes(p)
    <2>1. /\ PAt(p, "write") /\ ~PAt(p, "count") /\ ~PAt(p, "write")' /\ ~Begins(p)
          /\ proc[p].n >= 1 /\ proc'[p].h = proc[p].h
        BY <1>9 DEF Writes, Becomes, PAt, Begins, WorkerInv
    <2>2. PAt(p, "count")' <=> proc[p].todo = Names
        BY <1>9 DEF Writes, Becomes, PAt
    <2>3. proc'[p].todo = Tail(proc[p].todo)
        BY <1>9 DEF Writes, Becomes
    <2>4. Awaits(p, c)' <=> proc[p].todo = Names /\ c = "class"
        BY <1>5, <2>1, <2>2, <2>3, NamesFacts DEF Awaits
    <2>5. Awaits(p, c) <=> proc[p].todo = Names /\ c = "class"
        BY <2>1 DEF Awaits
    <2>6. CASE FileOf(p) = f
        <3>1. file'[f] = proc[p].n + 1
            BY <1>1, <1>2, <1>9, <2>6 DEF Writes
        <3>2. ValueOf(f)' = proc[p].n
            BY <1>3, <2>1, <3>1 DEF ValueOf, Empty
        <3> QED BY <1>2, <1>3, <1>6, <2>1, <2>4, <2>5, <2>6, <3>2 DEF Potential
    <2>7. CASE FileOf(p) # f
        <3>1. file'[f] = file[f]
            BY <1>1, <1>2, <1>5, <1>9, <2>1, <2>7 DEF Writes
        <3>2. ValueOf(f)' = ValueOf(f)
            BY <3>1 DEF ValueOf
        <3> QED BY <1>2, <1>6, <2>1, <2>4, <2>5, <2>7, <3>2 DEF Potential
    <2> QED BY <2>6, <2>7
<1>10. CASE Ends(p)
    <2>1. PAt(p, "touch") /\ ~PAt(p, "count") /\ ~PAt(p, "write") /\ ~Begins(p)
        BY <1>10 DEF Ends, PAt, Begins
    <2>2. ~PAt(p, "count")' /\ ~PAt(p, "write")' /\ ValueOf(f)' = ValueOf(f)
        BY <1>10 DEF Ends, Idle, PAt, ValueOf
    <2> QED BY <1>2, <1>6, <2>1, <2>2 DEF Potential, Awaits
<1>11. CASE Refuses(p) \/ Breaks(p)
    <2>1. ~PAt(p, "count")' /\ ~PAt(p, "write")' /\ ValueOf(f)' = ValueOf(f)
        BY <1>11 DEF Refuses, Breaks, Idle, PAt, ValueOf
    <2>2. Potential(h, p, c)' = ValueOf(f)
        BY <1>2, <2>1 DEF Potential, Awaits
    <2>3. ~Begins(p)
        BY <1>11 DEF Refuses, Breaks, PAt, Begins
    <2>4. h \notin blurred' => Potential(h, p, c) = ValueOf(f)
        <3>1. h \notin blurred' => proc[p].h # h
            BY <1>11 DEF Refuses, Breaks
        <3> QED BY <3>1, PotentialOfPast
    <2> QED BY <1>6, <2>2, <2>3, <2>4, PotentialAtLeast
<1> QED BY <1>7, <1>8, <1>9, <1>10, <1>11 DEF WorkerMove

-----------------------------------------------------------------------------
(* Types.                                                                  *)

ActivityTypes ==
    /\ hour \in Hours /\ file \in [Files -> Nat] /\ {folder, last} \subseteq BOOLEAN
    /\ proc \in [Pids -> WorkerTypes]
    /\ \A p \in Pids : PAt(p, "idle") \/ proc[p].h \in Hours
    /\ cut \subseteq Files /\ refused \subseteq Files /\ blurred \subseteq Hours
    /\ begun \in [Hours -> Nat]

MonitorTypes ==
    /\ collector \in [pc : {"idle", "read"}, h : Hours \cup {0}, todo : SUBSET Files,
                      sum : [Counters -> Nat]]
    /\ reporter \in [pc : {"idle", "send"}, todo : SUBSET Hours]
    /\ pending \subseteq Hours /\ collected \subseteq Hours /\ clearing \subseteq Files
    /\ sent \in [Hours -> Nat] /\ total \in [Hours -> [Counters -> Nat]]

RecordTypes ==
    /\ recorder \in [pc : {"idle", "replace", "clean", "stat", "prune"}, todo : SUBSET Records]
    /\ tmp \subseteq Records /\ failed \subseteq Records /\ expired \subseteq Records
    /\ next \in Nat /\ unpruned \in Nat

EventTypes == count \in [Events -> Nat] /\ limit \in Limits

LEMMA TypesInParts ==
    TypeOK <=> ActivityTypes /\ MonitorTypes /\ RecordTypes /\ EventTypes
BY DEF TypeOK, ActivityTypes, MonitorTypes, RecordTypes, EventTypes, WorkerTypes

LEMMA TypesInPartsNext ==
    ActivityTypes' /\ MonitorTypes' /\ RecordTypes' /\ EventTypes' => TypeOK'
BY DEF TypeOK, ActivityTypes, MonitorTypes, RecordTypes, EventTypes, WorkerTypes

LEMMA WorkerTypesKept ==
    ASSUME TypeOK, WorkerInv, NEW p \in Pids, WorkerStep(p) \/ WorkerEvent(p)
    PROVE  TypeOK'
<1>1. /\ WorkerMove(p) /\ WorkerFrame /\ \A q \in Pids \ {p} : proc'[q] = proc[q]
      /\ proc' \in [Pids -> WorkerTypes]
      /\ count' \in [Events -> Nat] /\ count'["failure"] = count["failure"]
    BY WorkerMoves
<1>2. ActivityTypes /\ MonitorTypes /\ RecordTypes /\ EventTypes
    BY TypesInParts
<1>3. MonitorTypes' /\ RecordTypes' /\ EventTypes'
    <2>1. Records' = Records
        BY <1>1 DEF Records
    <2> QED BY <1>1, <1>2, <2>1
            DEF WorkerFrame, monitorVars, failedVars, MonitorTypes, RecordTypes, EventTypes
<1>4. hour' = hour
    BY <1>1 DEF WorkerFrame
<1>5. /\ PAt(p, "count") \/ PAt(p, "write") => FileOf(p) \in Files
      /\ ~PAt(p, "idle") => proc[p].h \in Hours
    BY <1>2, FileOfIsFile DEF ActivityTypes
<1>6. file' \in [Files -> Nat] /\ cut' \subseteq Files /\ refused' \subseteq Files
    <2>1. proc[p].n + 1 \in Nat /\ Empty \in Nat
        BY <1>2 DEF ActivityTypes, WorkerTypes, Empty
    <2> QED BY <1>1, <1>2, <1>5, <2>1
            DEF WorkerMove, Begins, Counts, Refuses, Writes, Ends, Breaks, ActivityTypes
<1>7. blurred' \subseteq Hours
    BY <1>1, <1>2, <1>5
       DEF WorkerMove, Begins, Counts, Refuses, Writes, Ends, Breaks, ActivityTypes, PAt
<1>8. begun' \in [Hours -> Nat]
    BY <1>1, <1>2 DEF WorkerMove, Begins, Counts, Refuses, Writes, Ends, Breaks, ActivityTypes
<1>9. folder' \in BOOLEAN /\ last' \in BOOLEAN
    BY <1>1, <1>2 DEF WorkerMove, Begins, Counts, Refuses, Writes, Ends, Breaks, ActivityTypes
<1>10. \A q \in Pids : PAt(q, "idle")' \/ proc'[q].h \in Hours
    <2>1. PAt(p, "idle")' \/ proc'[p].h \in Hours
        BY <1>1, <1>2, <1>5
           DEF WorkerMove, Begins, Counts, Refuses, Writes, Ends, Breaks, ActivityTypes, PAt,
               Becomes, Idle
    <2> QED BY <1>1, <1>2, <2>1 DEF ActivityTypes, PAt
<1>11. Hours' = Hours
    BY DEF Hours
<1>12. ActivityTypes'
    BY <1>1, <1>2, <1>4, <1>6, <1>7, <1>8, <1>9, <1>10 DEF ActivityTypes
<1> QED BY <1>3, <1>12, TypesInPartsNext

LEMMA CollectorRecords ==
    ASSUME MonitorTypes
    PROVE  /\ IdleCollector \in [pc : {"idle", "read"}, h : Hours \cup {0}, todo : SUBSET Files,
                                 sum : [Counters -> Nat]]
           /\ collector.pc \in {"idle", "read"} /\ collector.h \in Hours \cup {0}
           /\ collector.todo \subseteq Files /\ collector.sum \in [Counters -> Nat]
           /\ reporter.todo \subseteq Hours
<1>1. IdleCollector.sum \in [Counters -> Nat]
    BY DEF IdleCollector
<1> QED BY <1>1 DEF MonitorTypes, IdleCollector

\* What the steps of the status monitor leave alone.
MonitorFrame == UNCHANGED <<hour, folder, last, proc, begun, refused, cut, failedVars, limit>>

LEMMA MonitorMoves ==
    ASSUME TypeOK, CollectorInv, CollectStep \/ ReportStep \/ ClearStep \/ KillMonitor
    PROVE  /\ MonitorFrame /\ count' \in [Events -> Nat]
           /\ count'["failure"] = count["failure"] /\ count'["killReader"] = count["killReader"]
           /\ blurred \subseteq blurred' /\ blurred' \subseteq Hours
           /\ file' \in [Files -> Nat]
           /\ \A f \in Files : file'[f] # file[f] => file'[f] = Absent /\ f \in clearing
<1>1. EventTypes /\ ActivityTypes /\ MonitorTypes
    BY TypesInParts
<1>2. ASSUME NEW e \in {"outage", "killMonitor"}, Occurs(e)
      PROVE  /\ count' \in [Events -> Nat] /\ count'["failure"] = count["failure"]
             /\ count'["killReader"] = count["killReader"]
    BY <1>1, <1>2 DEF Occurs, Events, EventTypes
<1>3. CASE CollectStart
    <2>1. hour - 1 > 0 => hour - 1 \in Hours
        BY <1>1, MetricsAssumption DEF ActivityTypes, Hours
    <2> QED BY <1>1, <1>3, <2>1
            DEF CollectStart, outsideMonitor, MonitorFrame, EventTypes, ActivityTypes
<1>4. CASE CollectRead
    BY <1>1, <1>4 DEF CollectRead, outsideMonitor, MonitorFrame, EventTypes, ActivityTypes
<1>5. CASE CollectStore
    BY <1>1, <1>5 DEF CollectStore, outsideMonitor, MonitorFrame, EventTypes, ActivityTypes
<1>6. CASE ReportStart
    BY <1>1, <1>6 DEF ReportStart, outsideMonitor, MonitorFrame, EventTypes, ActivityTypes
<1>7. CASE ReportOne
    <2>1. UNCHANGED count \/ Occurs("outage")
        BY <1>7 DEF ReportOne
    <2>2. /\ count' \in [Events -> Nat] /\ count'["failure"] = count["failure"]
          /\ count'["killReader"] = count["killReader"]
        BY <1>1, <1>2, <2>1 DEF EventTypes
    <2>3. UNCHANGED <<outsideMonitor, blurred>>
        BY <1>7 DEF ReportOne
    <2> QED BY <1>1, <2>2, <2>3 DEF outsideMonitor, MonitorFrame, ActivityTypes
<1>8. CASE ClearStart
    BY <1>1, <1>8 DEF ClearStart, outsideMonitor, MonitorFrame, EventTypes, ActivityTypes
<1>9. CASE ClearOne
    <2>1. PICK f \in clearing :
              /\ file' = [file EXCEPT ![f] = Absent]
              /\ blurred' = IF f \in collector.todo THEN blurred \cup {f[1]} ELSE blurred
        BY <1>9 DEF ClearOne
    <2>2. f \in Files /\ f[1] \in Hours /\ Absent \in Nat
        BY <1>1 DEF MonitorTypes, Files, Absent
    <2>3. file' \in [Files -> Nat]
          /\ \A g \in Files : file'[g] # file[g] => file'[g] = Absent /\ g \in clearing
        BY <1>1, <2>1, <2>2 DEF ActivityTypes
    <2> QED BY <1>1, <1>9, <2>1, <2>2, <2>3 DEF ClearOne, MonitorFrame, EventTypes, ActivityTypes
<1>10. CASE KillMonitor
    BY <1>1, <1>2, <1>10 DEF KillMonitor, outsideMonitor, MonitorFrame, ActivityTypes
<1> QED BY <1>3, <1>4, <1>5, <1>6, <1>7, <1>8, <1>9, <1>10 DEF CollectStep, ReportStep, ClearStep

LEMMA MonitorTypesKept ==
    ASSUME TypeOK, CollectorInv, CollectStep \/ ReportStep \/ ClearStep \/ KillMonitor
    PROVE  TypeOK'
<1> DEFINE CR == [pc : {"idle", "read"}, h : Hours \cup {0}, todo : SUBSET Files,
                  sum : [Counters -> Nat]]
<1>1. EventTypes /\ ActivityTypes /\ MonitorTypes /\ RecordTypes
    BY TypesInParts
<1>2. /\ MonitorFrame /\ count' \in [Events -> Nat] /\ count'["failure"] = count["failure"]
      /\ blurred' \subseteq Hours /\ file' \in [Files -> Nat]
    BY MonitorMoves
<1>3. ActivityTypes' /\ RecordTypes' /\ EventTypes'
    <2>1. Records' = Records
        BY <1>2 DEF Records
    <2>2. RecordTypes' /\ EventTypes'
        BY <1>1, <1>2, <2>1 DEF MonitorFrame, failedVars, RecordTypes, EventTypes
    <2> QED BY <1>1, <1>2, <2>2 DEF MonitorFrame, ActivityTypes, PAt
<1>4. /\ IdleCollector \in CR /\ collector \in CR
      /\ collector.pc \in {"idle", "read"} /\ collector.h \in Hours \cup {0}
      /\ collector.todo \subseteq Files /\ collector.sum \in [Counters -> Nat]
      /\ reporter.todo \subseteq Hours
    BY <1>1, CollectorRecords DEF MonitorTypes
<1>5. [pc |-> "idle", todo |-> {}] \in [pc : {"idle", "send"}, todo : SUBSET Hours]
    OBVIOUS
<1>6. CASE CollectStart
    <2>1. hour - 1 \in Hours
        BY <1>1, <1>6, MetricsAssumption DEF CollectStart, ActivityTypes, Hours
    <2> DEFINE files == {f \in Files : f[1] = hour - 1 /\ file[f] # Absent}
    <2>2. files \subseteq Files
        OBVIOUS
    <2>3. collector' = [IdleCollector EXCEPT !.pc = "read", !.h = hour - 1, !.todo = files]
        BY <1>6 DEF CollectStart
    <2> HIDE DEF files
    <2>4. collector' \in CR
        BY <1>4, <2>1, <2>2, <2>3
    <2> QED BY <1>1, <1>3, <1>6, <2>1, <2>4, TypesInPartsNext DEF CollectStart, MonitorTypes
<1>7. CASE CollectRead
    <2>1. PICK f \in collector.todo :
              collector' = [collector EXCEPT !.todo = collector.todo \ {f},
                                !.sum = [collector.sum EXCEPT ![f[3]] = @ + ValueOf(f)]]
        BY <1>7 DEF CollectRead
    <2>2. f \in Files /\ f[3] \in Counters /\ ValueOf(f) \in Nat
        BY <1>4, <2>1, WorkerIsTyped DEF Files
    <2> DEFINE sum == [collector.sum EXCEPT ![f[3]] = @ + ValueOf(f)]
    <2>3. sum \in [Counters -> Nat]
        BY <1>4, <2>2
    <2> HIDE DEF sum
    <2>4. collector' \in CR
        BY <1>4, <2>1, <2>3 DEF sum
    <2> QED BY <1>1, <1>3, <1>7, <2>4, TypesInPartsNext DEF CollectRead, MonitorTypes
<1>8. CASE CollectStore
    <2>1. collector.h \in Hours
        BY <1>8 DEF CollectStore, CollectorInv
    <2>2. total' \in [Hours -> [Counters -> Nat]]
        BY <1>1, <1>4, <1>8, <2>1 DEF CollectStore, MonitorTypes
    <2> QED BY <1>1, <1>3, <1>4, <1>8, <2>1, <2>2, TypesInPartsNext
            DEF CollectStore, MonitorTypes
<1>9. CASE ReportStart
    BY <1>1, <1>3, <1>9, TypesInPartsNext DEF ReportStart, MonitorTypes
<1>10. CASE ReportOne
    <2> DEFINE h == CHOOSE x \in reporter.todo : \A y \in reporter.todo : x <= y
               rest == [pc |-> IF reporter.todo = {h} THEN "idle" ELSE "send",
                        todo |-> reporter.todo \ {h}]
               over == [pc |-> "idle", todo |-> {}]
               RR == [pc : {"idle", "send"}, todo : SUBSET Hours]
    <2>1. rest \in RR /\ over \in RR
        BY <1>4, <1>5
    <2>2. [sent EXCEPT ![h] = @ + 1] \in [Hours -> Nat]
        <3> HIDE DEF h
        <3>1. sent \in [Hours -> Nat]
            BY <1>1 DEF MonitorTypes
        <3>2. CASE h \in Hours
            BY <3>1, <3>2
        <3>3. CASE h \notin Hours
            BY <3>1, <3>3
        <3> QED BY <3>2, <3>3
    <2>3. /\ reporter' \in {rest, over} /\ pending' \in {pending, pending \ {h}}
          /\ sent' \in {sent, [sent EXCEPT ![h] = @ + 1]}
          /\ UNCHANGED <<collector, clearing, collected, total>>
        BY <1>10 DEF ReportOne
    <2> HIDE DEF h, rest, over
    <2> QED BY <1>1, <1>3, <2>1, <2>2, <2>3, TypesInPartsNext DEF MonitorTypes
<1>11. CASE ClearStart
    BY <1>1, <1>3, <1>11, TypesInPartsNext DEF ClearStart, MonitorTypes
<1>12. CASE ClearOne
    BY <1>1, <1>3, <1>12, TypesInPartsNext DEF ClearOne, MonitorTypes
<1>13. CASE KillMonitor
    BY <1>1, <1>3, <1>4, <1>5, <1>13, TypesInPartsNext DEF KillMonitor, MonitorTypes
<1> QED BY <1>6, <1>7, <1>8, <1>9, <1>10, <1>11, <1>12, <1>13
        DEF CollectStep, ReportStep, ClearStep

-----------------------------------------------------------------------------
(* The records of failed escalations.                                      *)

RecordFrame == UNCHANGED <<hour, activityVars, monitorVars, blurred, limit>>

LEMMA RecordMoves ==
    ASSUME TypeOK, RecorderStep \/ RecorderEvent
    PROVE  /\ RecordFrame /\ count' \in [Events -> Nat]
           /\ count["failure"] <= count'["failure"]
           /\ count["killReader"] <= count'["killReader"]
<1>1. EventTypes
    BY TypesInParts
<1>2. ASSUME NEW e \in {"failure", "expire", "killReader"}, Occurs(e)
      PROVE  /\ count' \in [Events -> Nat] /\ count["failure"] <= count'["failure"]
             /\ count["killReader"] <= count'["killReader"]
    BY <1>1, <1>2 DEF Occurs, Events, EventTypes
<1>3. CASE UNCHANGED count
    <2>1. count["failure"] \in Nat /\ count["killReader"] \in Nat
        BY <1>1 DEF EventTypes, Events
    <2>2. RecordFrame
        BY <1>3, <2>1 DEF RecorderStep, RecorderEvent, Replace, Clean, Stat, Prune, WriteTmp, KillReader,
                          Expire, RecordFrame, outsideFailed
    <2> QED BY <1>1, <1>3, <2>1, <2>2 DEF EventTypes
<1>4. CASE RecorderStep
    BY <1>3, <1>4 DEF RecorderStep, Replace, Clean, Stat, Prune
<1>5. CASE RecorderEvent
    BY <1>2, <1>5 DEF RecorderEvent, WriteTmp, KillReader, Expire, RecordFrame, outsideFailed
<1> QED BY <1>4, <1>5

\* The records that are there are finitely many numbers.
LEMMA RecordsAreNumbers ==
    ASSUME TypeOK
    PROVE  /\ Records \subseteq Nat \ {0}
           /\ \A S \in SUBSET Records : IsFiniteSet(S) /\ Cardinality(S) \in Nat
<1>1. count["failure"] \in Nat /\ 1 \in Int /\ count["failure"] \in Int
    BY WorkerIsTyped DEF Events
<1>2. IsFiniteSet(1..count["failure"])
    BY <1>1, FS_Interval
<1>3. ASSUME NEW S \in SUBSET Records
      PROVE  IsFiniteSet(S) /\ Cardinality(S) \in Nat
    <2>1. IsFiniteSet(S)
        BY <1>2, FS_Subset DEF Records
    <2> QED BY <2>1, FS_CardinalityType
<1> QED BY <1>1, <1>3 DEF Records

LEMMA RecordTypesKept ==
    ASSUME TypeOK, RecordInv, RecorderStep \/ RecorderEvent
    PROVE  TypeOK'
<1> DEFINE RR(S) == [pc : {"idle", "replace", "clean", "stat", "prune"}, todo : SUBSET S]
<1>1. EventTypes /\ ActivityTypes /\ MonitorTypes /\ RecordTypes
    BY TypesInParts
<1>2. /\ RecordFrame /\ count' \in [Events -> Nat] /\ count["failure"] <= count'["failure"]
    BY RecordMoves
<1>3. ActivityTypes' /\ MonitorTypes' /\ EventTypes'
    BY <1>1, <1>2 DEF RecordFrame, activityVars, monitorVars, ActivityTypes, MonitorTypes,
                      EventTypes, PAt
<1>4. count["failure"] \in Nat /\ count'["failure"] \in Nat /\ next = count["failure"] + 1
    BY <1>1, <1>2 DEF EventTypes, Events, RecordInv
<1>5. Records \subseteq Records'
    BY <1>2, <1>4 DEF Records
<1>6. recorder \in RR(Records') /\ recorder.todo \subseteq Records
      /\ recorder.pc \in {"idle", "replace", "clean", "stat", "prune"}
    BY <1>1, <1>5 DEF RecordTypes
<1>7. IdleRecorder \in RR(Records')
    BY DEF IdleRecorder
<1>8. CASE WriteTmp
    <2>1. count'["failure"] = count["failure"] + 1
        BY <1>1, <1>8 DEF WriteTmp, Occurs, EventTypes, Events
    <2>2. next \in Records' /\ next + 1 \in Nat
        BY <1>4, <2>1 DEF Records
    <2>3. [recorder EXCEPT !.pc = "replace"] \in RR(Records')
        BY <1>6
    <2> QED BY <1>1, <1>3, <1>5, <1>8, <2>2, <2>3, TypesInPartsNext
            DEF WriteTmp, RGoto, RecordTypes
<1>9. CASE Replace
    <2>1. next - 1 \in Records
        BY <1>4, <1>9 DEF Replace, RAt, RecordInv, Records
    <2>2. [recorder EXCEPT !.pc = "clean"] \in RR(Records')
        BY <1>6
    <2> QED BY <1>1, <1>3, <1>5, <1>9, <2>1, <2>2, TypesInPartsNext
            DEF Replace, RGoto, RecordTypes
<1>10. CASE Clean
    <2>1. [pc |-> "stat", todo |-> failed] \in RR(Records')
        BY <1>1, <1>5 DEF RecordTypes
    <2> QED BY <1>1, <1>3, <1>5, <1>10, <2>1, TypesInPartsNext DEF Clean, RecordTypes
<1>11. CASE Stat
    <2>1. [recorder EXCEPT !.pc = "prune"] \in RR(Records')
        BY <1>6
    <2> QED BY <1>1, <1>3, <1>5, <1>7, <1>11, <2>1, TypesInPartsNext DEF Stat, RecordTypes
<1>12. CASE Prune
    <2> DEFINE x == Oldest(recorder.todo)
    <2> HIDE DEF x
    <2>1. [recorder EXCEPT !.todo = @ \ {x}] \in RR(Records')
        BY <1>5, <1>6
    <2>2. /\ recorder' \in {IdleRecorder, [recorder EXCEPT !.todo = @ \ {x}]}
          /\ unpruned' \in {0, unpruned} /\ failed' \in {failed, failed \ {x}}
          /\ UNCHANGED <<tmp, next, expired>>
        BY <1>12 DEF Prune, x
    <2> QED BY <1>1, <1>3, <1>5, <1>7, <2>1, <2>2, TypesInPartsNext DEF RecordTypes
<1>13. CASE KillReader
    BY <1>1, <1>3, <1>5, <1>7, <1>13, TypesInPartsNext DEF KillReader, RecordTypes
<1>14. CASE Expire
    <2>1. failed \in SUBSET Nat /\ failed # {}
        BY <1>1, <1>14, RecordsAreNumbers DEF RecordTypes, Expire
    <2>2. Oldest(failed) \in failed
        BY <2>1, OldestExists
    <2> QED BY <1>1, <1>3, <1>5, <1>6, <1>14, <2>2, TypesInPartsNext DEF Expire, RecordTypes
<1> QED BY <1>8, <1>9, <1>10, <1>11, <1>12, <1>13, <1>14 DEF RecorderStep, RecorderEvent

-----------------------------------------------------------------------------
(* The invariants about the workers and their files.                       *)

FilesInv == WorkerInv /\ EmptyInv /\ RefusedOnlyByCut /\ ActiveCountKnown

LEMMA FilesInvByWorker ==
    ASSUME TypeOK, FilesInv, NEW p \in Pids, WorkerStep(p) \/ WorkerEvent(p)
    PROVE  FilesInv'
<1>1. /\ WorkerMove(p) /\ WorkerFrame /\ \A q \in Pids \ {p} : proc'[q] = proc[q]
      /\ proc' \in [Pids -> WorkerTypes]
    BY WorkerMoves DEF FilesInv
<1>2. /\ proc \in [Pids -> WorkerTypes] /\ file \in [Files -> Nat] /\ hour \in Hours
      /\ \A f \in Files : ValueOf(f) \in Nat
    BY WorkerIsTyped
<1>3. hour \in Nat /\ hour >= 1 /\ hour' = hour
    BY <1>1, <1>2, MetricsAssumption DEF WorkerFrame, Hours
<1>4. PAt(p, "count") \/ PAt(p, "write") =>
         /\ FileOf(p) \in Files /\ FileOf(p)[1] = proc[p].h /\ FileOf(p)[2] = p
         /\ proc[p].todo \in {Names, Tail(Names)} /\ Tail(proc[p].todo) \in {Tail(Names), <<>>}
         /\ Tail(proc[p].todo) = <<>> <=> proc[p].todo = Tail(Names)
    BY FileOfIsFile DEF FilesInv
<1>5. ~PAt(p, "idle") => proc[p].h \in 1..hour
    BY DEF FilesInv, WorkerInv
<1>6. \A q \in Pids \ {p} : (PAt(q, "count") \/ PAt(q, "write")) => FileOf(q)[2] = q /\ FileOf(q) \in Files
    BY FileOfIsFile DEF FilesInv
<1>7. \A f \in Files : f[2] # p => file'[f] = file[f]
    BY <1>1, <1>2, <1>4 DEF WorkerMove, Begins, Counts, Refuses, Writes, Ends, Breaks
<1>8. cut \subseteq cut'
    BY <1>1 DEF WorkerMove, Begins, Counts, Refuses, Writes, Ends, Breaks
<1>9. WorkerInv'
    <2>1. ASSUME NEW q \in Pids \ {p}
          PROVE  /\ PAt(q, "idle")' => proc'[q] = Idle'
                 /\ ~PAt(q, "idle")' => proc'[q].h \in 1..hour'
                 /\ PAt(q, "count")' \/ PAt(q, "write")' => proc'[q].todo \in {Names, Tail(Names)}
                 /\ PAt(q, "write")' => proc'[q].n >= 1 /\ file'[FileOf(q)'] <= Empty
        <3>1. proc'[q] = proc[q] /\ FileOf(q)' = FileOf(q)
            BY <1>1 DEF FileOf
        <3>2. PAt(q, "write") => file'[FileOf(q)] = file[FileOf(q)]
            BY <1>6, <1>7
        <3> QED BY <1>3, <3>1, <3>2 DEF FilesInv, WorkerInv, PAt, Idle
    <2>2. /\ PAt(p, "idle")' => proc'[p] = Idle
          /\ ~PAt(p, "idle")' => proc'[p].h \in 1..hour
          /\ PAt(p, "count")' \/ PAt(p, "write")' => proc'[p].todo \in {Names, Tail(Names)}
          /\ PAt(p, "write")' => proc'[p].n >= 1 /\ file'[FileOf(p)'] <= Empty
        <3>1. CASE Begins(p)
            BY <1>3, <3>1 DEF Begins, Becomes, PAt
        <3>2. CASE Counts(p)
            <4>1. FileOf(p)' = FileOf(p) /\ FileOf(p) \in Files /\ PAt(p, "count")
                BY <1>4, <3>2 DEF Counts, Becomes, FileOf
            <4>2. ValueOf(FileOf(p)) + 1 >= 1
                BY <1>2, <4>1
            <4>3. file'[FileOf(p)] = Empty /\ Empty <= Empty
                BY <1>2, <3>2, <4>1 DEF Counts, Empty
            <4> QED BY <1>4, <1>5, <3>2, <4>1, <4>2, <4>3 DEF Counts, Becomes, PAt
        <3>3. CASE Writes(p)
            <4>1. proc[p].todo = Names => Tail(proc[p].todo) = Tail(Names)
                OBVIOUS
            <4> QED BY <1>4, <1>5, <3>3, <4>1 DEF Writes, Becomes, PAt
        <3>4. CASE Refuses(p) \/ Ends(p) \/ Breaks(p)
            BY <3>4 DEF Refuses, Ends, Breaks, PAt, Idle
        <3> QED BY <1>1, <3>1, <3>2, <3>3, <3>4 DEF WorkerMove
    <2>3. \A q \in Pids :
             /\ PAt(q, "idle")' => proc'[q] = Idle'
             /\ ~PAt(q, "idle")' => proc'[q].h \in 1..hour'
             /\ PAt(q, "count")' \/ PAt(q, "write")' => proc'[q].todo \in {Names, Tail(Names)}
             /\ PAt(q, "write")' => proc'[q].n >= 1 /\ file'[FileOf(q)'] <= Empty
        <3> SUFFICES ASSUME NEW q \in Pids
                     PROVE  /\ PAt(q, "idle")' => proc'[q] = Idle'
                            /\ ~PAt(q, "idle")' => proc'[q].h \in 1..hour'
                            /\ PAt(q, "count")' \/ PAt(q, "write")' => proc'[q].todo \in {Names, Tail(Names)}
                            /\ PAt(q, "write")' => proc'[q].n >= 1 /\ file'[FileOf(q)'] <= Empty
            OBVIOUS
        <3>1. CASE q = p
            BY <1>3, <2>2, <3>1 DEF Idle
        <3>2. CASE q # p
            BY <2>1, <3>2
        <3> QED BY <3>1, <3>2
    <2> QED BY <2>3 DEF WorkerInv, Names
<1>10. EmptyInv'
    <2> SUFFICES ASSUME NEW f \in Files, file'[f] = Empty
                 PROVE  f \in cut' \/ (PAt(f[2], "write")' /\ FileOf(f[2])' = f)
        BY DEF EmptyInv, Files, Hours, Counters, Empty
    <2>1. f[2] \in Pids
        BY DEF Files
    <2>2. CASE f[2] # p
        <3>1. file[f] = Empty /\ proc'[f[2]] = proc[f[2]]
            BY <1>1, <1>7, <2>1, <2>2
        <3> QED BY <1>8, <3>1 DEF FilesInv, EmptyInv, PAt, FileOf
    <2>3. CASE f[2] = p /\ file[f] = Empty /\ f \notin cut
        <3>1. PAt(p, "write") /\ FileOf(p) = f
            BY <2>3 DEF FilesInv, EmptyInv
        <3>2. proc[p].n >= 1 /\ proc[p].n \in Nat
            BY <1>2, <3>1 DEF FilesInv, WorkerInv, WorkerTypes
        <3>3. CASE Writes(p)
            <4>1. file'[f] = proc[p].n + 1
                BY <1>2, <3>1, <3>3 DEF Writes
            <4> QED BY <3>2, <4>1 DEF Empty
        <3>4. CASE Breaks(p)
            BY <3>1, <3>4 DEF Breaks
        <3> QED BY <1>1, <3>1, <3>3, <3>4 DEF WorkerMove, Begins, Counts, Refuses, Ends, PAt
    <2>4. CASE f[2] = p /\ file[f] # Empty
        <3>1. CASE Counts(p)
            <4>1. FileOf(p) = f
                BY <1>2, <2>4, <3>1 DEF Counts
            <4>2. PAt(p, "write")' /\ FileOf(p)' = FileOf(p)
                BY <3>1 DEF Counts, Becomes, PAt, FileOf
            <4> QED BY <2>4, <4>1, <4>2
        <3>2. CASE Writes(p)
            <4>1. proc[p].n >= 1 /\ proc[p].n \in Nat /\ FileOf(p) \in Files
                BY <1>2, <1>4, <3>2 DEF FilesInv, WorkerInv, WorkerTypes, Writes
            <4>2. file'[f] = file[f] \/ file'[f] = proc[p].n + 1
                BY <1>2, <3>2, <4>1 DEF Writes
            <4> QED BY <2>4, <4>1, <4>2 DEF Empty
        <3> QED BY <1>1, <2>4, <3>1, <3>2 DEF WorkerMove, Begins, Refuses, Ends, Breaks
    <2>5. CASE f[2] = p /\ f \in cut
        BY <1>8, <2>5
    <2> QED BY <2>2, <2>3, <2>4, <2>5
<1>11. RefusedOnlyByCut'
    <2>1. CASE Refuses(p)
        <3>1. FileOf(p) \in cut
            BY <1>4, <2>1 DEF Refuses, FilesInv, EmptyInv, PAt
        <3> QED BY <1>8, <2>1, <3>1 DEF Refuses, FilesInv, RefusedOnlyByCut
    <2>2. CASE ~Refuses(p)
        BY <1>1, <1>8, <2>2
           DEF WorkerMove, Begins, Counts, Writes, Ends, Breaks, FilesInv, RefusedOnlyByCut
    <2> QED BY <2>1, <2>2
<1>12. ActiveCountKnown'
    <2>1. CASE Begins(p) \/ Counts(p) \/ Writes(p)
        <3>1. ~PAt(p, "idle")'
            BY <2>1 DEF Begins, Counts, Writes, Becomes, PAt
        <3> QED BY <3>1 DEF ActiveCountKnown
    <2>2. CASE Ends(p)
        BY <2>2 DEF Ends, ActiveCountKnown, ActiveCountFails
    <2>3. CASE Refuses(p) \/ Breaks(p)
        BY <2>3 DEF Refuses, Breaks, ActiveCountKnown
    <2> QED BY <1>1, <2>1, <2>2, <2>3 DEF WorkerMove
<1> QED BY <1>9, <1>10, <1>11, <1>12 DEF FilesInv

LEMMA FilesInvByMonitor ==
    ASSUME TypeOK, FilesInv, CollectorInv, CollectStep \/ ReportStep \/ ClearStep \/ KillMonitor
    PROVE  FilesInv'
<1>1. /\ MonitorFrame /\ blurred \subseteq blurred' /\ file' \in [Files -> Nat]
      /\ \A f \in Files : file'[f] # file[f] => file'[f] = Absent /\ f \in clearing
    BY MonitorMoves
<1>2. \A p \in Pids : PAt(p, "write") => FileOf(p) \in Files
    BY FileOfIsFile DEF FilesInv
<1>3. \A p \in Pids : /\ proc'[p] = proc[p] /\ FileOf(p)' = FileOf(p)
                      /\ \A pc : PAt(p, pc)' <=> PAt(p, pc)
    BY <1>1 DEF MonitorFrame, PAt, FileOf
<1>4. Absent <= Empty /\ Absent # Empty
    BY DEF Absent, Empty
<1>5. \A p \in Pids : PAt(p, "write") => file'[FileOf(p)] <= Empty
    BY <1>1, <1>2, <1>4 DEF FilesInv, WorkerInv
<1>6. WorkerInv'
    BY <1>1, <1>3, <1>5 DEF MonitorFrame, FilesInv, WorkerInv, Idle
<1>7. EmptyInv'
    BY <1>1, <1>3, <1>4 DEF MonitorFrame, FilesInv, EmptyInv, PAt, FileOf
<1>8. RefusedOnlyByCut'
    BY <1>1 DEF MonitorFrame, FilesInv, RefusedOnlyByCut
<1>9. ActiveCountKnown'
    BY <1>1 DEF MonitorFrame, FilesInv, ActiveCountKnown, ActiveCountFails, PAt
<1> QED BY <1>6, <1>7, <1>8, <1>9 DEF FilesInv

LEMMA FilesInvByOthers ==
    ASSUME TypeOK, FilesInv, hour' \in Nat, hour <= hour', UNCHANGED <<activityVars, blurred>>
    PROVE  FilesInv'
<1>1. hour \in Nat /\ \A p \in Pids : proc[p].h \in 1..hour => proc[p].h \in 1..hour'
    BY MetricsAssumption, WorkerIsTyped DEF Hours
<1> QED BY <1>1 DEF activityVars, FilesInv, WorkerInv, EmptyInv, RefusedOnlyByCut, ActiveCountKnown,
                    ActiveCountFails, PAt, FileOf, Idle

-----------------------------------------------------------------------------
(* The counters, what the collector makes of them, and the payloads.       *)

LEMMA PotentialIsNatNext ==
    TypeOK' =>
        (/\ \A h \in Hours, p \in Pids, c \in Counters : Potential(h, p, c) \in Nat
         /\ \A h \in Hours, c \in Counters :
               AllOf(h, c) \in [Pids -> Nat] /\ UnreadOf(h, c) \in [Pids -> Nat])'
<1>1. TypeOK =>
        /\ \A h \in Hours, p \in Pids, c \in Counters : Potential(h, p, c) \in Nat
        /\ \A h \in Hours, c \in Counters :
              AllOf(h, c) \in [Pids -> Nat] /\ UnreadOf(h, c) \in [Pids -> Nat]
    BY PotentialIsNat
<1> QED BY <1>1, PTL

LEMMA SumOfNothing ==
    ASSUME NEW v \in [Pids -> Nat], \A p \in Pids : v[p] = 0
    PROVE  Sum(v) = 0
<1>1. Under(v) = {}
    BY DEF Under
<1> QED BY <1>1, FS_EmptySet DEF Sum

LEMMA SumOfSame ==
    ASSUME NEW v \in [Pids -> Nat], NEW w \in [Pids -> Nat], \A p \in Pids : w[p] = v[p]
    PROVE  Sum(w) = Sum(v)
<1>1. Sum(v) <= Sum(w) /\ Sum(w) <= Sum(v)
    BY SumOfLess
<1> QED BY <1>1, UnderIsFinite

LEMMA CollectorInvKept ==
    ASSUME TypeOK, CollectorInv,
           \/ CollectStep \/ ReportStep \/ ClearStep \/ KillMonitor
           \/ hour' \in Nat /\ hour <= hour' /\ UNCHANGED monitorVars
    PROVE  CollectorInv'
<1>1. EventTypes /\ ActivityTypes /\ MonitorTypes
    BY TypesInParts
<1>2. hour \in Nat /\ hour >= 1 /\ KeepHours \in Nat /\ Hours \subseteq Nat
    BY <1>1, MetricsAssumption DEF ActivityTypes, Hours
<1>3. /\ collector.pc \in {"idle", "read"} /\ collector.todo \subseteq Files /\ clearing \subseteq Files
      /\ pending \subseteq Hours
    BY <1>1, CollectorRecords DEF MonitorTypes
<1>4. \A f \in Files : f[1] \in Nat
    BY <1>2 DEF Files
<1>5. CASE hour' \in Nat /\ hour <= hour' /\ UNCHANGED monitorVars
    <2>0. hour' \in Nat /\ hour <= hour'
        BY <1>5
    <2>1. \A f \in clearing : f[1] + KeepHours < hour'
        BY <1>2, <1>3, <1>4, <1>5 DEF CollectorInv
    <2>2. pending \subseteq 1..(hour' - 1)
        <3>1. pending \subseteq 1..(hour - 1)
            BY DEF CollectorInv
        <3>2. \A a, b \in Nat : a <= b => 1..(a - 1) \subseteq 1..(b - 1)
            OBVIOUS
        <3> QED BY <1>2, <2>0, <3>1, <3>2
    <2>3. collector.h \in Hours /\ collector.h < hour => collector.h < hour'
        <3>1. \A x \in Nat : x < hour => x < hour'
            BY <1>2, <2>0
        <3> QED BY <1>2, <3>1
    <2> QED BY <1>5, <2>1, <2>2, <2>3 DEF monitorVars, CollectorInv, IdleCollector
<1>6. CASE CollectStart
    <2> DEFINE files == {f \in Files : f[1] = hour - 1 /\ file[f] # Absent}
    <2>1. collector' = [IdleCollector EXCEPT !.pc = "read", !.h = hour - 1, !.todo = files]
        BY <1>6 DEF CollectStart
    <2>2. hour - 1 \in Hours /\ hour - 1 < hour /\ \A f \in files : f[1] = hour - 1
        BY <1>1, <1>2, <1>6, MetricsAssumption DEF CollectStart, ActivityTypes, Hours
    <2> HIDE DEF files
    <2>3. collector'.pc = "read" /\ collector'.h = hour - 1 /\ collector'.todo = files
        BY <2>1 DEF IdleCollector
    <2>4. UNCHANGED <<hour, pending, clearing>>
        BY <1>6 DEF CollectStart, outsideMonitor
    <2> QED BY <2>2, <2>3, <2>4 DEF CollectorInv
<1>7. CASE CollectRead
    <2>1. PICK f \in collector.todo :
              collector' = [collector EXCEPT !.todo = collector.todo \ {f},
                                !.sum = [collector.sum EXCEPT ![f[3]] = @ + ValueOf(f)]]
        BY <1>7 DEF CollectRead
    <2>2. /\ collector'.pc = collector.pc /\ collector'.h = collector.h
          /\ collector'.todo \subseteq collector.todo
        BY <1>1, <2>1 DEF MonitorTypes
    <2>3. UNCHANGED <<hour, pending, clearing>> /\ collector.pc = "read"
        BY <1>7 DEF CollectRead, outsideMonitor
    <2> QED BY <2>2, <2>3 DEF CollectorInv
<1>8. CASE CollectStore
    <2>1. collector.h \in 1..(hour - 1)
        BY <1>2, <1>8 DEF CollectStore, CollectorInv, Hours
    <2>2. /\ UNCHANGED <<hour, clearing>> /\ collector' = IdleCollector
          /\ pending' = pending \cup {collector.h}
        BY <1>8 DEF CollectStore, outsideMonitor
    <2> QED BY <2>1, <2>2 DEF CollectorInv, IdleCollector
<1>9. CASE ReportStep
    <2>1. pending' \subseteq pending /\ UNCHANGED <<hour, clearing, collector>>
        BY <1>9 DEF ReportStep, ReportStart, ReportOne, outsideMonitor
    <2> QED BY <2>1 DEF CollectorInv, IdleCollector
<1>10. CASE ClearStart
    BY <1>10 DEF ClearStart, outsideMonitor, CollectorInv, IdleCollector
<1>11. CASE ClearOne
    <2>1. clearing' \subseteq clearing /\ UNCHANGED <<hour, pending, collector>>
        BY <1>11 DEF ClearOne
    <2> QED BY <2>1 DEF CollectorInv, IdleCollector
<1>12. CASE KillMonitor
    BY <1>12 DEF KillMonitor, outsideMonitor, CollectorInv, IdleCollector
<1> QED BY <1>5, <1>6, <1>7, <1>8, <1>9, <1>10, <1>11, <1>12 DEF CollectStep, ClearStep

CountingInv == CountInv /\ SumInv /\ TotalsExact

LEMMA CountingByWorker ==
    ASSUME TypeOK, WorkerInv, CollectorInv, CountingInv,
           NEW p \in Pids, WorkerStep(p) \/ WorkerEvent(p)
    PROVE  CountingInv'
<1>1. /\ WorkerMove(p) /\ WorkerFrame /\ \A q \in Pids \ {p} : proc'[q] = proc[q]
      /\ UNCHANGED <<hour, collector, pending, total>>
    BY WorkerMoves DEF WorkerFrame, monitorVars
<1>2. TypeOK'
    BY WorkerTypesKept
<1>3. ActivityTypes /\ MonitorTypes
    BY TypesInParts
<1>4. hour \in Nat /\ Hours \subseteq Nat /\ hour \in Hours /\ begun \in [Hours -> Nat]
    BY <1>3, MetricsAssumption DEF ActivityTypes, Hours
<1>5. \A h \in Hours : begun'[h] = IF Begins(p) /\ h = hour THEN begun[h] + 1 ELSE begun[h]
    BY <1>1, <1>4 DEF WorkerMove, Begins, Counts, Refuses, Writes, Ends, Breaks, PAt
<1>6. blurred \subseteq blurred'
    BY <1>1 DEF WorkerMove, Begins, Counts, Refuses, Writes, Ends, Breaks
<1>7. ASSUME NEW h \in Hours, NEW c \in Counters
      PROVE  /\ \A q \in Pids \ {p} : Potential(h, q, c)' = Potential(h, q, c)
             /\ Begins(p) /\ h = hour => Potential(h, p, c)' = Potential(h, p, c) + 1
             /\ ~(Begins(p) /\ h = hour) =>
                   /\ Potential(h, p, c)' <= Potential(h, p, c)
                   /\ h \notin blurred' => Potential(h, p, c)' = Potential(h, p, c)
    BY <1>1, PotentialMoves
<1>8. ASSUME NEW h \in Hours, NEW c \in Counters
      PROVE  AllOf(h, c) \in [Pids -> Nat] /\ AllOf(h, c)' \in [Pids -> Nat]
             /\ UnreadOf(h, c) \in [Pids -> Nat] /\ UnreadOf(h, c)' \in [Pids -> Nat]
             /\ \A q \in Pids : Potential(h, q, c) \in Nat
    BY <1>2, PotentialIsNat, PotentialIsNatNext
<1>9. CountInv'
    <2> SUFFICES ASSUME NEW h \in Hours, NEW c \in Counters
                 PROVE  /\ Sum(AllOf(h, c)') <= begun'[h]
                        /\ h \notin blurred' /\ h + KeepHours >= hour =>
                              Sum(AllOf(h, c)') = begun'[h]
        BY <1>1 DEF CountInv, Hours, Counters, Sum, Under, AllOf
    <2> DEFINE v == AllOf(h, c)
               w == AllOf(h, c)'
    <2>1. \A q \in Pids : v[q] = Potential(h, q, c) /\ w[q] = Potential(h, q, c)'
        BY DEF AllOf
    <2>2. v \in [Pids -> Nat] /\ w \in [Pids -> Nat]
        BY <1>8
    <2>3. Sum(v) <= begun[h] /\ (h \notin blurred /\ h + KeepHours >= hour => Sum(v) = begun[h])
        BY DEF CountingInv, CountInv
    <2>4. /\ \A q \in Pids \ {p} : w[q] = v[q]
          /\ Begins(p) /\ h = hour => w[p] = v[p] + 1
          /\ ~(Begins(p) /\ h = hour) => w[p] <= v[p] /\ (h \notin blurred' => w[p] = v[p])
        BY <1>7, <2>1
    <2>5. begun'[h] = IF Begins(p) /\ h = hour THEN begun[h] + 1 ELSE begun[h]
        BY <1>5
    <2> HIDE DEF v, w
    <2>6. Sum(v) \in Nat /\ Sum(w) \in Nat /\ begun[h] \in Nat
        BY <1>4, <2>2, UnderIsFinite
    <2>7. CASE Begins(p) /\ h = hour
        <3>1. Sum(w) = Sum(v) + 1
            BY <2>2, <2>4, <2>7, SumOfOneMore
        <3> QED BY <1>6, <2>3, <2>5, <2>6, <2>7, <3>1 DEF w
    <2>8. CASE ~(Begins(p) /\ h = hour)
        <3>1. \A q \in Pids : w[q] <= v[q]
            BY <2>2, <2>4, <2>8
        <3>2. Sum(w) <= Sum(v)
            BY <2>2, <3>1, SumOfLess
        <3>3. h \notin blurred' => Sum(w) = Sum(v)
            <4>1. h \notin blurred' => \A q \in Pids : w[q] = v[q]
                BY <2>4, <2>8
            <4> QED BY <2>2, <4>1, SumOfSame
        <3> QED BY <1>6, <2>3, <2>5, <2>6, <2>8, <3>2, <3>3 DEF w
    <2> QED BY <2>7, <2>8
<1>10. SumInv'
    <2> SUFFICES ASSUME collector.pc = "read", NEW h, h = collector.h
                 PROVE  /\ h \in blurred' \/ \A q \in Pids : proc'[q].h # h
                        /\ \A c \in Counters :
                              /\ collector.sum[c] + Sum(UnreadOf(h, c)') <= begun'[h]
                              /\ h \notin blurred' =>
                                    collector.sum[c] + Sum(UnreadOf(h, c)') = begun'[h]
        BY <1>1 DEF SumInv, Counters, Sum, Under, UnreadOf
    <2>1. h \in Hours /\ h < hour /\ collector.sum \in [Counters -> Nat]
        BY <1>3, CollectorRecords DEF CollectorInv
    <2>2. h \in blurred \/ \A q \in Pids : proc[q].h # h
        BY DEF CountingInv, SumInv
    <2>3. proc'[p].h \in {proc[p].h, hour, 0}
        BY <1>1 DEF WorkerMove, Begins, Counts, Refuses, Writes, Ends, Breaks, Becomes, Idle
    <2>4. h \in blurred' \/ \A q \in Pids : proc'[q].h # h
        BY <1>1, <1>4, <1>6, <2>1, <2>2, <2>3 DEF Hours
    <2>5. ASSUME NEW c \in Counters
          PROVE  /\ collector.sum[c] + Sum(UnreadOf(h, c)') <= begun'[h]
                 /\ h \notin blurred' => collector.sum[c] + Sum(UnreadOf(h, c)') = begun'[h]
        <3> DEFINE v == UnreadOf(h, c)
                   w == UnreadOf(h, c)'
        <3>1. v \in [Pids -> Nat] /\ w \in [Pids -> Nat]
            BY <1>8, <2>1
        <3>2. \A q \in Pids :
                 /\ v[q] = IF <<h, q, c>> \in collector.todo THEN Potential(h, q, c) ELSE 0
                 /\ w[q] = IF <<h, q, c>> \in collector.todo THEN Potential(h, q, c)' ELSE 0
            BY <1>1 DEF UnreadOf
        <3>3. ~(Begins(p) /\ h = hour) /\ begun'[h] = begun[h] /\ begun[h] \in Nat
            <4>1. h \in Nat /\ h < hour /\ h \in Hours
                BY <1>4, <2>1
            <4>2. h # hour
                BY <1>4, <4>1
            <4> QED BY <1>4, <1>5, <4>1, <4>2
        <3>4. \A q \in Pids : /\ Potential(h, q, c)' <= Potential(h, q, c)
                              /\ h \notin blurred' => Potential(h, q, c)' = Potential(h, q, c)
            BY <1>7, <1>8, <2>1, <3>3
        <3>5. collector.sum[c] + Sum(v) <= begun[h]
              /\ (h \notin blurred => collector.sum[c] + Sum(v) = begun[h])
            BY DEF CountingInv, SumInv
        <3> HIDE DEF v, w
        <3>6. \A q \in Pids : w[q] <= v[q]
            <4> SUFFICES ASSUME NEW q \in Pids
                         PROVE  w[q] <= v[q]
                OBVIOUS
            <4>1. CASE <<h, q, c>> \in collector.todo
                BY <3>2, <3>4, <4>1
            <4>2. CASE <<h, q, c>> \notin collector.todo
                <5>1. w[q] = 0 /\ v[q] = 0
                    BY <3>2, <4>2
                <5> QED BY <5>1
            <4> QED BY <4>1, <4>2
        <3>7. Sum(w) <= Sum(v) /\ Sum(w) \in Nat /\ Sum(v) \in Nat
            BY <3>1, <3>6, SumOfLess, UnderIsFinite
        <3>8. h \notin blurred' => Sum(w) = Sum(v)
            <4>1. h \notin blurred' => \A q \in Pids : w[q] = v[q]
                BY <3>2, <3>4
            <4> QED BY <3>1, <4>1, SumOfSame
        <3>9. collector.sum[c] \in Nat
            BY <2>1
        <3>10. /\ collector.sum[c] + Sum(w) <= begun'[h]
               /\ h \notin blurred' => collector.sum[c] + Sum(w) = begun'[h]
            BY <1>6, <3>3, <3>5, <3>7, <3>8, <3>9
        <3> QED BY <3>10 DEF w
    <2> QED BY <2>4, <2>5
<1>11. TotalsExact'
    <2>1. \A h \in Hours : begun[h] <= begun'[h] /\ (h < hour => begun'[h] = begun[h])
        BY <1>4, <1>5
    <2>2. \A h \in pending : h < hour
        BY <1>4 DEF CollectorInv
    <2>3. \A h \in Hours, c \in Counters : total[h][c] \in Nat /\ begun[h] \in Nat /\ begun'[h] \in Nat
        BY <1>3, <1>4, <1>5 DEF MonitorTypes
    <2> QED BY <1>1, <1>6, <2>1, <2>2, <2>3 DEF CountingInv, TotalsExact
<1> QED BY <1>9, <1>10, <1>11 DEF CountingInv

\* The status monitor adds to no counter, and takes only from what is old.
LEMMA PotentialByMonitor ==
    ASSUME TypeOK, WorkerInv, CollectorInv, CollectStep \/ ReportStep \/ ClearStep \/ KillMonitor,
           NEW h \in Hours, NEW p \in Pids, NEW c \in Counters
    PROVE  /\ Potential(h, p, c)' <= Potential(h, p, c)
           /\ file'[<<h, p, c>>] = file[<<h, p, c>>] => Potential(h, p, c)' = Potential(h, p, c)
           /\ h + KeepHours >= hour => Potential(h, p, c)' = Potential(h, p, c)
<1> DEFINE f == <<h, p, c>>
<1>1. /\ MonitorFrame
      /\ \A g \in Files : file'[g] # file[g] => file'[g] = Absent /\ g \in clearing
    BY MonitorMoves
<1>2. f \in Files /\ ValueOf(f) \in Nat /\ proc[p] \in WorkerTypes /\ hour \in Hours
    BY WorkerIsTyped DEF Files
<1>3. proc[p].n \in Nat /\ Potential(h, p, c) \in Nat
    BY <1>2, PotentialIsNat DEF WorkerTypes
<1>4. /\ PAt(p, "write")' <=> PAt(p, "write")
      /\ FileOf(p)' = FileOf(p) /\ proc'[p] = proc[p]
      /\ Awaits(p, c)' <=> Awaits(p, c)
    BY <1>1 DEF MonitorFrame, PAt, FileOf, Awaits
<1>5. file'[f] = file[f] => ValueOf(f)' = ValueOf(f)
    BY DEF ValueOf
<1>6. file'[f] # file[f] => ValueOf(f)' = 0 /\ f \in clearing
    BY <1>1, <1>2 DEF ValueOf, Absent, Empty
<1>7. f \in clearing => ~(h + KeepHours >= hour)
    <2>1. f \in clearing => h + KeepHours < hour
        BY DEF CollectorInv
    <2>2. h \in Nat /\ hour \in Nat /\ KeepHours \in Nat
        BY <1>2, MetricsAssumption DEF Hours
    <2> QED BY <2>1, <2>2
<1> HIDE DEF f
<1>8. Potential(h, p, c)' = Potential(h, p, c)
         \/ (Potential(h, p, c)' <= Potential(h, p, c) /\ f \in clearing /\ file'[f] # file[f])
    <2>1. CASE file'[f] = file[f]
        BY <1>4, <1>5, <2>1 DEF Potential, f
    <2>2. CASE file'[f] # file[f]
        BY <1>2, <1>3, <1>4, <1>6, <2>2 DEF Potential, f
    <2> QED BY <2>1, <2>2
<1> QED BY <1>3, <1>7, <1>8 DEF f

LEMMA CountByMonitor ==
    ASSUME TypeOK, WorkerInv, CollectorInv, CountInv,
           CollectStep \/ ReportStep \/ ClearStep \/ KillMonitor
    PROVE  CountInv'
<1>1. MonitorFrame /\ blurred \subseteq blurred'
    BY MonitorMoves
<1>2. TypeOK'
    BY MonitorTypesKept
<1>3. begun \in [Hours -> Nat] /\ hour' = hour /\ begun' = begun
    BY <1>1, WorkerIsTyped DEF MonitorFrame
<1> SUFFICES ASSUME NEW h \in Hours, NEW c \in Counters
             PROVE  /\ Sum(AllOf(h, c)') <= begun[h]
                    /\ h \notin blurred' /\ h + KeepHours >= hour => Sum(AllOf(h, c)') = begun[h]
    BY <1>3 DEF CountInv, Hours, Counters, Sum, Under, AllOf
<1> DEFINE v == AllOf(h, c)
           w == AllOf(h, c)'
<1>4. \A q \in Pids : v[q] = Potential(h, q, c) /\ w[q] = Potential(h, q, c)'
    BY DEF AllOf
<1>5. v \in [Pids -> Nat] /\ w \in [Pids -> Nat]
    BY <1>2, PotentialIsNat, PotentialIsNatNext
<1>6. \A q \in Pids : /\ Potential(h, q, c)' <= Potential(h, q, c)
                      /\ h + KeepHours >= hour => Potential(h, q, c)' = Potential(h, q, c)
    BY PotentialByMonitor
<1>7. Sum(v) <= begun[h] /\ (h \notin blurred /\ h + KeepHours >= hour => Sum(v) = begun[h])
    BY DEF CountInv
<1> HIDE DEF v, w
<1>8. \A q \in Pids : /\ w[q] <= v[q]
                      /\ h + KeepHours >= hour => w[q] = v[q]
    BY <1>4, <1>6
<1>9. Sum(w) <= Sum(v) /\ Sum(w) \in Nat /\ Sum(v) \in Nat /\ begun[h] \in Nat
    BY <1>3, <1>5, <1>8, SumOfLess, UnderIsFinite
<1>10. h + KeepHours >= hour => Sum(w) = Sum(v)
    <2>1. h + KeepHours >= hour => \A q \in Pids : w[q] = v[q]
        BY <1>8
    <2> QED BY <1>5, <2>1, SumOfSame
<1>11. /\ Sum(w) <= begun[h]
       /\ h \notin blurred' /\ h + KeepHours >= hour => Sum(w) = begun[h]
    BY <1>1, <1>7, <1>9, <1>10
<1> QED BY <1>11 DEF w

\* What the collector has still to read, by the files in S that it has listed.
Unread(S, h, c) == [p \in Pids |-> IF <<h, p, c>> \in S THEN Potential(h, p, c) ELSE 0]

\* Nothing of hour h is still being recorded, or it is blurred.
Settled(h) == h \in blurred \/ \A p \in Pids : proc[p].h # h

\* SumInv of one hour and counter.
AtMost(h, c, sum, S) == sum[c] + Sum(Unread(S, h, c)) <= begun[h]
Exact(h, c, sum, S) == sum[c] + Sum(Unread(S, h, c)) = begun[h]
SumsUp(h, c, sum, S) == AtMost(h, c, sum, S) /\ (h \notin blurred => Exact(h, c, sum, S))

LEMMA SumInvBySums ==
    /\ SumInv <=> (collector.pc = "read" =>
                      /\ Settled(collector.h)
                      /\ \A c \in Counters : SumsUp(collector.h, c, collector.sum, collector.todo))
    /\ SumInv' <=> (collector'.pc = "read" =>
                      /\ Settled(collector.h)'
                      /\ \A c \in Counters : SumsUp(collector.h, c, collector.sum, collector.todo)')
BY DEF SumInv, Settled, SumsUp, AtMost, Exact, Unread, UnreadOf, Counters

\* When an hour begins to be collected nothing was read.
LEMMA SumsUpAtStart ==
    ASSUME TypeOK, WorkerInv, CountInv, NEW h \in Hours, NEW c \in Counters, h = hour - 1
    PROVE  LET S == {f \in Files : f[1] = h /\ file[f] # Absent} IN
           /\ AtMost(h, c, IdleCollector.sum, S)
           /\ Settled(h) /\ h \notin blurred => Exact(h, c, IdleCollector.sum, S)
<1> DEFINE S == {f \in Files : f[1] = h /\ file[f] # Absent}
           v == AllOf(h, c)
           w == Unread(S, h, c)
<1>1. v \in [Pids -> Nat] /\ \A p \in Pids : v[p] = Potential(h, p, c) /\ v[p] \in Nat
    BY PotentialIsNat DEF AllOf
<1>2. w \in [Pids -> Nat] /\ \A p \in Pids : w[p] = IF <<h, p, c>> \in S THEN v[p] ELSE 0
    <2> HIDE DEF S
    <2> QED BY <1>1 DEF Unread
<1>3. h + KeepHours >= hour /\ begun[h] \in Nat
    BY MetricsAssumption, WorkerIsTyped DEF Hours
<1>4. Sum(v) <= begun[h] /\ (h \notin blurred => Sum(v) = begun[h])
    BY <1>3 DEF CountInv
<1>5. Settled(h) /\ h \notin blurred => \A p \in Pids : w[p] = v[p]
    <2> SUFFICES ASSUME Settled(h), h \notin blurred, NEW p \in Pids, <<h, p, c>> \notin S
                 PROVE  v[p] = 0
        BY <1>2
    <2>1. <<h, p, c>> \in Files
        BY DEF Files
    <2>2. ValueOf(<<h, p, c>>) = 0
        BY <2>1 DEF ValueOf, Absent, Empty
    <2>3. Potential(h, p, c) = ValueOf(<<h, p, c>>)
        BY PotentialOfPast DEF Settled
    <2> QED BY <1>1, <2>2, <2>3
<1>6. IdleCollector.sum[c] = 0
    BY DEF IdleCollector
<1> HIDE DEF v, w, S
<1>7. \A p \in Pids : w[p] <= v[p]
    <2> SUFFICES ASSUME NEW p \in Pids
                 PROVE  w[p] <= v[p]
        OBVIOUS
    <2>1. v[p] \in Nat /\ (w[p] = v[p] \/ w[p] = 0)
        BY <1>1, <1>2
    <2> QED BY <2>1
<1>8. Sum(w) <= Sum(v) /\ Sum(v) \in Nat /\ Sum(w) \in Nat
    BY <1>1, <1>2, <1>7, SumOfLess, UnderIsFinite
<1>9. Settled(h) /\ h \notin blurred => Sum(w) = Sum(v)
    BY <1>1, <1>2, <1>5, SumOfSame
<1>10. /\ 0 + Sum(w) <= begun[h]
       /\ Settled(h) /\ h \notin blurred => 0 + Sum(w) = begun[h]
    BY <1>3, <1>4, <1>8, <1>9
<1> QED BY <1>6, <1>10 DEF AtMost, Exact, w, S

\* A file that is read moves from what is unread to the sum.
LEMMA SumsUpByReading ==
    ASSUME TypeOK, WorkerInv, CollectorInv, collector.pc = "read", NEW h, h = collector.h,
           Settled(h), NEW c \in Counters, NEW f \in collector.todo,
           SumsUp(h, c, collector.sum, collector.todo)
    PROVE  SumsUp(h, c, [collector.sum EXCEPT ![f[3]] = @ + ValueOf(f)], collector.todo \ {f})
<1> DEFINE v == Unread(collector.todo, h, c)
           w == Unread(collector.todo \ {f}, h, c)
           sum == [collector.sum EXCEPT ![f[3]] = @ + ValueOf(f)]
<1>1. /\ h \in Hours /\ f \in Files /\ f[1] = h /\ f[2] \in Pids /\ f[3] \in Counters
      /\ f = <<h, f[2], f[3]>> /\ collector.sum \in [Counters -> Nat] /\ begun[h] \in Nat
    BY TypesInParts, CollectorRecords, WorkerIsTyped DEF CollectorInv, Files
<1>2. \A p \in Pids : Potential(h, p, c) \in Nat
    BY <1>1, PotentialIsNat
<1>3. v \in [Pids -> Nat] /\ w \in [Pids -> Nat]
    BY <1>2 DEF Unread
<1>4. \A p \in Pids : /\ v[p] = IF <<h, p, c>> \in collector.todo THEN Potential(h, p, c) ELSE 0
                      /\ w[p] = IF <<h, p, c>> \in collector.todo \ {f} THEN Potential(h, p, c) ELSE 0
    BY DEF Unread
<1>5. ValueOf(f) \in Nat /\ sum[c] = IF c = f[3] THEN collector.sum[c] + ValueOf(f) ELSE collector.sum[c]
    BY <1>1, WorkerIsTyped
<1>6. collector.sum[c] + Sum(v) <= begun[h] /\ (h \notin blurred => collector.sum[c] + Sum(v) = begun[h])
    BY DEF SumsUp, AtMost, Exact
<1>7. Sum(v) \in Nat /\ Sum(w) \in Nat /\ collector.sum[c] \in Nat
    BY <1>1, <1>3, UnderIsFinite
<1> HIDE DEF v, w, sum
<1>8. CASE c = f[3]
    <2> DEFINE p == f[2]
    <2>1. p \in Pids /\ f = <<h, p, c>> /\ f \in collector.todo /\ f \notin collector.todo \ {f}
        BY <1>1, <1>8
    <2>2. w[p] = 0 /\ v[p] = Potential(h, p, c)
        BY <1>4, <2>1
    <2>3. \A q \in Pids \ {p} : w[q] = v[q]
        <3> SUFFICES ASSUME NEW q \in Pids \ {p}
                     PROVE  w[q] = v[q]
            OBVIOUS
        <3>1. <<h, q, c>> # f
            BY <1>1
        <3> QED BY <1>4, <3>1
    <2> HIDE DEF p
    <2>4. Sum(v) = Sum(w) + Potential(h, p, c)
        BY <1>3, <2>1, <2>2, <2>3, SumWithout
    <2>5. ValueOf(f) <= Potential(h, p, c) /\ Potential(h, p, c) \in Nat
        BY <1>1, <1>2, <2>1, PotentialAtLeast
    <2>6. h \notin blurred => ValueOf(f) = Potential(h, p, c)
        BY <1>1, <2>1, PotentialOfPast DEF Settled
    <2>7. sum[c] = collector.sum[c] + ValueOf(f)
        BY <1>5, <1>8
    <2>8. sum[c] + Sum(w) <= begun[h] /\ (h \notin blurred => sum[c] + Sum(w) = begun[h])
        BY <1>1, <1>5, <1>6, <1>7, <2>4, <2>5, <2>6, <2>7
    <2> QED BY <2>8 DEF SumsUp, AtMost, Exact, w, sum
<1>9. CASE c # f[3]
    <2>1. \A p \in Pids : <<h, p, c>> # f
        BY <1>9
    <2>2. \A p \in Pids : w[p] = v[p]
        BY <1>4, <2>1
    <2>3. Sum(w) = Sum(v)
        BY <1>3, <2>2, SumOfSame
    <2>4. sum[c] + Sum(w) <= begun[h] /\ (h \notin blurred => sum[c] + Sum(w) = begun[h])
        BY <1>5, <1>6, <1>9, <2>3
    <2> QED BY <2>4 DEF SumsUp, AtMost, Exact, w, sum
<1> QED BY <1>8, <1>9

\* What has been summed and is still to read stays within the activities of the hour as
\* files are cleared, and exact while no file of those to read is.
LEMMA SumsUpKept ==
    ASSUME TypeOK, WorkerInv, CollectorInv, CollectStep \/ ReportStep \/ ClearStep \/ KillMonitor,
           NEW h \in Hours, NEW c \in Counters, NEW sum \in [Counters -> Nat],
           NEW S \in SUBSET Files, AtMost(h, c, sum, S),
           h \notin blurred' => Exact(h, c, sum, S),
           h \notin blurred' => \A f \in S : file'[f] = file[f]
    PROVE  SumsUp(h, c, sum, S)'
<1> DEFINE v == Unread(S, h, c)
           w == Unread(S, h, c)'
<1>1. MonitorFrame /\ blurred \subseteq blurred'
    BY MonitorMoves
<1>2. begun' = begun /\ begun[h] \in Nat
    BY <1>1, WorkerIsTyped DEF MonitorFrame
<1>3. TypeOK'
    BY MonitorTypesKept
<1>4. \A p \in Pids : Potential(h, p, c) \in Nat /\ Potential(h, p, c)' \in Nat
    BY <1>3, PotentialIsNat, PotentialIsNatNext
<1>5. v \in [Pids -> Nat] /\ w \in [Pids -> Nat]
    BY <1>4 DEF Unread
<1>6. \A p \in Pids : /\ v[p] = IF <<h, p, c>> \in S THEN Potential(h, p, c) ELSE 0
                      /\ w[p] = IF <<h, p, c>> \in S THEN Potential(h, p, c)' ELSE 0
    BY DEF Unread
<1>7. \A p \in Pids :
         /\ Potential(h, p, c)' <= Potential(h, p, c)
         /\ file'[<<h, p, c>>] = file[<<h, p, c>>] => Potential(h, p, c)' = Potential(h, p, c)
    BY PotentialByMonitor
<1>8. sum[c] + Sum(v) <= begun[h] /\ (h \notin blurred' => sum[c] + Sum(v) = begun[h])
    BY DEF AtMost, Exact
<1> HIDE DEF v, w
<1>9. \A p \in Pids : w[p] <= v[p]
    <2> SUFFICES ASSUME NEW p \in Pids
                 PROVE  w[p] <= v[p]
        OBVIOUS
    <2>1. CASE <<h, p, c>> \in S
        BY <1>6, <1>7, <2>1
    <2>2. CASE <<h, p, c>> \notin S
        <3>1. w[p] = 0 /\ v[p] = 0
            BY <1>6, <2>2
        <3> QED BY <3>1
    <2> QED BY <2>1, <2>2
<1>10. h \notin blurred' => \A p \in Pids : w[p] = v[p]
    BY <1>6, <1>7
<1>11. Sum(w) <= Sum(v) /\ Sum(v) \in Nat /\ Sum(w) \in Nat
    BY <1>5, <1>9, SumOfLess, UnderIsFinite
<1>12. h \notin blurred' => Sum(w) = Sum(v)
    BY <1>5, <1>10, SumOfSame
<1>13. sum[c] \in Nat
    OBVIOUS
<1>14. sum[c] + Sum(w) <= begun'[h] /\ (h \notin blurred' => sum[c] + Sum(w) = begun'[h])
    BY <1>1, <1>2, <1>8, <1>11, <1>12, <1>13
<1> QED BY <1>14 DEF SumsUp, AtMost, Exact, w

\* SumInv after a step, from what the collector has become.
LEMMA SumInvNext ==
    ASSUME TypeOK, WorkerInv, CollectorInv, CollectStep \/ ReportStep \/ ClearStep \/ KillMonitor,
           NEW h \in Hours, NEW sum \in [Counters -> Nat], NEW S \in SUBSET Files,
           collector'.h = h, collector'.sum = sum, collector'.todo = S,
           h \in blurred' \/ \A p \in Pids : proc[p].h # h,
           \A c \in Counters : AtMost(h, c, sum, S) /\ (h \notin blurred' => Exact(h, c, sum, S)),
           h \notin blurred' => \A f \in S : file'[f] = file[f]
    PROVE  SumInv'
<1>1. \A c \in Counters : SumsUp(h, c, sum, S)'
    BY SumsUpKept
<1>2. proc' = proc
    BY MonitorMoves DEF MonitorFrame
<1> QED BY <1>1, <1>2, SumInvBySums DEF Settled

LEMMA SumByMonitor ==
    ASSUME TypeOK, WorkerInv, CollectorInv, CountInv, SumInv,
           CollectStep \/ ReportStep \/ ClearStep \/ KillMonitor
    PROVE  SumInv'
<1>1. MonitorFrame /\ blurred \subseteq blurred'
    BY MonitorMoves
<1>2. /\ collector.todo \subseteq Files /\ collector.sum \in [Counters -> Nat]
      /\ collector.pc = "read" => collector.h \in Hours
      /\ hour \in Hours
    BY TypesInParts, CollectorRecords, WorkerIsTyped DEF CollectorInv
<1>3. collector.pc = "read" =>
         /\ Settled(collector.h)
         /\ \A c \in Counters : SumsUp(collector.h, c, collector.sum, collector.todo)
    BY SumInvBySums
<1>4. CASE CollectStart
    <2> DEFINE files == {f \in Files : f[1] = hour - 1 /\ file[f] # Absent}
    <2>1. /\ collector' = [IdleCollector EXCEPT !.pc = "read", !.h = hour - 1, !.todo = files]
          /\ blurred' = IF \E p \in Pids : proc[p].h = hour - 1 THEN blurred \cup {hour - 1} ELSE blurred
          /\ file' = file
        BY <1>4 DEF CollectStart, outsideMonitor
    <2>2. PICK h \in Hours : h = hour - 1
        BY <1>2, <1>4, MetricsAssumption DEF CollectStart, Hours
    <2>3. h \in blurred' \/ \A p \in Pids : proc[p].h # h
        BY <2>1, <2>2
    <2>4. \A c \in Counters : /\ AtMost(h, c, IdleCollector.sum, files)
                              /\ h \notin blurred' => Exact(h, c, IdleCollector.sum, files)
        BY <1>1, <2>2, <2>3, SumsUpAtStart DEF Settled
    <2>5. files \in SUBSET Files /\ IdleCollector.sum \in [Counters -> Nat]
        BY DEF IdleCollector
    <2> HIDE DEF files
    <2>6. collector'.h = h /\ collector'.sum = IdleCollector.sum /\ collector'.todo = files
        BY <2>1, <2>2 DEF IdleCollector
    <2> QED BY <1>4, <2>1, <2>3, <2>4, <2>5, <2>6, SumInvNext DEF CollectStep
<1>5. CASE CollectRead
    <2>1. PICK f \in collector.todo :
              collector' = [collector EXCEPT !.todo = collector.todo \ {f},
                                !.sum = [collector.sum EXCEPT ![f[3]] = @ + ValueOf(f)]]
        BY <1>5 DEF CollectRead
    <2> DEFINE sum == [collector.sum EXCEPT ![f[3]] = @ + ValueOf(f)]
               S == collector.todo \ {f}
    <2>2. collector.pc = "read" /\ file' = file
        BY <1>5 DEF CollectRead, outsideMonitor
    <2>3. PICK h \in Hours : h = collector.h
        BY <1>2, <2>2
    <2>4. f \in Files /\ f[3] \in Counters /\ ValueOf(f) \in Nat
        BY <1>2, <2>1, WorkerIsTyped DEF Files
    <2>5. sum \in [Counters -> Nat] /\ S \in SUBSET Files
        BY <1>2, <2>4
    <2>6. \A c \in Counters : SumsUp(h, c, sum, S)
        BY <1>3, <2>2, <2>3, SumsUpByReading
    <2>7. Settled(h) /\ blurred \subseteq blurred'
        BY <1>1, <1>3, <2>2, <2>3
    <2> HIDE DEF sum, S
    <2>8. collector'.h = h /\ collector'.sum = sum /\ collector'.todo = S
        BY <2>1, <2>3, TypesInParts DEF MonitorTypes, sum, S
    <2> QED BY <1>5, <2>2, <2>5, <2>6, <2>7, <2>8, SumInvNext DEF Settled, SumsUp, CollectStep
<1>6. CASE CollectStore \/ KillMonitor
    <2>1. collector'.pc = "idle"
        BY <1>6 DEF CollectStore, KillMonitor, IdleCollector
    <2> QED BY <2>1 DEF SumInv
<1>7. CASE ReportStep \/ ClearStep
    <2>1. collector' = collector
        BY <1>7 DEF ReportStep, ReportStart, ReportOne, ClearStep, ClearStart, ClearOne
    <2>2. CASE collector.pc # "read"
        BY <2>1, <2>2 DEF SumInv
    <2>3. CASE collector.pc = "read"
        <3>1. PICK h \in Hours : h = collector.h
            BY <1>2, <2>3
        <3>2. Settled(h) /\ \A c \in Counters : SumsUp(h, c, collector.sum, collector.todo)
            BY <1>3, <2>3, <3>1
        <3>3. h \notin blurred' => \A f \in collector.todo : file'[f] = file[f]
            <4>1. CASE ClearOne
                <5>1. PICK f \in clearing :
                         /\ file' = [file EXCEPT ![f] = Absent]
                         /\ blurred' = IF f \in collector.todo THEN blurred \cup {f[1]} ELSE blurred
                    BY <4>1 DEF ClearOne
                <5>2. \A g \in Files \ {f} : file'[g] = file[g]
                    BY <5>1, WorkerIsTyped
                <5>3. f \in collector.todo => h \in blurred'
                    BY <2>3, <3>1, <5>1 DEF CollectorInv
                <5> QED BY <1>2, <5>2, <5>3
            <4>2. CASE ~ClearOne
                BY <1>7, <4>2 DEF ReportStep, ReportStart, ReportOne, ClearStep, ClearStart, outsideMonitor
            <4> QED BY <4>1, <4>2
        <3> QED BY <1>1, <1>2, <1>7, <2>1, <3>1, <3>2, <3>3, SumInvNext DEF Settled, SumsUp
    <2> QED BY <2>2, <2>3
<1> QED BY <1>4, <1>5, <1>6, <1>7 DEF CollectStep

\* A payload is stored when everything of its hour was read.
LEMMA TotalsByMonitor ==
    ASSUME TypeOK, WorkerInv, CollectorInv, SumInv, TotalsExact,
           CollectStep \/ ReportStep \/ ClearStep \/ KillMonitor
    PROVE  TotalsExact'
<1>1. MonitorFrame /\ blurred \subseteq blurred' /\ begun' = begun /\ begun \in [Hours -> Nat]
    BY MonitorMoves, WorkerIsTyped DEF MonitorFrame
<1>2. CASE CollectStore
    <2>1. PICK h \in Hours : h = collector.h
        BY <1>2 DEF CollectStore, CollectorInv
    <2>2. /\ total \in [Hours -> [Counters -> Nat]] /\ collector.sum \in [Counters -> Nat]
          /\ total' = [total EXCEPT ![h] = collector.sum] /\ pending' = pending \cup {h}
          /\ blurred' = blurred
        BY <1>2, <2>1, TypesInParts, CollectorRecords DEF CollectStore, MonitorTypes
    <2>3. ASSUME NEW c \in Counters
          PROVE  collector.sum[c] <= begun[h] /\ (h \notin blurred => collector.sum[c] = begun[h])
        <3> DEFINE v == UnreadOf(h, c)
        <3>1. collector.todo = {} /\ collector.pc = "read"
            BY <1>2 DEF CollectStore
        <3>2. v \in [Pids -> Nat] /\ \A p \in Pids : v[p] = 0
            BY <3>1, PotentialIsNat DEF UnreadOf
        <3> HIDE DEF v
        <3>3. Sum(v) = 0
            BY <3>2, SumOfNothing
        <3>4. /\ collector.sum[c] + Sum(v) <= begun[h]
              /\ h \notin blurred => collector.sum[c] + Sum(v) = begun[h]
            BY <2>1, <3>1 DEF SumInv, v
        <3>5. collector.sum[c] \in Nat
            BY <2>2
        <3> QED BY <3>3, <3>4, <3>5
    <2> SUFFICES ASSUME NEW g \in Hours, NEW c \in Counters
                 PROVE  /\ total'[g][c] <= begun'[g]
                        /\ g \in pending' \ blurred' => total'[g][c] = begun'[g]
        BY DEF TotalsExact, Hours, Counters
    <2>4. CASE g = h
        <3>1. total'[g] = collector.sum
            BY <2>2, <2>4
        <3> QED BY <1>1, <2>2, <2>3, <2>4, <3>1
    <2>5. CASE g # h
        BY <1>1, <2>2, <2>5 DEF TotalsExact
    <2> QED BY <2>4, <2>5
<1>3. CASE ~CollectStore
    <2>1. total' = total /\ pending' \subseteq pending
        BY <1>3 DEF CollectStep, CollectStart, CollectRead, ReportStep, ReportStart, ReportOne,
                    ClearStep, ClearStart, ClearOne, KillMonitor
    <2> QED BY <1>1, <2>1 DEF TotalsExact
<1> QED BY <1>2, <1>3

LEMMA CountingByMonitor ==
    ASSUME TypeOK, WorkerInv, CollectorInv, CountingInv,
           CollectStep \/ ReportStep \/ ClearStep \/ KillMonitor
    PROVE  CountingInv'
BY CountByMonitor, SumByMonitor, TotalsByMonitor DEF CountingInv

LEMMA CountingByOthers ==
    ASSUME TypeOK, CountingInv, hour' \in Nat, hour <= hour',
           UNCHANGED <<activityVars, blurred, monitorVars>>
    PROVE  CountingInv'
<1>1. \A h, p, c : Potential(h, p, c)' = Potential(h, p, c)
    BY DEF activityVars, Potential, PAt, FileOf, ValueOf, Awaits
<1>2. \A h, c : AllOf(h, c)' = AllOf(h, c) /\ UnreadOf(h, c)' = UnreadOf(h, c)
    BY <1>1 DEF monitorVars, AllOf, UnreadOf
<1>3. hour \in Nat /\ \A h \in Hours : h \in Nat
    BY MetricsAssumption, WorkerIsTyped DEF Hours
<1>4. KeepHours \in Nat
    BY MetricsAssumption
<1>5. \A h \in Hours : h + KeepHours >= hour' => h + KeepHours >= hour
    BY <1>3, <1>4
<1>6. CountInv'
    <2> SUFFICES ASSUME NEW h \in Hours, NEW c \in Counters
                 PROVE  /\ Sum(AllOf(h, c)) <= begun[h]
                        /\ h \notin blurred /\ h + KeepHours >= hour' => Sum(AllOf(h, c)) = begun[h]
        BY <1>2 DEF activityVars, CountInv, Sum, Under
    <2> QED BY <1>5 DEF CountingInv, CountInv
<1>7. SumInv'
    <2> SUFFICES ASSUME collector.pc = "read", NEW h, h = collector.h
                 PROVE  /\ h \in blurred \/ \A p \in Pids : proc[p].h # h
                        /\ \A c \in Counters :
                              /\ collector.sum[c] + Sum(UnreadOf(h, c)) <= begun[h]
                              /\ h \notin blurred =>
                                    collector.sum[c] + Sum(UnreadOf(h, c)) = begun[h]
        BY <1>2 DEF activityVars, monitorVars, SumInv, Sum, Under
    <2> QED BY DEF CountingInv, SumInv
<1>8. TotalsExact'
    BY DEF activityVars, monitorVars, CountingInv, TotalsExact
<1> QED BY <1>6, <1>7, <1>8 DEF CountingInv

-----------------------------------------------------------------------------
(* The records that are kept.                                              *)

\* A record that is pruned has MAX_RECORDS newer ones.
LEMMA PrunedIsOld ==
    ASSUME NEW S \in SUBSET (Nat \ {0}), IsFiniteSet(S), Cardinality(S) > MaxRecords,
           NEW latest \in Nat, \A y \in S : y <= latest
    PROVE  Oldest(S) \in S /\ latest - Oldest(S) >= MaxRecords
<1> DEFINE x == Oldest(S)
<1>1. MaxRecords \in Nat /\ Cardinality(S) \in Nat
    BY MetricsAssumption, FS_CardinalityType
<1>2. S # {}
    BY <1>1, FS_EmptySet
<1>3. x \in S /\ \A y \in S : x <= y
    BY <1>2, OldestExists
<1>4. x \in Nat /\ x <= latest
    BY <1>3
<1> HIDE DEF x
<1>5. S \ {x} \in SUBSET ((x + 1)..latest)
    BY <1>3, <1>4
<1>6. x + 1 \in Int /\ latest \in Int
    BY <1>4
<1>7. IsFiniteSet((x + 1)..latest) /\ Cardinality((x + 1)..latest) = latest - x
    <2>1. Cardinality((x + 1)..latest) = IF x + 1 > latest THEN 0 ELSE latest - (x + 1) + 1
        BY <1>6, FS_Interval
    <2>2. IsFiniteSet((x + 1)..latest)
        BY <1>6, FS_Interval
    <2> QED BY <1>4, <2>1, <2>2
<1>8. Cardinality(S \ {x}) = Cardinality(S) - 1
    BY <1>3, FS_RemoveElement
<1>9. Cardinality(S \ {x}) <= latest - x
    <2> DEFINE T == (x + 1)..latest
    <2>1. S \ {x} \in SUBSET T /\ IsFiniteSet(T) /\ Cardinality(T) = latest - x
        BY <1>5, <1>7
    <2> HIDE DEF T
    <2>2. Cardinality(S \ {x}) <= Cardinality(T)
        BY <2>1, FS_Subset
    <2> QED BY <2>1, <2>2
<1> QED BY <1>1, <1>3, <1>4, <1>8, <1>9 DEF x

LEMMA RecordFacts ==
    ASSUME TypeOK, RecordInv
    PROVE  /\ count["failure"] \in Nat /\ next = count["failure"] + 1 /\ next \in Nat
           /\ unpruned \in Nat /\ MaxRecords \in Nat /\ count["killReader"] \in Nat
           /\ failed \in SUBSET Records /\ recorder.todo \in SUBSET Records
           /\ tmp \in SUBSET Records /\ Records = 1..(next - 1)
           /\ IsFiniteSet(failed) /\ Cardinality(failed) \in Nat
           /\ recorder \in [pc : {"idle", "replace", "clean", "stat", "prune"}, todo : SUBSET Records]
<1>1. RecordTypes /\ EventTypes
    BY TypesInParts
<1>2. count["failure"] \in Nat /\ count["killReader"] \in Nat /\ next = count["failure"] + 1
    BY <1>1 DEF EventTypes, Events, RecordInv
<1>3. failed \in SUBSET Records /\ recorder.todo \in SUBSET Records /\ tmp \in SUBSET Records
    BY <1>1 DEF RecordTypes
<1>4. Records = 1..(next - 1)
    BY <1>2 DEF Records
<1> QED BY <1>1, <1>2, <1>3, <1>4, RecordsAreNumbers, MetricsAssumption DEF RecordTypes

LEMMA RecordInvByRecorder ==
    ASSUME TypeOK, RecordInv, RecordsKept, RecorderStep \/ RecorderEvent
    PROVE  RecordInv' /\ RecordsKept'
<1>1. /\ count["failure"] \in Nat /\ next = count["failure"] + 1 /\ next \in Nat
      /\ unpruned \in Nat /\ MaxRecords \in Nat /\ count["killReader"] \in Nat
      /\ failed \in SUBSET Records /\ recorder.todo \in SUBSET Records
      /\ tmp \in SUBSET Records /\ Records = 1..(next - 1)
      /\ IsFiniteSet(failed) /\ Cardinality(failed) \in Nat
    BY RecordFacts
<1>2. /\ recorder \in [pc : {"idle", "replace", "clean", "stat", "prune"}, todo : SUBSET Records]
      /\ count \in [Events -> Nat] /\ next \notin failed
    BY <1>1, RecordFacts, WorkerIsTyped
<1>3. /\ recorder.pc = "idle" => recorder = IdleRecorder
      /\ recorder.pc = "replace" =>
            next > 1 /\ next - 1 \notin failed /\ Cardinality(failed) + 1 <= MaxRecords + unpruned
      /\ recorder.pc \in {"stat", "prune"} => failed \subseteq recorder.todo
      /\ count["killReader"] = 0 => tmp = IF recorder.pc = "replace" THEN {next - 1} ELSE {}
    BY DEF RecordInv
<1>4. /\ Cardinality(failed) <= MaxRecords + unpruned
      /\ \A x \in 1..(next - 1) :
            x \in failed \cup expired \cup tmp \/ next - 1 - x >= MaxRecords \/ count["killReader"] > 0
    BY DEF RecordsKept
<1>5. CASE WriteTmp
    <2>1. /\ recorder.pc = "idle" /\ tmp' = tmp \cup {next} /\ next' = next + 1
          /\ unpruned' = unpruned + 1 /\ UNCHANGED <<failed, expired>>
          /\ count' = [count EXCEPT !["failure"] = @ + 1]
          /\ recorder' = [recorder EXCEPT !.pc = "replace"]
        BY <1>5 DEF WriteTmp, RAt, RGoto, Occurs
    <2>2. recorder'.pc = "replace"
        BY <1>2, <2>1
    <2>3. count'["failure"] = count["failure"] + 1 /\ count'["killReader"] = count["killReader"]
        BY <1>2, <2>1 DEF Events
    <2>4. next' - 1 = next /\ next' > 1
        BY <1>1, <2>1
    <2>5. count["killReader"] = 0 => tmp' = {next}
        BY <1>3, <2>1
    <2>6. Cardinality(failed) + 1 <= MaxRecords + (unpruned + 1)
        BY <1>1, <1>4
    <2>7. RecordInv'
        BY <1>1, <1>2, <2>1, <2>2, <2>3, <2>4, <2>5, <2>6 DEF RecordInv
    <2>8. \A x \in 1..(next' - 1) :
             \/ x \in failed' \cup expired' \cup tmp' \/ next' - 1 - x >= MaxRecords
             \/ count'["killReader"] > 0
        <3> SUFFICES ASSUME NEW x \in 1..next, x # next
                     PROVE  \/ x \in failed \cup expired \cup tmp \/ next - x >= MaxRecords
                            \/ count["killReader"] > 0
            BY <1>1, <2>1, <2>3, <2>4
        <3>1. x \in 1..(next - 1)
            BY <1>1
        <3> QED BY <1>1, <1>4, <3>1
    <2>9. Cardinality(failed') <= MaxRecords + unpruned'
        BY <1>1, <1>4, <2>1
    <2> QED BY <2>7, <2>8, <2>9 DEF RecordsKept
<1>6. CASE Replace
    <2>1. /\ recorder.pc = "replace" /\ tmp' = tmp \ {next - 1} /\ failed' = failed \cup {next - 1}
          /\ recorder' = [recorder EXCEPT !.pc = "clean"]
          /\ UNCHANGED <<next, expired, unpruned, count>>
        BY <1>6 DEF Replace, RAt, RGoto
    <2>2. recorder'.pc = "clean"
        BY <1>2, <2>1
    <2>3. Cardinality(failed') = Cardinality(failed) + 1
        BY <1>1, <1>3, <2>1, FS_AddElement
    <2>4. RecordInv'
        BY <1>1, <1>3, <2>1, <2>2 DEF RecordInv
    <2>5. Cardinality(failed') <= MaxRecords + unpruned'
        BY <1>1, <1>3, <2>1, <2>3
    <2>6. failed \cup expired \cup tmp \subseteq failed' \cup expired' \cup tmp'
        BY <2>1
    <2> QED BY <1>4, <2>1, <2>4, <2>5, <2>6 DEF RecordsKept
<1>7. CASE Clean
    <2>1. /\ recorder.pc = "clean" /\ tmp' = {} /\ recorder' = [pc |-> "stat", todo |-> failed]
          /\ UNCHANGED <<failed, next, expired, unpruned, count>>
        BY <1>7 DEF Clean, RAt
    <2>2. count["killReader"] > 0 \/ tmp = {}
        BY <1>1, <1>3, <2>1
    <2> QED BY <1>1, <1>4, <2>1, <2>2 DEF RecordInv, RecordsKept
<1>8. CASE Stat
    <2>1. /\ recorder.pc = "stat"
          /\ \/ recorder' = [recorder EXCEPT !.pc = "prune"]
             \/ recorder' = IdleRecorder
          /\ UNCHANGED <<tmp, failed, next, expired, unpruned, count>>
        BY <1>8 DEF Stat, RAt
    <2>2. (recorder'.pc = "prune" /\ recorder'.todo = recorder.todo) \/ recorder' = IdleRecorder
        BY <1>2, <2>1
    <2>3. recorder'.pc \in {"idle", "prune"} /\ (recorder'.pc = "idle" => recorder' = IdleRecorder)
        BY <2>2 DEF IdleRecorder
    <2>4. recorder'.pc = "prune" => failed \subseteq recorder'.todo
        BY <1>3, <2>1, <2>2 DEF IdleRecorder
    <2>5. RecordInv'
        BY <1>1, <1>3, <2>1, <2>3, <2>4 DEF RecordInv, IdleRecorder
    <2> QED BY <1>4, <2>1, <2>5 DEF RecordsKept
<1>9. CASE Prune /\ Cardinality(recorder.todo) > MaxRecords
    <2> DEFINE x == Oldest(recorder.todo)
    <2>1. /\ recorder.pc = "prune" /\ failed' = failed \ {x}
          /\ recorder' = [recorder EXCEPT !.todo = @ \ {x}]
          /\ UNCHANGED <<tmp, next, expired, unpruned, count>>
        BY <1>9 DEF Prune, RAt
    <2>2. recorder.todo \in SUBSET (Nat \ {0}) /\ IsFiniteSet(recorder.todo)
        BY <1>1, RecordsAreNumbers
    <2>3. next - 1 \in Nat /\ \A y \in recorder.todo : y <= next - 1
        BY <1>1
    <2>4. x \in recorder.todo /\ next - 1 - x >= MaxRecords
        BY <1>9, <2>2, <2>3, PrunedIsOld
    <2> HIDE DEF x
    <2>5. recorder'.pc = "prune" /\ recorder'.todo = recorder.todo \ {x}
        BY <1>2, <2>1
    <2>6. RecordInv'
        BY <1>1, <1>3, <2>1, <2>5 DEF RecordInv
    <2>7. Cardinality(failed') <= Cardinality(failed) /\ Cardinality(failed') \in Nat
        BY <1>1, <2>1, FS_Subset, FS_CardinalityType
    <2>8. Cardinality(failed') <= MaxRecords + unpruned'
        BY <1>1, <1>4, <2>1, <2>7
    <2>9. \A y \in 1..(next - 1) :
             \/ y \in failed' \cup expired \cup tmp \/ next - 1 - y >= MaxRecords
             \/ count["killReader"] > 0
        BY <1>4, <2>1, <2>4
    <2> QED BY <2>1, <2>6, <2>8, <2>9 DEF RecordsKept
<1>10. CASE Prune /\ ~(Cardinality(recorder.todo) > MaxRecords)
    <2>1. /\ recorder.pc = "prune" /\ recorder' = IdleRecorder /\ unpruned' = 0
          /\ UNCHANGED <<failed, tmp, next, expired, count>>
        BY <1>10 DEF Prune, RAt
    <2>2. IsFiniteSet(recorder.todo) /\ Cardinality(recorder.todo) \in Nat
        BY <1>1, RecordsAreNumbers
    <2>3. Cardinality(failed) <= Cardinality(recorder.todo)
        BY <1>3, <2>1, <2>2, FS_Subset
    <2>4. Cardinality(failed') <= MaxRecords + unpruned'
        BY <1>1, <1>10, <2>1, <2>2, <2>3
    <2>5. RecordInv'
        BY <1>1, <1>3, <2>1 DEF RecordInv, IdleRecorder
    <2> QED BY <1>4, <2>1, <2>4, <2>5 DEF RecordsKept
<1>11. CASE KillReader
    <2>1. /\ recorder' = IdleRecorder /\ UNCHANGED <<tmp, failed, next, expired, unpruned>>
          /\ count' = [count EXCEPT !["killReader"] = @ + 1]
        BY <1>11 DEF KillReader, Occurs
    <2>2. count'["failure"] = count["failure"] /\ count'["killReader"] > 0
          /\ count'["killReader"] # 0
        BY <1>1, <1>2, <2>1 DEF Events
    <2>3. RecordInv'
        BY <1>1, <2>1, <2>2 DEF RecordInv, IdleRecorder
    <2> QED BY <1>4, <2>1, <2>2, <2>3 DEF RecordsKept
<1>12. CASE Expire
    <2> DEFINE x == Oldest(failed)
    <2>1. /\ failed' = failed \ {x} /\ expired' = expired \cup {x}
          /\ UNCHANGED <<recorder, tmp, next, unpruned>>
          /\ count' = [count EXCEPT !["expire"] = @ + 1]
        BY <1>12 DEF Expire, Occurs
    <2> HIDE DEF x
    <2>2. count'["failure"] = count["failure"] /\ count'["killReader"] = count["killReader"]
        BY <1>2, <2>1 DEF Events
    <2>3. Cardinality(failed') <= Cardinality(failed) /\ Cardinality(failed') \in Nat
        BY <1>1, <2>1, FS_Subset, FS_CardinalityType
    <2>4. recorder.pc = "replace" => Cardinality(failed') + 1 <= MaxRecords + unpruned
        BY <1>1, <1>3, <2>3
    <2>5. RecordInv'
        BY <1>1, <1>3, <2>1, <2>2, <2>4 DEF RecordInv, IdleRecorder
    <2>6. Cardinality(failed') <= MaxRecords + unpruned'
        BY <1>1, <1>4, <2>1, <2>3
    <2>7. failed \cup expired \cup tmp \subseteq failed' \cup expired' \cup tmp'
        BY <2>1
    <2> QED BY <1>4, <2>1, <2>2, <2>5, <2>6, <2>7 DEF RecordsKept
<1> QED BY <1>5, <1>6, <1>7, <1>8, <1>9, <1>10, <1>11, <1>12 DEF RecorderStep, RecorderEvent

LEMMA RecordInvByOthers ==
    ASSUME RecordInv, RecordsKept, UNCHANGED failedVars,
           count'["failure"] = count["failure"], count'["killReader"] = count["killReader"]
    PROVE  RecordInv' /\ RecordsKept'
BY DEF failedVars, RecordInv, RecordsKept, IdleRecorder

-----------------------------------------------------------------------------
(* The theorems.                                                           *)

\* The inductive invariant.
IInv ==
    /\ TypeOK /\ FilesInv /\ CollectorInv /\ CountingInv
    /\ RecordInv /\ RecordsKept

LEMMA InitHolds ==
    Init => IInv
<1> SUFFICES ASSUME Init
             PROVE  IInv
    OBVIOUS
<1>1. 1 \in Hours /\ MaxHours \in Nat
    BY MetricsAssumption DEF Hours
<1>2. Idle \in WorkerTypes
    BY DEF Idle, WorkerTypes
<1>3. \A p \in Pids : proc[p] = Idle
    BY DEF Init
<1>4. ActivityTypes
    <2>1. file \in [Files -> Nat] /\ begun \in [Hours -> Nat] /\ proc \in [Pids -> WorkerTypes]
        BY <1>2 DEF Init, Absent
    <2>2. \A p \in Pids : PAt(p, "idle")
        BY <1>3 DEF PAt, Idle
    <2> QED BY <1>1, <2>1, <2>2 DEF Init, ActivityTypes
<1>5. MonitorTypes
    <2>1. [h \in Hours |-> [c \in Counters |-> 0]] \in [Hours -> [Counters -> Nat]]
        OBVIOUS
    <2>2. IdleCollector.sum \in [Counters -> Nat]
        BY DEF IdleCollector
    <2>3. IdleCollector \in [pc : {"idle", "read"}, h : Hours \cup {0}, todo : SUBSET Files,
                             sum : [Counters -> Nat]]
        BY <2>2 DEF IdleCollector
    <2> QED BY <2>1, <2>3 DEF Init, MonitorTypes
<1>6. RecordTypes /\ EventTypes
    BY DEF Init, RecordTypes, EventTypes, IdleRecorder, Events
<1>7. TypeOK
    BY <1>4, <1>5, <1>6, TypesInParts
<1>8. FilesInv
    <2>1. \A p \in Pids : PAt(p, "idle") /\ ~PAt(p, "count") /\ ~PAt(p, "write")
        BY <1>3 DEF PAt, Idle
    <2>2. EmptyInv
        BY DEF Init, EmptyInv, Absent, Empty
    <2>3. WorkerInv
        BY <1>3, <2>1 DEF WorkerInv
    <2> QED BY <2>2, <2>3 DEF Init, FilesInv, RefusedOnlyByCut, ActiveCountKnown, ActiveCountFails
<1>9. CollectorInv
    BY DEF Init, CollectorInv, IdleCollector
<1>10. CountingInv
    <2>1. ASSUME NEW h \in Hours, NEW c \in Counters
          PROVE  Sum(AllOf(h, c)) = 0
        <3> DEFINE v == AllOf(h, c)
        <3>1. ASSUME NEW p \in Pids
              PROVE  Potential(h, p, c) = 0
            <4>1. ~PAt(p, "write") /\ ~Awaits(p, c)
                BY <1>3 DEF PAt, Idle, Awaits
            <4>2. ValueOf(<<h, p, c>>) = 0
                <5>1. <<h, p, c>> \in Files
                    BY DEF Files
                <5> QED BY <5>1 DEF Init, ValueOf, Absent, Empty
            <4> QED BY <4>1, <4>2 DEF Potential
        <3>2. v \in [Pids -> Nat] /\ \A p \in Pids : v[p] = 0
            BY <3>1 DEF AllOf
        <3> HIDE DEF v
        <3>3. Sum(v) = 0
            BY <3>2, SumOfNothing
        <3> QED BY <3>3 DEF v
    <2>2. CountInv
        BY <2>1 DEF Init, CountInv
    <2>3. SumInv
        BY DEF Init, SumInv, IdleCollector
    <2>4. TotalsExact
        BY DEF Init, TotalsExact
    <2> QED BY <2>2, <2>3, <2>4 DEF CountingInv
<1>11. RecordInv /\ RecordsKept
    <2>1. Cardinality({}) = 0
        BY FS_EmptySet
    <2>2. MaxRecords \in Nat
        BY MetricsAssumption
    <2> QED BY <2>1, <2>2 DEF Init, RecordInv, RecordsKept, IdleRecorder, Events
<1> QED BY <1>7, <1>8, <1>9, <1>10, <1>11 DEF IInv

LEMMA StepHolds ==
    IInv /\ [Next]_vars => IInv'
<1> SUFFICES ASSUME IInv, [Next]_vars
             PROVE  IInv'
    OBVIOUS
<1>1. TypeOK /\ FilesInv /\ WorkerInv /\ CollectorInv /\ CountingInv /\ RecordInv /\ RecordsKept
    BY DEF IInv, FilesInv
<1>2. hour \in Nat /\ hour \in Hours /\ MaxHours \in Nat
    BY <1>1, WorkerIsTyped, MetricsAssumption DEF Hours
<1>3. ASSUME NEW p \in Pids, WorkerStep(p) \/ WorkerEvent(p)
      PROVE  IInv'
    <2>1. TypeOK' /\ FilesInv' /\ CountingInv'
        BY <1>1, <1>3, WorkerTypesKept, FilesInvByWorker, CountingByWorker
    <2>2. WorkerFrame /\ count'["failure"] = count["failure"] /\ count'["killReader"] = count["killReader"]
        BY <1>1, <1>3, WorkerMoves
    <2>3. UNCHANGED monitorVars /\ UNCHANGED failedVars /\ hour' = hour
        BY <2>2 DEF WorkerFrame
    <2>4. CollectorInv'
        BY <1>1, <1>2, <2>3, CollectorInvKept
    <2>5. RecordInv' /\ RecordsKept'
        BY <1>1, <2>2, <2>3, RecordInvByOthers
    <2> QED BY <2>1, <2>4, <2>5 DEF IInv
<1>4. CASE CollectStep \/ ReportStep \/ ClearStep \/ KillMonitor
    <2>1. TypeOK' /\ FilesInv' /\ CountingInv' /\ CollectorInv'
        BY <1>1, <1>4, MonitorTypesKept, FilesInvByMonitor, CountingByMonitor, CollectorInvKept
    <2>2. MonitorFrame /\ count'["failure"] = count["failure"] /\ count'["killReader"] = count["killReader"]
        BY <1>1, <1>4, MonitorMoves
    <2>3. RecordInv' /\ RecordsKept'
        BY <1>1, <2>2, RecordInvByOthers DEF MonitorFrame
    <2> QED BY <2>1, <2>3 DEF IInv
<1>5. CASE RecorderStep \/ RecorderEvent
    <2>1. TypeOK' /\ RecordInv' /\ RecordsKept'
        BY <1>1, <1>5, RecordTypesKept, RecordInvByRecorder
    <2>2. UNCHANGED <<activityVars, blurred, monitorVars>> /\ hour' = hour /\ hour <= hour'
        BY <1>1, <1>2, <1>5, RecordMoves DEF RecordFrame
    <2>3. FilesInv' /\ CollectorInv' /\ CountingInv'
        BY <1>1, <1>2, <2>2, FilesInvByOthers, CollectorInvKept, CountingByOthers
    <2> QED BY <2>1, <2>3 DEF IInv
<1>6. CASE Tick
    <2>1. /\ hour' = hour + 1 /\ hour < MaxHours
          /\ UNCHANGED <<activityVars, monitorVars, blurred, failedVars, count, limit>>
        BY <1>6 DEF Tick
    <2>2. hour' \in Hours /\ hour' \in Nat /\ hour <= hour'
        BY <1>2, <2>1 DEF Hours
    <2>3. TypeOK'
        <3>1. ActivityTypes /\ MonitorTypes /\ RecordTypes /\ EventTypes
            BY <1>1, TypesInParts
        <3>2. ActivityTypes'
            BY <2>1, <2>2, <3>1 DEF activityVars, ActivityTypes, PAt
        <3>3. MonitorTypes' /\ RecordTypes' /\ EventTypes'
            BY <2>1, <3>1 DEF monitorVars, failedVars, MonitorTypes, RecordTypes, EventTypes, Records
        <3> QED BY <3>2, <3>3, TypesInPartsNext
    <2>4. FilesInv' /\ CollectorInv' /\ CountingInv'
        BY <1>1, <2>1, <2>2, FilesInvByOthers, CollectorInvKept, CountingByOthers
    <2>5. RecordInv' /\ RecordsKept'
        BY <1>1, <2>1, RecordInvByOthers
    <2> QED BY <2>3, <2>4, <2>5 DEF IInv
<1>7. CASE UNCHANGED vars
    <2>1. UNCHANGED <<hour, activityVars, monitorVars, blurred, failedVars, count, limit>>
        BY <1>7 DEF vars
    <2>2. hour <= hour' /\ hour' \in Nat
        BY <1>2, <2>1
    <2>3. TypeOK'
        <3>1. ActivityTypes /\ MonitorTypes /\ RecordTypes /\ EventTypes
            BY <1>1, TypesInParts
        <3>2. ActivityTypes' /\ MonitorTypes' /\ RecordTypes' /\ EventTypes'
            BY <2>1, <3>1 DEF activityVars, monitorVars, failedVars, ActivityTypes, MonitorTypes,
                              RecordTypes, EventTypes, Records, PAt
        <3> QED BY <3>2, TypesInPartsNext
    <2>4. FilesInv' /\ CollectorInv' /\ CountingInv'
        BY <1>1, <2>1, <2>2, FilesInvByOthers, CollectorInvKept, CountingByOthers
    <2>5. RecordInv' /\ RecordsKept'
        BY <1>1, <2>1, RecordInvByOthers
    <2> QED BY <2>3, <2>4, <2>5 DEF IInv
<1> QED BY <1>3, <1>4, <1>5, <1>6, <1>7 DEF Next

\* The conjunction of the invariants is kept by every step.
THEOREM MetricsInductive ==
    Spec => []IInv
BY InitHolds, StepHolds, PTL DEF Spec

\* Every variable keeps to its type, however the processes interleave.
THEOREM MetricsTypes ==
    Spec => []TypeOK
<1>1. IInv => TypeOK
    BY DEF IInv
<1> QED BY <1>1, MetricsInductive, PTL

\* A payload never counts more than happened in its hour, and exactly that unless a write
\* of that hour was cut short or under way (increment_counter_file, collect_metrics_for_cloud).
THEOREM TotalsAreExact ==
    Spec => []TotalsExact
<1>1. IInv => TotalsExact
    BY DEF IInv, CountingInv
<1> QED BY <1>1, MetricsInductive, PTL

\* A counter file fails a query only if a kill or a full disk left it empty: truncating and
\* writing are seen apart by no other process of the same ID (increment_counter_file).
THEOREM RefusalsAreCuts ==
    Spec => []RefusedOnlyByCut
<1>1. IInv => RefusedOnlyByCut
    BY DEF IInv, FilesInv
<1> QED BY <1>1, MetricsInductive, PTL

\* The count of active detectors fails only while a first activity is being recorded, or
\* when that was cut short (num_detectors_active).
THEOREM ActiveCountIsKnown ==
    Spec => []ActiveCountKnown
<1>1. IInv => ActiveCountKnown
    BY DEF IInv, FilesInv
<1> QED BY <1>1, MetricsInductive, PTL

\* The newest failed records are kept whatever retention removes meanwhile
\* (record_failed_escalation, prune_failed_escalations).
THEOREM NewestRecordsKept ==
    Spec => []RecordsKept
<1>1. IInv => RecordsKept
    BY DEF IInv
<1> QED BY <1>1, MetricsInductive, PTL

=============================================================================
