------------------------ MODULE EscalationOnceProofs ------------------------
(***************************************************************************)
(* Proofs about what the cloud takes in more than once: an escalation only *)
(* after a kill or a lost reply, one for each, and a second escalation of  *)
(* a request only after the cache had to evict the request's ID.           *)
(***************************************************************************)
EXTENDS EscalationImageProofs, FiniteSetTheorems

\* The cloud took e in and its image is still there, so e could be submitted again;
\* the line the consumer has just settled does not count, its image is deleted next.
Exposed(e) ==
    /\ accepted[e] > 0 /\ Exists(Image(e))
    /\ ~(reader.pc \in {"cache", "unlinkImage"} /\ e = Line)

\* What kills and lost replies have cost: the duplicates, and the submissions that
\* may still be repeated.
Costs == UNION {{e} \X {n \in 1..accepted[e] : n > 1 \/ Exposed(e)} : e \in Escalations}

CostInv ==
    /\ \A e \in Escalations : accepted[e] > 0 => e \in written
    /\ IsFiniteSet(Costs)
    /\ Cardinality(Costs) <= count["crash"] + count["lostReply"]

-----------------------------------------------------------------------------
(* What a step can do to the number of submissions and of bad events. *)

\* The cloud takes in the line that is being submitted; its reply arrives or is lost.
AcceptedMoves ==
    \/ UNCHANGED accepted
    \/ /\ reader.pc = "submit" /\ Exists(Image(Line))
       /\ accepted' = [accepted EXCEPT ![Line] = @ + 1]
       /\ reader'.file = reader.file /\ reader'.pos = reader.pos
       /\ UNCHANGED <<content, loc, written>>
       /\ \/ reader'.pc = "cache" /\ UNCHANGED count
          \/ reader'.pc = "wait" /\ count' = [count EXCEPT !["lostReply"] = @ + 1]

\* A line that is settled stays in the consumer's hand until its image is deleted,
\* unless the reader is killed.
SettledMoves ==
    reader.pc \in {"cache", "unlinkImage"} =>
        \/ /\ reader'.pc \in {"cache", "unlinkImage"}
           /\ reader'.file = reader.file /\ reader'.pos = reader.pos
        \/ UnlinkImage
        \/ ReaderCrash

\* Events are only counted up.
CountMoves ==
    /\ count'["crash"] >= count["crash"]
    /\ count'["lostReply"] >= count["lostReply"]

\* No step takes an event back.
LEMMA StepCounts ==
    ASSUME TypeOK, [Next]_vars
    PROVE  CountMoves
<1>1. count \in [Events -> Nat] /\ {"crash", "lostReply"} \subseteq Events
  BY DEF TypeOK, Events
<1>2. ASSUME NEW x, Occurs(x) PROVE CountMoves
  <2>1. count' = [count EXCEPT ![x] = @ + 1]
    BY <1>2 DEF Occurs
  <2> QED BY <1>1, <2>1 DEF CountMoves
<1>3. UNCHANGED count => CountMoves
  BY <1>1 DEF CountMoves
<1>4. CASE ReaderStep \/ ReaderCrash \/ ConsumerStep
  BY <1>2, <1>3, <1>4 DEF ReaderStep, ReaderCrash, ChooseTracked, ChooseOldest, RenameFile,
     CheckDataExists, OpenFiles, CountTracked, ReadLine, FinalRead, TrackLine, UnlinkData, UnlinkTracker,
     ConsumerStep, CheckCache, SubmitAccepted, SubmitRetryable, SubmitReplyLost, RetryWait, SubmitFails,
     HandleFailure, CacheRequest, UnlinkImage
<1> QED BY <1>2, <1>3, <1>4 DEF Next, WorkerStep, WorkerFault, TakeTimestamp, WriteImage, ChooseFile,
   OpenExisting, CreateFile, AppendLine, WriteImageFails, WriteFails, WorkerCrash, SweepStep, SweepStart,
   SweepStat, SweepUnlink, SweepNextDir, Tick, vars

\* What any step can do to submissions, the settled line and the counts of events.
LEMMA StepAccepts ==
    ASSUME IInv, [Next]_vars
    PROVE  AcceptedMoves /\ SettledMoves /\ CountMoves
<1>1. reader \in ReaderStates /\ count \in [Events -> Nat]
  BY DEF IInv, TypeOK
<1>2. ASSUME NEW pc, ReaderGoto(pc)
      PROVE  reader'.pc = pc /\ reader'.file = reader.file /\ reader'.pos = reader.pos
  BY <1>1, <1>2 DEF ReaderGoto, ReaderStates
<1>3. CASE ~ConsumerStep
  <2>1. UNCHANGED accepted
    BY <1>3 DEF Next, WorkerStep, WorkerFault, TakeTimestamp, WriteImage, ChooseFile, OpenExisting,
       CreateFile, AppendLine, WriteImageFails, WriteFails, WorkerCrash, outsideWriter, SweepStep,
       SweepStart, SweepStat, SweepUnlink, SweepNextDir, outsideSweep, Tick, vars, ReaderStep, ReaderCrash,
       ChooseTracked, ChooseOldest, RenameFile, CheckDataExists, OpenFiles, CountTracked, ReadLine,
       FinalRead, TrackLine, UnlinkData, UnlinkTracker, outsideReader
  <2>2. SettledMoves
    <3>1. CASE ReaderStep
      BY <3>1 DEF SettledMoves, ReaderStep, ChooseTracked, ChooseOldest, RenameFile, CheckDataExists,
         OpenFiles, CountTracked, ReadLine, FinalRead, TrackLine, UnlinkData, UnlinkTracker, ReaderAt
    <3>2. CASE ~ReaderStep /\ ~ReaderCrash
      BY <1>3, <3>2 DEF SettledMoves, Next, WorkerStep, WorkerFault, TakeTimestamp, WriteImage, ChooseFile,
         OpenExisting, CreateFile, AppendLine, WriteImageFails, WriteFails, WorkerCrash, outsideWriter,
         SweepStep, SweepStart, SweepStat, SweepUnlink, SweepNextDir, outsideSweep, Tick, vars
    <3> QED BY <3>1, <3>2 DEF SettledMoves
  <2> QED BY <2>1, <2>2, StepCounts DEF AcceptedMoves, IInv
<1>4. CASE ConsumerStep
  <2>1. AcceptedMoves
    BY <1>2, <1>4 DEF AcceptedMoves, ConsumerStep, CheckCache, SubmitAccepted, SubmitRetryable,
       SubmitReplyLost, RetryWait, SubmitFails, HandleFailure, CacheRequest, UnlinkImage, CloudTakesIn,
       Occurs, outsideConsumer, ReaderAt
  <2>2. SettledMoves
    BY <1>2, <1>4 DEF SettledMoves, ConsumerStep, CheckCache, SubmitAccepted, SubmitRetryable,
       SubmitReplyLost, RetryWait, SubmitFails, HandleFailure, CacheRequest, ReaderAt
  <2> QED BY <2>1, <2>2, StepCounts DEF IInv
<1> QED BY <1>3, <1>4

-----------------------------------------------------------------------------
(* Each kill and each lost reply costs at most one duplicate. *)

\* What is in Costs.
LEMMA InCosts ==
    /\ \A x \in Costs : \E e \in Escalations, n \in Nat : x = <<e, n>>
    /\ \A e \in Escalations, n \in Nat :
          <<e, n>> \in Costs <=> n \in 1..accepted[e] /\ (n > 1 \/ Exposed(e))
BY DEF Costs

\* The same after a step.
LEMMA InCostsNext ==
    /\ \A x \in Costs' : \E e \in Escalations, n \in Nat : x = <<e, n>>
    /\ \A e \in Escalations, n \in Nat :
          <<e, n>> \in Costs' <=> n \in 1..accepted'[e] /\ (n > 1 \/ Exposed(e)')
BY DEF Costs

\* An escalation that was taken in becomes exposed only when the reader is killed with
\* its settled line in hand.
LEMMA ExposedMoves ==
    ASSUME IInv, PlaceInv, LinesInv, CostInv, [Next]_vars, UNCHANGED accepted,
           NEW e \in Escalations, Exposed(e)'
    PROVE  Exposed(e) \/ (ReaderCrash /\ e = Line)
<1>1. accepted[e] > 0 /\ e \in written
  BY DEF Exposed, CostInv
<1>2. Exists(Image(e))
  <2>1. PictureMoves
    BY StepTimes
  <2>2. \A w \in Workers : writer[w].pc = "image" => writer[w].esc # e
    BY <1>1 DEF LinesInv
  <2> QED BY <2>1, <2>2 DEF PictureMoves, Exposed, Exists, Dirs
<1>3. SUFFICES ASSUME reader.pc \in {"cache", "unlinkImage"}, e = Line, ~ReaderCrash PROVE FALSE
  BY <1>1, <1>2 DEF Exposed
<1>4. /\ reader.file \in Files /\ reader.pos \in 1..Len(content[reader.file])
  BY <1>3, LineInHand DEF Settled
<1>5. CASE /\ reader'.pc \in {"cache", "unlinkImage"}
           /\ reader'.file = reader.file /\ reader'.pos = reader.pos
  <2>1. content'[reader.file][reader.pos] = content[reader.file][reader.pos]
    BY <1>4, LinesKept
  <2> QED BY <1>3, <1>5, <2>1 DEF Exposed, Line
<1>6. CASE UnlinkImage
  <2>1. loc \in [Entries -> Dirs \cup {"none", "gone"}] /\ Image(e) \in Entries
    BY EntryFacts DEF IInv, TypeOK
  <2>2. loc'[Image(e)] \notin Dirs
    BY <1>2, <1>3, <1>6, <2>1 DEF UnlinkImage, UnlinkIfPresent, Unlink, Dirs
  <2> QED BY <2>2 DEF Exposed, Exists
<1> QED BY <1>3, <1>5, <1>6, StepAccepts DEF SettledMoves

\* One more element, or none, in a finite set that is bounded by a growing number.
LEMMA GrowsByOne ==
    ASSUME NEW S, NEW T, NEW x, NEW b \in Nat, NEW c \in Nat, IsFiniteSet(S), Cardinality(S) <= b,
           T \subseteq S \cup {x}, b <= c, b < c \/ T \subseteq S
    PROVE  IsFiniteSet(T) /\ Cardinality(T) <= c
<1>1. Cardinality(S) \in Nat
  BY FS_CardinalityType
<1>2. IsFiniteSet(S \cup {x}) /\ Cardinality(S \cup {x}) <= Cardinality(S) + 1
  BY <1>1, FS_AddElement
<1>3. Cardinality(S \cup {x}) \in Nat
  BY <1>2, FS_CardinalityType
<1>4. IsFiniteSet(T) /\ Cardinality(T) <= Cardinality(S \cup {x})
  BY <1>2, FS_Subset
<1>5. Cardinality(T) \in Nat
  BY <1>4, FS_CardinalityType
<1>6. CASE b < c
  BY <1>1, <1>2, <1>3, <1>4, <1>5, <1>6
<1>7. CASE T \subseteq S
  <2>1. Cardinality(T) <= Cardinality(S)
    BY <1>7, FS_Subset
  <2> QED BY <1>1, <1>4, <1>5, <2>1
<1> QED BY <1>6, <1>7

\* One element exchanged for another leaves the bound as it is.
LEMMA Exchanged ==
    ASSUME NEW S, NEW T, NEW x, NEW y \in S, NEW b \in Nat, IsFiniteSet(S), Cardinality(S) <= b,
           T \subseteq (S \ {y}) \cup {x}
    PROVE  IsFiniteSet(T) /\ Cardinality(T) <= b
<1>1. /\ Cardinality(S) \in Nat /\ IsFiniteSet(S \ {y})
      /\ Cardinality(S \ {y}) = Cardinality(S) - 1
  BY FS_CardinalityType, FS_RemoveElement
<1>2. Cardinality(S \ {y}) \in Nat
  BY <1>1, FS_CardinalityType
<1>3. Cardinality(S) - 1 \in Nat /\ Cardinality(S) - 1 < b
  BY <1>1, <1>2
<1> QED
  <2> DEFINE R == S \ {y}  a == Cardinality(S) - 1
  <2>1. a \in Nat /\ IsFiniteSet(R) /\ Cardinality(R) <= a /\ T \subseteq R \cup {x} /\ a <= b /\ a < b
    BY <1>1, <1>2, <1>3
  <2> HIDE DEF R, a
  <2> QED BY <2>1, GrowsByOne

\* Every step keeps the account.
LEMMA CostStep ==
    ASSUME IInv, PlaceInv, LinesInv, CostInv, [Next]_vars
    PROVE  CostInv'
<1> DEFINE b == count["crash"] + count["lostReply"]
           c == count'["crash"] + count'["lostReply"]
<1>1. /\ accepted \in [Escalations -> Nat] /\ count \in [Events -> Nat] /\ count' \in [Events -> Nat]
      /\ {"crash", "lostReply"} \subseteq Events
  <2>1. IInv'
    BY StepInv
  <2> QED BY <2>1 DEF IInv, TypeOK, Events
<1>2. b \in Nat /\ c \in Nat /\ b <= c
  <2>1. CountMoves
    BY StepAccepts
  <2> QED BY <1>1, <2>1 DEF CountMoves
<1>3. IsFiniteSet(Costs) /\ Cardinality(Costs) <= b
  BY DEF CostInv
<1>4. written \subseteq written'
  <2>1. HandMoves
    BY StepMoves
  <2> QED BY <2>1 DEF HandMoves, TakeTimestamp, AppendLine
<1>5. CASE UNCHANGED accepted
  <2>1. \A e \in Escalations : accepted'[e] > 0 => e \in written'
    BY <1>4, <1>5 DEF CostInv
  <2>2. Costs' \subseteq Costs \cup {<<Line, 1>>} /\ (b < c \/ Costs' \subseteq Costs)
    <3>1. ASSUME NEW e \in Escalations, NEW n \in Nat, <<e, n>> \in Costs'
          PROVE  <<e, n>> \in Costs \/ (ReaderCrash /\ e = Line /\ n = 1)
      <4>1. n \in 1..accepted[e] /\ (n > 1 \/ Exposed(e)')
        BY <1>5, <3>1, InCostsNext
      <4>2. Exposed(e)' => Exposed(e) \/ (ReaderCrash /\ e = Line)
        BY <1>5, ExposedMoves
      <4> QED BY <1>1, <4>1, <4>2, InCosts
    <3>2. ReaderCrash => b < c
      <4>1. ReaderCrash => count' = [count EXCEPT !["crash"] = @ + 1]
        BY DEF ReaderCrash, Occurs
      <4> QED BY <1>1, <4>1
    <3> QED BY <3>1, <3>2, InCostsNext
  <2>3. IsFiniteSet(Costs') /\ Cardinality(Costs') <= c
    <3> HIDE DEF b, c
    <3> QED BY <1>2, <1>3, <2>2, GrowsByOne
  <2> QED BY <2>1, <2>3 DEF CostInv
<1>6. CASE ~UNCHANGED accepted
  <2>1. /\ reader.pc = "submit" /\ Exists(Image(Line))
        /\ accepted' = [accepted EXCEPT ![Line] = @ + 1]
        /\ reader'.file = reader.file /\ reader'.pos = reader.pos
        /\ UNCHANGED <<content, loc, written>>
        /\ \/ reader'.pc = "cache" /\ UNCHANGED count
           \/ reader'.pc = "wait" /\ count' = [count EXCEPT !["lostReply"] = @ + 1]
    BY <1>6, StepAccepts DEF AcceptedMoves
  <2>2. Line \in Escalations /\ Line \in written /\ Line' = Line
    <3>1. Line \in Escalations
      BY <2>1, LineType DEF IInv, Undecided
    <3>2. reader.file \in Files /\ reader.pos \in 1..Len(content[reader.file])
      BY <2>1, LineInHand DEF Undecided
    <3> QED BY <2>1, <3>1, <3>2 DEF Line, LinesInv
  <2>3. \A e \in Escalations : accepted'[e] > 0 => e \in written'
    BY <1>1, <2>1, <2>2 DEF CostInv
  <2> DEFINE n1 == accepted[Line] + 1
  <2>4. ASSUME NEW e \in Escalations, NEW n \in Nat, <<e, n>> \in Costs'
        PROVE  <<e, n>> \in Costs \/ (e = Line /\ n = n1)
    <3>1. n \in 1..accepted'[e] /\ (n > 1 \/ Exposed(e)')
      BY <2>4, InCostsNext
    <3>2. CASE e # Line
      <4>1. accepted'[e] = accepted[e]
        BY <1>1, <2>1, <3>2
      <4>2. Exposed(e)' => Exposed(e)
        BY <2>1, <4>1 DEF Exposed, Exists
      <4> QED BY <3>1, <4>1, <4>2, InCosts
    <3>3. CASE e = Line /\ n # n1
      <4>1. accepted'[e] = accepted[e] + 1 /\ accepted[e] \in Nat
        BY <1>1, <2>1, <2>2, <3>3
      <4>2. n \in 1..accepted[e] /\ accepted[e] > 0
        BY <3>1, <3>3, <4>1
      <4>3. Exposed(e)
        BY <2>1, <3>3, <4>2 DEF Exposed
      <4> QED BY <4>2, <4>3, InCosts
    <3> QED BY <3>2, <3>3
  <2>5. Costs' \subseteq Costs \cup {<<Line, n1>>}
    BY <2>4, InCostsNext
  <2>6. CASE reader'.pc = "wait" /\ count' = [count EXCEPT !["lostReply"] = @ + 1]
    <3>1. b < c
      BY <1>1, <2>6
    <3>2. IsFiniteSet(Costs') /\ Cardinality(Costs') <= c
      <4> HIDE DEF b, c, n1
      <4> QED BY <1>2, <1>3, <2>5, <3>1, GrowsByOne
    <3> QED BY <2>3, <3>2 DEF CostInv
  <2>7. CASE reader'.pc = "cache" /\ UNCHANGED count
    <3>1. <<Line, 1>> \notin Costs'
      <4>1. \A e \in Escalations : e = Line => ~Exposed(e)'
        BY <2>2, <2>7 DEF Exposed
      <4> QED BY <2>2, <4>1, InCostsNext
    <3>2. CASE accepted[Line] = 0
      <4>1. n1 = 1
        BY <3>2
      <4>2. Costs' \subseteq Costs
        BY <2>5, <3>1, <4>1
      <4>3. IsFiniteSet(Costs') /\ Cardinality(Costs') <= c
        <5> HIDE DEF b, c, n1
        <5> QED BY <1>2, <1>3, <2>5, <4>2, GrowsByOne
      <4> QED BY <2>3, <4>3 DEF CostInv
    <3>3. CASE accepted[Line] # 0
      <4>1. accepted[Line] > 0 /\ 1 \in 1..accepted[Line]
        BY <1>1, <2>2, <3>3
      <4>2. <<Line, 1>> \in Costs
        BY <2>1, <2>2, <4>1, InCosts DEF Exposed
      <4>3. Costs' \subseteq (Costs \ {<<Line, 1>>}) \cup {<<Line, n1>>}
        BY <2>5, <3>1
      <4>4. c = b
        BY <2>7
      <4>5. IsFiniteSet(Costs') /\ Cardinality(Costs') <= c
        <5> HIDE DEF b, c, n1
        <5> QED BY <1>2, <1>3, <4>2, <4>3, <4>4, Exchanged
      <4> QED BY <2>3, <4>5 DEF CostInv
    <3> QED BY <3>2, <3>3
  <2> QED BY <2>1, <2>6, <2>7
<1> QED BY <1>5, <1>6

\* At first nothing was taken in.
LEMMA CostInit == Init => CostInv
<1> SUFFICES ASSUME Init PROVE CostInv
  OBVIOUS
<1>1. \A e \in Escalations : accepted[e] = 0
  BY DEF Init
<1>2. Costs = {}
  BY <1>1 DEF Costs
<1>3. IsFiniteSet({}) /\ Cardinality({}) = 0
  BY FS_EmptySet
<1>4. count["crash"] + count["lostReply"] = 0
  BY DEF Init, Events
<1> QED BY <1>1, <1>2, <1>3, <1>4 DEF CostInv

\* The account of submissions that may be repeated is kept.
THEOREM CostsInductive == Spec => []CostInv
<1>1. IInv /\ PlaceInv /\ LinesInv /\ CostInv /\ [Next]_vars => CostInv'
  BY CostStep
<1> QED BY <1>1, CostInit, Inductive, QueueFilesInPlace, WrittenOnce, PTL DEF Spec

\* However the processes of the queue interleave, and whatever retention removes,
\* read_from_escalation_queue submits an escalation that the cloud has already taken in at
\* most once for each kill of a process and each reply that was lost.
THEOREM DuplicatesHaveACause == Spec => []DuplicatesBounded
<1>1. IInv /\ CostInv => DuplicatesBounded
  <2> SUFFICES ASSUME IInv, CostInv PROVE DuplicatesBounded
    OBVIOUS
  <2>1. Duplicates \subseteq Costs
    BY DEF Duplicates, Costs, IInv, TypeOK
  <2>2. count["crash"] \in Nat /\ count["lostReply"] \in Nat
    BY DEF IInv, TypeOK, Events
  <2>3. Cardinality(Costs) \in Nat /\ IsFiniteSet(Duplicates)
        /\ Cardinality(Duplicates) <= Cardinality(Costs)
    BY <2>1, FS_Subset, FS_CardinalityType DEF CostInv
  <2>4. Cardinality(Duplicates) \in Nat
    BY <2>3, FS_CardinalityType
  <2> DEFINE d == Cardinality(Duplicates)  n == Cardinality(Costs)
  <2>5. d <= n /\ n <= count["crash"] + count["lostReply"] /\ d \in Nat /\ n \in Nat
    BY <2>3, <2>4 DEF CostInv
  <2>6. d <= count["crash"] + count["lostReply"]
    <3> HIDE DEF d, n
    <3> QED BY <2>2, <2>5
  <2> QED BY <2>6 DEF DuplicatesBounded
<1> QED BY <1>1, CostsInductive, Inductive, PTL

-----------------------------------------------------------------------------
(* In what order the lines of one file are settled. *)

\* Within a file lines are settled in their order; a file that retention removed under
\* the reader has only lost lines; what was appended after the final read is not settled.
PrefixInv ==
    LET f == reader.file IN
    /\ \A g \in Files : \A i, j \in 1..Len(content[g]) :
          i < j /\ Handled(content[g][j]) => Handled(content[g][i])
    /\ reader.pc \in Iterating \cup {"count", "unlinkData"} /\ loc[Data(f)] = "gone" =>
          \A i \in 1..Len(content[f]) : content[f][i] \in late \cup purged
    /\ reader.pc = "unlinkData" \/ (reader.last = "yes" /\ reader.pc # "unlinkTracker") =>
          \A i \in 1..Len(content[f]) : i > reader.pos => ~Handled(content[f][i])

\* The lines of a data file that disappears are purged, or the reader is done with it.
GoneMoves ==
    /\ late \subseteq late' /\ purged \subseteq purged'
    /\ \A f \in Files : loc[Data(f)] # "gone" /\ loc'[Data(f)] = "gone" =>
          \/ UnlinkData /\ f = reader.file
          \/ UNCHANGED content /\ \A i \in 1..Len(content[f]) : content[f][i] \in purged'

\* The reader has a file open, or is done reading it, because it had it open before or
\* has found it in reading/; it comes to the last line of a file by the final read.
EndMoves ==
    /\ reader'.pc \in Iterating \cup {"count", "unlinkData"} =>
          /\ reader'.file = reader.file
          /\ \/ reader.pc \in Iterating \cup {"count", "unlinkData"}
             \/ reader.pc = "open" /\ loc'[Data(reader.file)] = "reading"
    /\ reader'.pc = "unlinkData" \/ (reader'.last = "yes" /\ reader'.pc # "unlinkTracker") =>
          /\ reader'.file = reader.file
          /\ \/ /\ reader.pc = "unlinkData" \/ (reader.last = "yes" /\ reader.pc # "unlinkTracker")
                /\ reader'.pos = reader.pos
             \/ UNCHANGED content /\ reader'.pos >= Len(content[reader.file])

\* What any step can do to lost lines.
LEMMA StepGone ==
    ASSUME IInv, PlaceInv, [Next]_vars
    PROVE  GoneMoves
<1>1. DataMoves
  BY StepMoves
<1>2. loc \in [Entries -> Dirs \cup {"none", "gone"}] /\ content \in [Files -> Seq(Escalations)]
  BY DEF IInv, TypeOK
<1>3. CASE SweepUnlink
  <2>1. late \subseteq late' /\ purged \subseteq purged' /\ UNCHANGED content
    BY <1>3 DEF SweepUnlink, outsideSweep
  <2>2. ASSUME NEW f \in Files, loc[Data(f)] # "gone", loc'[Data(f)] = "gone",
               NEW i \in 1..Len(content[f])
        PROVE  content[f][i] \in purged'
    <3>1. Data(f) \in Entries /\ content[f][i] \in Escalations /\ i \in DOMAIN content[f]
      BY <1>2, EntryFacts
    <3>2. sweep.victim = Data(f)
      BY <1>2, <1>3, <2>2, <3>1 DEF SweepUnlink
    <3> QED BY <1>2, <1>3, <2>2, <3>1, <3>2 DEF SweepUnlink
  <2> QED BY <2>1, <2>2 DEF GoneMoves
<1>4. CASE ~SweepUnlink
  <2>1. late \subseteq late' /\ purged \subseteq purged'
    BY <1>4 DEF Next, WorkerStep, WorkerFault, TakeTimestamp, WriteImage, ChooseFile, OpenExisting,
       CreateFile, AppendLine, WriteImageFails, WriteFails, WorkerCrash, outsideWriter, SweepStep,
       SweepStart, SweepStat, SweepNextDir, outsideSweep, Tick, vars, ReaderStep, ReaderCrash,
       ChooseTracked, ChooseOldest, RenameFile, CheckDataExists, OpenFiles, CountTracked, ReadLine,
       FinalRead, TrackLine, UnlinkData, UnlinkTracker, outsideReader, ConsumerStep, CheckCache,
       SubmitAccepted, SubmitRetryable, SubmitReplyLost, RetryWait, SubmitFails, HandleFailure,
       CacheRequest, UnlinkImage, outsideConsumer
  <2>2. ASSUME NEW f \in Files, loc[Data(f)] # "gone", loc'[Data(f)] = "gone"
        PROVE  UnlinkData /\ f = reader.file
    <3>1. Data(f) \in Entries /\ ~UNCHANGED loc
      BY <2>2, EntryFacts
    <3>2. ASSUME NEW x, x # Data(f), NEW d, loc' = [loc EXCEPT ![x] = d] PROVE FALSE
      BY <1>2, <2>2, <3>1, <3>2
    <3>3. ASSUME NEW x, NEW d, d # "gone", loc' = [loc EXCEPT ![x] = d] PROVE FALSE
      BY <1>2, <2>2, <3>1, <3>3
    <3>4. \A g : Data(f) # Tracker(g) /\ Data(f) # Image(g)
      BY EntryFacts
    <3>6. CASE \E w \in Workers : WorkerStep(w) \/ WorkerFault(w)
      BY <3>1, <3>3, <3>6 DEF WorkerStep, WorkerFault, TakeTimestamp, WriteImage, PutImage, ChooseFile,
         OpenExisting, CreateFile, AppendLine, WriteImageFails, WriteFails, WorkerCrash, diskVars
    <3>7. CASE ConsumerStep
      BY <3>1, <3>2, <3>4, <3>7 DEF ConsumerStep, CheckCache, SubmitAccepted, SubmitRetryable,
         SubmitReplyLost, RetryWait, SubmitFails, HandleFailure, CacheRequest, UnlinkImage, UnlinkIfPresent,
         Unlink
    <3>8. CASE SweepStep \/ Tick \/ UNCHANGED vars
      BY <1>4, <3>1, <3>8 DEF SweepStep, SweepStart, SweepStat, SweepNextDir, Tick, vars, diskVars
    <3>9. CASE (ReaderStep \/ ReaderCrash) /\ ~UnlinkData
      BY <3>1, <3>2, <3>3, <3>4, <3>9 DEF ReaderStep, ReaderCrash, ChooseTracked, ChooseOldest, RenameFile,
         CheckDataExists, OpenFiles, CountTracked, ReadLine, FinalRead, TrackLine, UnlinkTracker,
         UnlinkIfPresent, Unlink, diskVars
    <3>10. UnlinkData => f = reader.file
      <4>1. \A g : Data(g) = Data(f) => g = f
        BY EntryFacts
      <4> QED BY <3>2, <4>1 DEF UnlinkData, Unlink
    <3> QED BY <3>6, <3>7, <3>8, <3>9, <3>10 DEF Next, ReaderStep
  <2> QED BY <2>1, <2>2 DEF GoneMoves
<1> QED BY <1>3, <1>4

\* How any step leads to an open file and to its last line.
LEMMA StepEnds ==
    ASSUME IInv, [Next]_vars
    PROVE  EndMoves
<1>1. reader \in ReaderStates
  BY DEF IInv, TypeOK
<1>2. ASSUME NEW pc, ReaderGoto(pc)
      PROVE  /\ reader'.pc = pc /\ reader'.file = reader.file
             /\ reader'.pos = reader.pos /\ reader'.last = reader.last
  BY <1>1, <1>2 DEF ReaderGoto, ReaderStates
<1>3. CASE UNCHANGED reader
  BY <1>3 DEF EndMoves
<1>4. CASE ReaderReset
  BY <1>4 DEF EndMoves, ReaderReset, Iterating, Undecided, Settled
<1>5. reader.last = "yes" => reader.pc \in Undecided \cup Settled \cup {"unlinkData", "unlinkTracker"}
  BY DEF IInv, ReaderInv
<1>6. CASE ConsumerStep
  <2>1. PICK pc \in Iterating \ {"read", "sleep"} : ReaderGoto(pc)
    BY <1>6 DEF ConsumerStep, CheckCache, SubmitAccepted, SubmitRetryable, SubmitReplyLost, RetryWait,
       SubmitFails, HandleFailure, CacheRequest, UnlinkImage, Iterating, Undecided, Settled
  <2>2. reader.pc \in Iterating /\ reader.pc # "unlinkTracker" /\ pc # "unlinkData"
    BY <1>6 DEF ConsumerStep, CheckCache, SubmitAccepted, SubmitRetryable, SubmitReplyLost, RetryWait,
       SubmitFails, HandleFailure, CacheRequest, UnlinkImage, Iterating, Undecided, Settled, ReaderAt
  <2> QED BY <1>2, <2>1, <2>2 DEF EndMoves
<1>7. CASE ChooseTracked \/ ChooseOldest \/ RenameFile \/ CheckDataExists
  <2>1. reader.pc \in {"choose", "rename", "exists"}
    BY <1>7 DEF ChooseTracked, ChooseOldest, RenameFile, CheckDataExists, ReaderAt
  <2>2. ReaderReset \/ (reader'.pc \in {"rename", "exists", "open"} /\ reader'.last = reader.last)
    BY <1>1, <1>7 DEF ChooseTracked, ChooseOldest, RenameFile, CheckDataExists, ReaderGoto, ReaderStates
  <2>3. reader.last # "yes"
    BY <1>5, <2>1 DEF Undecided, Settled
  <2> QED BY <1>4, <2>2, <2>3 DEF EndMoves, Iterating, Undecided, Settled
<1>8. CASE OpenFiles
  <2>1. reader.pc = "open" /\ reader.last # "yes"
    BY <1>5, <1>8 DEF OpenFiles, ReaderAt, Undecided, Settled
  <2>2. CASE ReaderReset
    BY <1>4, <2>2
  <2>3. CASE ReaderGoto("count") /\ loc[Data(reader.file)] = "reading"
    <3>1. loc'[Data(reader.file)] = "reading"
      <4>1. /\ Data(reader.file) # Tracker(reader.file)
            /\ reader.file \in Files /\ Data(reader.file) \in Entries
        BY <2>1, EntryFacts DEF IInv, ReaderInv
      <4>2. loc \in [Entries -> Dirs \cup {"none", "gone"}]
        BY DEF IInv, TypeOK
      <4>3. UNCHANGED loc \/ loc' = [loc EXCEPT ![Tracker(reader.file)] = "reading"]
        BY <1>8 DEF OpenFiles, diskVars
      <4> QED BY <2>3, <4>1, <4>2, <4>3
    <3> QED BY <1>2, <2>1, <2>3, <3>1 DEF EndMoves
  <2> QED BY <1>8, <2>2, <2>3 DEF OpenFiles
<1>9. CASE CountTracked \/ ReadLine
  <2>1. /\ reader.pc \in {"count", "read"} /\ reader'.pc \in {"read", "consume", "sleep"}
        /\ reader'.file = reader.file /\ reader'.last = reader.last
    BY <1>1, <1>9 DEF CountTracked, ReadLine, ReaderAt, ReaderGoto, ReaderStates
  <2>2. reader.last # "yes"
    BY <1>5, <2>1 DEF Undecided, Settled
  <2> QED BY <2>1, <2>2 DEF EndMoves, Iterating, Undecided, Settled
<1>10. CASE FinalRead
  <2>1. reader.pc = "sleep" /\ reader'.file = reader.file /\ UNCHANGED content
    BY <1>1, <1>10 DEF FinalRead, ReaderAt, ReaderGoto, ReaderStates, outsideReader
  <2>2. Len(content[reader.file]) \in Nat /\ Len(content[reader.file]) <= reader.pos + 1 /\ reader.pos \in Nat
    <3>1. reader.file \in Files
      BY <2>1 DEF IInv, ReaderInv
    <3> QED BY <1>1, <2>1, <3>1 DEF IInv, TypeOK, TailInv, ReaderStates
  <2>3. reader'.pos >= Len(content[reader.file])
    <3>1. CASE MoreLines
      BY <1>1, <1>10, <2>2, <3>1 DEF FinalRead, MoreLines, ReaderStates
    <3>2. CASE ~MoreLines
      BY <1>2, <1>10, <2>2, <3>2 DEF FinalRead, MoreLines
    <3> QED BY <3>1, <3>2
  <2> QED BY <2>1, <2>3 DEF EndMoves, Iterating
<1>11. CASE TrackLine
  BY <1>1, <1>2, <1>11 DEF TrackLine, EndMoves, ReaderAt, Iterating, Settled
<1>12. CASE UnlinkData \/ UnlinkTracker
  BY <1>2, <1>4, <1>12 DEF UnlinkData, UnlinkTracker, EndMoves, Iterating, Undecided, Settled
<1>13. CASE ReaderCrash
  BY <1>4, <1>13 DEF ReaderCrash
<1>14. CASE \E w \in Workers : WorkerStep(w) \/ WorkerFault(w)
  BY <1>3, <1>14 DEF WorkerStep, WorkerFault, TakeTimestamp, WriteImage, ChooseFile, OpenExisting,
     CreateFile, AppendLine, WriteImageFails, WriteFails, WorkerCrash, outsideWriter
<1>15. CASE SweepStep \/ Tick \/ UNCHANGED vars
  BY <1>3, <1>15 DEF SweepStep, SweepStart, SweepStat, SweepUnlink, SweepNextDir, outsideSweep, Tick, vars
<1> QED BY <1>6, <1>7, <1>8, <1>9, <1>10, <1>11, <1>12, <1>13, <1>14, <1>15 DEF Next, ReaderStep

\* A settled line was a line before, and was settled or in the consumer's hand.
LEMMA HandledMoves ==
    ASSUME IInv, PlaceInv, LinesInv, [Next]_vars, NEW f \in Files, NEW i \in 1..Len(content'[f]),
           Handled(content[f][i])'
    PROVE  /\ i \in 1..Len(content[f]) /\ content'[f][i] = content[f][i]
           /\ \/ Handled(content[f][i])
              \/ reader.pc \in Undecided /\ f = reader.file /\ i = reader.pos
<1>1. OutcomeMoves
  BY StepMoves
<1>2. reader.pc \in Undecided =>
         reader.file \in Files /\ reader.pos \in 1..Len(content[reader.file])
  BY LineInHand
<1>3. CASE i \in 1..Len(content[f]) /\ content'[f][i] = content[f][i]
  <2>1. content[f][i] \in Escalations
    BY <1>3 DEF IInv, TypeOK
  <2>2. Handled(content[f][i]) \/ (reader.pc \in Undecided /\ content[f][i] = Line)
    BY <1>1, <1>3, <2>1 DEF OutcomeMoves, Handled
  <2> QED BY <1>2, <1>3, <2>2 DEF LinesInv, Line
<1>4. CASE \E w \in Workers : AppendLine(w) /\ f = writer[w].file /\ content'[f][i] = writer[w].esc
  <2>1. PICK w \in Workers : AppendLine(w) /\ f = writer[w].file /\ content'[f][i] = writer[w].esc
    BY <1>4
  <2>2. writer[w].esc \in Escalations /\ writer[w].esc \notin written
    BY <2>1, AppendFacts DEF LinesInv
  <2>3. Handled(writer[w].esc) \/ (reader.pc \in Undecided /\ writer[w].esc = Line)
    BY <1>1, <2>1, <2>2 DEF OutcomeMoves, Handled
  <2> QED BY <1>2, <2>2, <2>3 DEF LinesInv, Line
<1> QED BY <1>3, <1>4, LineMoves

\* Every step keeps the order within a file.
LEMMA PrefixStep ==
    ASSUME IInv, PlaceInv, LinesInv, PrefixInv, [Next]_vars
    PROVE  PrefixInv'
<1> DEFINE Open == Iterating \cup {"count", "unlinkData"}
<1>1. EndMoves /\ GoneMoves /\ DataMoves
  BY StepEnds, StepGone, StepMoves
<1>2. ASSUME NEW g \in Files, NEW i \in 1..Len(content'[g]), NEW j \in 1..Len(content'[g]),
             i < j, Handled(content[g][j])'
      PROVE  Handled(content[g][i])'
  <2>1. /\ j \in 1..Len(content[g])
        /\ \/ Handled(content[g][j])
           \/ reader.pc \in Undecided /\ g = reader.file /\ j = reader.pos
    BY <1>2, HandledMoves
  <2>2. i \in 1..Len(content[g]) /\ content'[g][i] = content[g][i] /\ content[g][i] \in Escalations
    <3>1. Len(content[g]) \in Nat /\ i \in 1..Len(content[g])
      BY <1>2, <2>1 DEF IInv, TypeOK
    <3>2. content[g][i] \in Escalations
      <4>1. content[g] \in Seq(Escalations)
        BY DEF IInv, TypeOK
      <4> QED BY <3>1, <4>1
    <3> QED BY <3>1, <3>2, LinesKept
  <2>3. Handled(content[g][i])
    <3>1. CASE Handled(content[g][j])
      BY <1>2, <2>1, <2>2, <3>1 DEF PrefixInv
    <3>2. CASE reader.pc \in Undecided /\ g = reader.file /\ j = reader.pos
      BY <1>2, <2>2, <3>2 DEF IInv, PositionInv, Iterating
    <3> QED BY <2>1, <3>1, <3>2
  <2>4. OutcomeMoves
    BY StepMoves
  <2> QED BY <2>2, <2>3, <2>4 DEF OutcomeMoves, Handled
<1>3. ASSUME reader'.pc \in Open, loc'[Data(reader'.file)] = "gone", NEW i \in 1..Len(content'[reader'.file])
      PROVE  content'[reader'.file][i] \in late' \cup purged'
  <2> DEFINE f == reader.file
  <2>1. reader'.file = f /\ reader.pc \in Open
    BY <1>1, <1>3 DEF EndMoves
  <2>2. f \in Files
    BY <2>1 DEF IInv, ReaderInv, Iterating, Undecided, Settled
  <2>3. ~UnlinkData
    BY <1>3 DEF UnlinkData, ReaderGoto, Iterating, Undecided, Settled, IInv, TypeOK, ReaderStates
  <2>4. CASE loc[Data(f)] # "gone"
    <3>1. UNCHANGED content /\ \A k \in 1..Len(content[f]) : content[f][k] \in purged'
      BY <1>1, <1>3, <2>1, <2>2, <2>3, <2>4 DEF GoneMoves
    <3> QED BY <1>3, <2>1, <3>1
  <2>5. CASE loc[Data(f)] = "gone"
    <3>1. CASE i \in 1..Len(content[f]) /\ content'[f][i] = content[f][i]
      <4>1. content[f][i] \in late \cup purged
        BY <2>1, <2>5, <3>1 DEF PrefixInv
      <4> QED BY <1>1, <2>1, <3>1, <4>1 DEF GoneMoves
    <3>2. CASE \E w \in Workers : AppendLine(w) /\ f = writer[w].file /\ content'[f][i] = writer[w].esc
      BY <2>1, <2>5, <3>2 DEF AppendLine, FinishedWith
    <3>3. i \in 1..Len(content'[f])
      BY <1>3, <2>1
    <3> QED BY <2>2, <3>1, <3>2, <3>3, LineMoves
  <2> QED BY <2>4, <2>5
<1>4. ASSUME reader'.pc = "unlinkData" \/ (reader'.last = "yes" /\ reader'.pc # "unlinkTracker"),
             NEW i \in 1..Len(content'[reader'.file]), i > reader'.pos,
             Handled(content[reader.file][i])'
      PROVE  FALSE
  <2> DEFINE f == reader.file
  <2>1. reader'.file = f /\ f \in Files
    <3>1. IInv'
      BY StepInv
    <3>2. reader'.file \in Files
      BY <1>4, <3>1 DEF IInv, ReaderInv, Undecided, Settled
    <3> QED BY <1>1, <1>4, <3>2 DEF EndMoves
  <2>2. /\ i \in 1..Len(content[f])
        /\ \/ Handled(content[f][i])
           \/ reader.pc \in Undecided /\ i = reader.pos
    <3>1. i \in 1..Len(content'[f]) /\ Handled(content[f][i])'
      BY <1>4, <2>1 DEF Handled
    <3> QED BY <2>1, <3>1, HandledMoves
  <2>3. CASE /\ reader.pc = "unlinkData" \/ (reader.last = "yes" /\ reader.pc # "unlinkTracker")
             /\ reader'.pos = reader.pos
    BY <1>4, <2>2, <2>3 DEF PrefixInv, IInv, TypeOK, ReaderStates
  <2>4. CASE UNCHANGED content /\ reader'.pos >= Len(content[f])
    <3>1. Len(content[f]) \in Nat /\ reader'.pos \in Nat
      <4>1. IInv'
        BY StepInv
      <4> QED BY <2>1, <4>1 DEF IInv, TypeOK, ReaderStates
    <3> QED BY <1>4, <2>2, <2>4, <3>1
  <2> QED BY <1>1, <1>4, <2>3, <2>4 DEF EndMoves
<1> QED BY <1>2, <1>3, <1>4 DEF PrefixInv

-----------------------------------------------------------------------------
(* What the request cache holds. *)

\* The cache holds different requests, of settled escalations; what is being
\* submitted is not among them.
CacheInv ==
    /\ Len(cache) <= MaxCacheEntries
    /\ \A i, j \in 1..Len(cache) : cache[i] = cache[j] => i = j
    /\ \A i \in 1..Len(cache) : cache[i] \in SettledRequests
    /\ IsFiniteSet(SettledRequests)
    /\ reader.pc \in {"submit", "wait", "failed"} => ~Cached(cache, RequestOf[Line])

\* RequestCache.add keeps the IDs different, adds none but the new one, and loses one
\* only when the cache is full, which it then remains.
LEMMA CacheAddFacts ==
    ASSUME NEW c \in Seq(Requests), NEW r \in Requests, Len(c) <= MaxCacheEntries,
           \A i, j \in 1..Len(c) : c[i] = c[j] => i = j
    PROVE  /\ Len(CacheAdd(c, r)) <= MaxCacheEntries
           /\ \A i, j \in 1..Len(CacheAdd(c, r)) : CacheAdd(c, r)[i] = CacheAdd(c, r)[j] => i = j
           /\ \A i \in 1..Len(CacheAdd(c, r)) :
                 CacheAdd(c, r)[i] = r \/ \E j \in 1..Len(c) : CacheAdd(c, r)[i] = c[j]
           /\ Len(c) = MaxCacheEntries => Len(CacheAdd(c, r)) = MaxCacheEntries
           /\ \A q : Cached(c, q) => \/ Cached(CacheAdd(c, r), q)
                                     \/ Len(CacheAdd(c, r)) = MaxCacheEntries
<1> DEFINE a == CacheAdd(c, r)
<1>1. MaxCacheEntries \in Nat /\ MaxCacheEntries >= 1 /\ Len(c) \in Nat /\ DOMAIN c = 1..Len(c)
  BY QueueAssumption
<1> DEFINE n == Len(c)  m == MaxCacheEntries
<1>2. n \in Nat /\ m \in Nat /\ n <= m /\ m >= 1
  BY <1>1
<1>3. n < m \/ n = m
  <2> HIDE DEF n, m
  <2> QED BY <1>2
<1>4. CASE Cached(c, r)
  <2>1. a = c
    BY <1>4 DEF CacheAdd
  <2> QED BY <2>1
<1>5. CASE ~Cached(c, r)
  <2>1. \A i \in 1..Len(c) : c[i] # r
    BY <1>1, <1>5 DEF Cached
  <2>2. CASE Len(c) < MaxCacheEntries
    <3>1. a = Append(c, r)
      BY <1>5, <2>2 DEF CacheAdd
    <3>2. /\ a \in Seq(Requests) /\ Len(a) = Len(c) + 1 /\ a[Len(c) + 1] = r
          /\ \A i \in 1..Len(c) : a[i] = c[i]
      BY <3>1
    <3> HIDE DEF a
    <3>3. \A q : Cached(c, q) => Cached(a, q)
      BY <1>1, <3>2 DEF Cached
    <3>4. ASSUME NEW i \in 1..Len(a), NEW j \in 1..Len(a), a[i] = a[j] PROVE i = j
      BY <1>1, <2>1, <3>2, <3>4
    <3>5. \A i \in 1..Len(a) : a[i] = r \/ \E j \in 1..Len(c) : a[i] = c[j]
      BY <1>1, <3>2
    <3>6. Len(a) <= MaxCacheEntries /\ Len(c) # MaxCacheEntries
      <4>1. n < m /\ Len(a) = n + 1
        BY <2>2, <3>2
      <4>2. n + 1 <= m /\ n # m
        <5> HIDE DEF n, m
        <5> QED BY <1>2, <4>1
      <4> QED BY <4>1, <4>2
    <3> USE DEF a
    <3> QED BY <3>3, <3>4, <3>5, <3>6
  <2>3. CASE Len(c) = MaxCacheEntries
    <3> DEFINE s == SubSeq(c, 2, Len(c))
    <3>1. Len(c) = MaxCacheEntries /\ Len(c) - MaxCacheEntries + 2 = 2
      BY <1>1, <2>3
    <3>2. a = Append(s, r)
      BY <1>1, <1>5, <3>1 DEF CacheAdd
    <3>3. s \in Seq(Requests) /\ Len(s) = Len(c) - 1 /\ \A i \in 1..Len(s) : s[i] = c[i + 1]
      <4>1. 2..Len(c) \subseteq 1..Len(c)
        BY <1>1
      <4>2. s \in Seq(Requests)
        BY <1>1, <4>1
      <4>3. Len(s) = Len(c) - 1
        BY <1>1, <3>1
      <4> QED BY <1>1, <4>2, <4>3
    <3> HIDE DEF s
    <3>4. /\ a \in Seq(Requests) /\ Len(a) = Len(c) /\ a[Len(c)] = r
          /\ \A i \in 1..(Len(c) - 1) : a[i] = c[i + 1]
      BY <1>1, <3>1, <3>2, <3>3
    <3> HIDE DEF a
    <3>5. ASSUME NEW i \in 1..Len(a), NEW j \in 1..Len(a), a[i] = a[j] PROVE i = j
      <4>1. \A k \in 1..Len(a) : k = Len(c) \/ (k \in 1..(Len(c) - 1) /\ k + 1 \in 1..Len(c))
        BY <1>1, <3>1, <3>4
      <4>2. CASE i = Len(c) \/ j = Len(c)
        BY <2>1, <3>4, <3>5, <4>1, <4>2
      <4>3. CASE i \in 1..(Len(c) - 1) /\ j \in 1..(Len(c) - 1)
        <5>1. c[i + 1] = c[j + 1] /\ i + 1 \in 1..Len(c) /\ j + 1 \in 1..Len(c)
          BY <1>1, <3>4, <3>5, <4>3
        <5>2. i + 1 = j + 1
          BY <5>1
        <5> QED BY <4>3, <5>2
      <4> QED BY <4>1, <4>2, <4>3
    <3>6. \A i \in 1..Len(a) : a[i] = r \/ \E j \in 1..Len(c) : a[i] = c[j]
      <4>1. \A k \in 1..Len(a) : k = Len(c) \/ (k \in 1..(Len(c) - 1) /\ k + 1 \in 1..Len(c))
        BY <1>1, <3>1, <3>4
      <4> QED BY <3>4, <4>1
    <3>7. Len(a) = MaxCacheEntries
      BY <3>1, <3>4
    <3>8. MaxCacheEntries <= MaxCacheEntries
      BY <1>1
    <3> USE DEF a
    <3> QED BY <3>5, <3>6, <3>7, <3>8
  <2> QED BY <1>3, <2>2, <2>3
<1> QED BY <1>4, <1>5

\* What a step does to the set of settled requests.
LEMMA SettledMore ==
    ASSUME IInv, PlaceInv, [Next]_vars
    PROVE  /\ SettledRequests \subseteq SettledRequests'
           /\ SettledRequests' \subseteq SettledRequests \cup {RequestOf[Line]}
<1>1. OutcomeMoves
  BY StepMoves
<1> QED BY <1>1 DEF OutcomeMoves, SettledRequests

\* Every step keeps the cache.
LEMMA CacheStep ==
    ASSUME IInv, PlaceInv, CacheInv, [Next]_vars
    PROVE  CacheInv'
<1>1. PhaseMoves
  BY StepPhases
<1>2. cache \in Seq(Requests) /\ RequestOf \in [Escalations -> Requests]
  BY QueueAssumption DEF IInv, TypeOK
<1>3. SettledRequests \subseteq SettledRequests' /\ IsFiniteSet(SettledRequests')
  <2>1. IsFiniteSet(SettledRequests \cup {RequestOf[Line]})
    BY FS_AddElement DEF CacheInv
  <2> QED BY <2>1, SettledMore, FS_Subset
<1>4. /\ Len(cache') <= MaxCacheEntries
      /\ \A i, j \in 1..Len(cache') : cache'[i] = cache'[j] => i = j
      /\ \A i \in 1..Len(cache') : cache'[i] \in SettledRequests'
  <2>1. CASE UNCHANGED cache
    BY <1>3, <2>1 DEF CacheInv
  <2>2. CASE reader.pc = "cache" /\ cache' = CacheAdd(cache, RequestOf[Line])
    <3>1. Line \in Escalations /\ RequestOf[Line] \in Requests
      BY <1>2, <2>2, LineType DEF IInv, Settled
    <3>2. Handled(Line)
      <4>1. reader.pos \in 1..Len(content[reader.file])
        BY <2>2, LineInHand DEF Settled
      <4> QED BY <2>2, <4>1 DEF IInv, PositionInv, Line, Iterating, Settled, Undecided
    <3>3. RequestOf[Line] \in SettledRequests
      BY <3>1, <3>2 DEF SettledRequests
    <3>4. Len(cache) <= MaxCacheEntries /\ \A i, j \in 1..Len(cache) : cache[i] = cache[j] => i = j
      BY DEF CacheInv
    <3>5. \A i \in 1..Len(cache) : cache[i] \in SettledRequests'
      BY <1>3 DEF CacheInv
    <3> DEFINE r == RequestOf[Line]  a == CacheAdd(cache, r)
    <3>6. /\ Len(a) <= MaxCacheEntries
          /\ \A i, j \in 1..Len(a) : a[i] = a[j] => i = j
          /\ \A i \in 1..Len(a) : a[i] = r \/ \E j \in 1..Len(cache) : a[i] = cache[j]
      <4>1. r \in Requests
        BY <3>1
      <4> HIDE DEF r
      <4> QED BY <1>2, <3>4, <4>1, CacheAddFacts
    <3>7. cache' = a /\ r \in SettledRequests'
      BY <1>3, <2>2, <3>3
    <3> HIDE DEF a, r
    <3> QED BY <3>5, <3>6, <3>7
  <2> QED BY <1>1, <2>1, <2>2 DEF PhaseMoves
<1>5. reader'.pc \in {"submit", "wait", "failed"} => ~Cached(cache', RequestOf[Line'])
  <2> SUFFICES ASSUME reader'.pc \in {"submit", "wait", "failed"} PROVE ~Cached(cache', RequestOf[Line'])
    OBVIOUS
  <2>1. /\ reader'.file = reader.file /\ reader'.pos = reader.pos
        /\ \/ reader.pc \in {"submit", "wait", "failed"}
           \/ reader.pc = "consume" /\ ~Cached(cache, RequestOf[Line])
    BY <1>1 DEF PhaseMoves
  <2>2. UNCHANGED cache /\ ~Cached(cache, RequestOf[Line])
    BY <1>1, <2>1 DEF PhaseMoves, CacheInv
  <2>3. Line' = Line
    <3>1. reader.file \in Files /\ reader.pos \in 1..Len(content[reader.file])
      BY <2>1, LineInHand DEF Undecided
    <3>2. content'[reader.file][reader.pos] = content[reader.file][reader.pos]
      BY <3>1, LinesKept
    <3> QED BY <2>1, <3>2 DEF Line
  <2> QED BY <2>2, <2>3
<1> QED BY <1>3, <1>4, <1>5 DEF CacheInv, Cached

-----------------------------------------------------------------------------
(* The request of a settled escalation is remembered. *)

\* Line i of f is given to the consumer again, or is in its hand and not cached yet.
Again(f, i) ==
    \/ loc[Data(f)] = "reading" /\ f \in Trackers /\ i > tracked[f]
    \/ /\ f = reader.file
       /\ \/ reader.pc \in {"exists", "open"} /\ loc[Data(f)] = "reading" /\ f \notin Trackers
          \/ reader.pc = "count" /\ (f \in Trackers => i > tracked[f])
          \/ reader.pc \in Iterating /\ i > reader.pos
          \/ reader.pc \in Undecided \cup {"cache"} /\ i = reader.pos

\* Line i of f fell into a gap: retention removed the file, or it is stranded.
Gap(f, i) ==
    \/ loc[Data(f)] = "gone" /\ content[f][i] \in late \cup purged
    \/ Stranded(f)

\* A step that leaves the reader alone leaves a line to be taken again, unless
\* retention removes its file, or the tracking file of a file nobody has in hand.
LEMMA AgainAlone ==
    ASSUME IInv, PlaceInv, PresentInv, PrefixInv, [Next]_vars, UNCHANGED <<reader, tracked, cache>>,
           NEW f \in Files, NEW i \in 1..Len(content[f]), Again(f, i), Handled(content[f][i])
    PROVE  Again(f, i)' \/ Gap(f, i)' \/ Cached(cache, RequestOf[content[f][i]])
<1>1. DataMoves /\ TrackerMoves /\ GoneMoves
  BY StepMoves, StepGone
<1>2. reader \in ReaderStates /\ loc[Data(f)] # "none" /\ tracked \in [Files -> Nat] /\ i \in Nat
  BY DEF IInv, TypeOK, WriterInv
<1>3. ~UnlinkData
  BY <1>2 DEF UnlinkData, ReaderAt, ReaderGoto, ReaderStates
<1>4. content'[f][i] = content[f][i]
  BY LinesKept
<1>5. \A g \in Trackers' : g \in Trackers
  <2>1. ~(reader.pc = "open" /\ reader' = [reader EXCEPT !.pc = "count"])
    BY <1>2 DEF ReaderStates
  <2> QED BY <1>1, <2>1 DEF TrackerMoves, Trackers
<1>6. CASE loc[Data(f)] # "gone" /\ loc'[Data(f)] = "gone"
  BY <1>1, <1>3, <1>4, <1>6 DEF GoneMoves, Gap
<1>7. CASE ~(loc[Data(f)] # "gone" /\ loc'[Data(f)] = "gone")
  <2>1. loc[Data(f)] \in {"reading", "gone"} => loc'[Data(f)] = loc[Data(f)]
    BY <1>1, <1>7 DEF DataMoves
  <2>2. CASE loc[Data(f)] = "reading" /\ f \in Trackers /\ i > tracked[f]
    <3>1. CASE f \in Trackers'
      BY <2>1, <2>2, <3>1 DEF Again
    <3>2. CASE f \notin Trackers' /\ f # reader.file
      BY <2>1, <2>2, <3>2 DEF Gap, Stranded
    <3>3. CASE f \notin Trackers' /\ f = reader.file
      <4>1. reader.pc \notin {"choose", "rename", "unlinkTracker"}
        BY <2>2, <3>3 DEF IInv, ReaderInv, Files, NoFile
      <4>2. CASE reader.pc \in {"exists", "open", "count"}
        BY <2>1, <2>2, <3>3, <4>2 DEF Again
      <4>3. CASE reader.pc = "unlinkData"
        <5>1. tracked[f] = reader.pos
          BY <2>2, <3>3, <4>3 DEF IInv, PositionInv, Undecided, Settled
        <5> QED BY <2>2, <3>3, <4>3, <5>1 DEF PrefixInv
      <4>4. CASE reader.pc \in {"read", "sleep"}
        <5>1. tracked[f] = reader.pos
          BY <2>2, <3>3, <4>4 DEF IInv, PositionInv, Iterating, Undecided, Settled
        <5> QED BY <2>2, <3>3, <4>4, <5>1 DEF Again, Iterating
      <4>5. CASE reader.pc \in Undecided \cup Settled
        <5>1. tracked[f] = reader.pos - 1 /\ reader.pos \in Nat
          BY <1>2, <2>2, <3>3, <4>5 DEF IInv, PositionInv, Iterating, ReaderStates
        <5>2. i = reader.pos \/ i > reader.pos
          BY <1>2, <2>2, <5>1
        <5>3. CASE i > reader.pos
          BY <3>3, <4>5, <5>3 DEF Again, Iterating
        <5>4. CASE i = reader.pos /\ reader.pc \in {"unlinkImage", "track"}
          BY <3>3, <5>4 DEF PresentInv, Line
        <5>5. CASE i = reader.pos /\ reader.pc \in Undecided \cup {"cache"}
          BY <3>3, <5>5 DEF Again
        <5> QED BY <4>5, <5>2, <5>3, <5>4, <5>5 DEF Settled
      <4> QED BY <1>2, <4>1, <4>2, <4>3, <4>4, <4>5 DEF ReaderStates, ReaderPCs, Iterating
    <3> QED BY <3>1, <3>2, <3>3
  <2>3. CASE f = reader.file /\ reader.pc \in {"exists", "open"} /\ loc[Data(f)] = "reading" /\ f \notin Trackers
    BY <1>5, <2>1, <2>3 DEF Again
  <2>4. CASE f = reader.file /\ reader.pc = "count" /\ (f \in Trackers => i > tracked[f])
    BY <1>5, <2>4 DEF Again
  <2>5. CASE f = reader.file /\ (\/ reader.pc \in Iterating /\ i > reader.pos
                                 \/ reader.pc \in Undecided \cup {"cache"} /\ i = reader.pos)
    BY <2>5 DEF Again
  <2> QED BY <2>2, <2>3, <2>4, <2>5 DEF Again
<1> QED BY <1>6, <1>7

\* A kill of the reader leaves a line to be taken again, or its file without a
\* tracking file.
LEMMA AgainAfterKill ==
    ASSUME IInv, PrefixInv, ReaderCrash,
           NEW f \in Files, NEW i \in 1..Len(content[f]), Again(f, i)
    PROVE  Again(f, i)' \/ Gap(f, i)'
<1>1. UNCHANGED <<loc, tracked, content, late, purged>> /\ reader'.file = NoFile
  BY DEF ReaderCrash, diskVars, outsideReader, ReaderReset
<1>2. Trackers' = Trackers /\ f # NoFile /\ i \in Nat /\ reader \in ReaderStates /\ tracked \in [Files -> Nat]
  BY <1>1 DEF Trackers, Files, NoFile, IInv, TypeOK
<1>3. CASE loc[Data(f)] = "reading" /\ f \in Trackers /\ i > tracked[f]
  BY <1>1, <1>2, <1>3 DEF Again
<1>4. CASE loc[Data(f)] = "reading" /\ f \notin Trackers
  BY <1>1, <1>2, <1>4 DEF Gap, Stranded
<1>5. CASE f = reader.file /\ reader.pc \in Iterating \cup {"count"} /\ loc[Data(f)] = "gone"
  BY <1>1, <1>5 DEF Gap, PrefixInv
<1>6. CASE /\ f = reader.file /\ reader.pc \in Iterating \cup {"count"}
           /\ loc[Data(f)] = "reading" /\ f \in Trackers
  <2>1. CASE reader.pc = "count"
    <3>1. i > tracked[f]
      BY <1>6, <2>1 DEF Again, Iterating, Undecided, Settled
    <3> QED BY <1>3, <1>6, <3>1
  <2>2. CASE reader.pc \in Iterating
    <3>1. tracked[f] = IF reader.pc \in Undecided \cup Settled THEN reader.pos - 1 ELSE reader.pos
      BY <1>6, <2>2 DEF IInv, PositionInv
    <3>2. \/ i > tracked[f] \/ i > reader.pos
          \/ reader.pc \in Undecided \cup {"cache"} /\ i = reader.pos
      BY <1>6, <2>2 DEF Again, Iterating, Undecided, Settled
    <3>3. reader.pos \in Nat
      BY <1>2 DEF ReaderStates
    <3>4. i > tracked[f]
      BY <1>2, <3>1, <3>2, <3>3 DEF Settled
    <3> QED BY <1>3, <1>6, <3>4
  <2> QED BY <1>6, <2>1, <2>2
<1>7. f = reader.file /\ reader.pc \in Iterating \cup {"count"} => loc[Data(f)] \in {"reading", "gone"}
  BY DEF IInv, ReaderInv, Iterating, Undecided, Settled
<1>8. \/ loc[Data(f)] = "reading" /\ f \in Trackers /\ i > tracked[f]
      \/ loc[Data(f)] = "reading" /\ f \notin Trackers
      \/ f = reader.file /\ reader.pc \in Iterating \cup {"count"}
  BY DEF Again, Iterating, Settled
<1> QED BY <1>3, <1>4, <1>5, <1>6, <1>7, <1>8

\* The consumer keeps its line until the request is cached.
LEMMA AgainConsumed ==
    ASSUME IInv, PlaceInv, ConsumerStep,
           NEW f \in Files, NEW i \in 1..Len(content[f]), Again(f, i)
    PROVE  Again(f, i)' \/ Cached(cache', RequestOf[content[f][i]])
<1>1. UNCHANGED <<content, tracked>> /\ reader \in ReaderStates
  BY DEF ConsumerStep, CheckCache, SubmitAccepted, SubmitRetryable, SubmitReplyLost, RetryWait,
     SubmitFails, HandleFailure, CacheRequest, UnlinkImage, outsideConsumer, IInv, TypeOK
<1>2. ASSUME NEW pc, ReaderGoto(pc)
      PROVE  reader'.pc = pc /\ reader'.file = reader.file /\ reader'.pos = reader.pos
  BY <1>1, <1>2 DEF ReaderGoto, ReaderStates
<1>3. /\ reader.pc \in Undecided \cup Settled /\ reader'.pc \in Undecided \cup Settled
      /\ reader'.file = reader.file /\ reader'.pos = reader.pos
      /\ reader.pc \in Undecided => reader'.pc \in Undecided \cup {"cache"}
      /\ reader.pc = "cache" => CacheRequest
  BY <1>2 DEF ConsumerStep, CheckCache, SubmitAccepted, SubmitRetryable, SubmitReplyLost, RetryWait,
     SubmitFails, HandleFailure, CacheRequest, UnlinkImage, ReaderAt, Undecided, Settled
<1>4. /\ loc'[Data(f)] = loc[Data(f)]
      /\ f \in Trackers' <=> f \in Trackers
  <2>1. Data(f) \in Entries /\ Tracker(f) \in Entries
        /\ \A e : Data(f) # Image(e) /\ Tracker(f) # Image(e)
    BY EntryFacts
  <2>2. loc \in [Entries -> Dirs \cup {"none", "gone"}]
    BY DEF IInv, TypeOK
  <2>3. UNCHANGED loc \/ \E e : loc' = [loc EXCEPT ![Image(e)] = "gone"]
    BY DEF ConsumerStep, CheckCache, SubmitAccepted, SubmitRetryable, SubmitReplyLost, RetryWait,
       SubmitFails, HandleFailure, CacheRequest, UnlinkImage, UnlinkIfPresent, Unlink
  <2> QED BY <2>1, <2>2, <2>3 DEF Trackers
<1>5. CASE loc[Data(f)] = "reading" /\ f \in Trackers /\ i > tracked[f]
  BY <1>1, <1>4, <1>5 DEF Again
<1>6. CASE f = reader.file /\ i > reader.pos
  BY <1>3, <1>6 DEF Again, Iterating
<1>7. CASE f = reader.file /\ reader.pc \in Undecided /\ i = reader.pos
  BY <1>3, <1>7 DEF Again
<1>8. CASE f = reader.file /\ reader.pc = "cache" /\ i = reader.pos
  <2>1. cache' = CacheAdd(cache, RequestOf[Line]) /\ Line = content[f][i]
    BY <1>3, <1>8 DEF CacheRequest, Line
  <2>2. cache \in Seq(Requests) /\ RequestOf[content[f][i]] \in Requests
    <3>1. content[f][i] \in Escalations
      BY DEF IInv, TypeOK
    <3> QED BY <3>1, QueueAssumption DEF IInv, TypeOK
  <2> QED BY <2>1, <2>2, CacheHas
<1> QED BY <1>3, <1>5, <1>6, <1>7, <1>8 DEF Again, Undecided, Settled

\* The reader goes on to the line that is to be taken again; it counts a line only once
\* its request is cached, and unlinks a file only when no settled line is left.
LEMMA AgainRead ==
    ASSUME IInv, PlaceInv, PresentInv, PrefixInv, ReaderStep,
           NEW f \in Files, NEW i \in 1..Len(content[f]), Again(f, i), Handled(content[f][i])
    PROVE  Again(f, i)' \/ Gap(f, i)' \/ Cached(cache, RequestOf[content[f][i]])
<1>1. /\ UNCHANGED <<content, outcome>> /\ reader \in ReaderStates /\ tracked \in [Files -> Nat]
      /\ i \in Nat /\ reader.pos \in Nat /\ Len(content[f]) \in Nat /\ i <= Len(content[f])
      /\ loc \in [Entries -> Dirs \cup {"none", "gone"}]
  <2>1. UNCHANGED <<content, outcome>>
    BY DEF ReaderStep, ChooseTracked, ChooseOldest, RenameFile, CheckDataExists, OpenFiles, CountTracked,
       ReadLine, FinalRead, TrackLine, UnlinkData, UnlinkTracker, outsideReader
  <2>2. reader \in ReaderStates /\ tracked \in [Files -> Nat] /\ content[f] \in Seq(Escalations)
        /\ loc \in [Entries -> Dirs \cup {"none", "gone"}]
    BY DEF IInv, TypeOK
  <2>3. reader.pos \in Nat
    BY <2>2 DEF ReaderStates
  <2> QED BY <2>1, <2>2, <2>3
<1>2. ASSUME NEW pc, ReaderGoto(pc)
      PROVE  reader'.pc = pc /\ reader'.file = reader.file /\ reader'.pos = reader.pos
  BY <1>1, <1>2 DEF ReaderGoto, ReaderStates
<1>3. reader.pc # "choose" => (f \in Trackers => f = reader.file)
  BY DEF IInv, OneFileInProgress
<1>4. UNCHANGED <<loc, tracked>> /\ loc[Data(f)] = "reading" /\ f \in Trackers /\ i > tracked[f] => Again(f, i)'
  BY DEF Again, Trackers
<1>5. CASE ChooseTracked \/ ChooseOldest
  <2>1. UNCHANGED <<loc, tracked>> /\ reader.pc = "choose"
    BY <1>5 DEF ChooseTracked, ChooseOldest, diskVars, ReaderAt
  <2> QED BY <1>4, <2>1 DEF Again, Iterating, Undecided, Settled
<1>6. CASE RenameFile
  <2>1. reader.pc = "rename" /\ loc[Data(reader.file)] # "reading"
    BY <1>6 DEF RenameFile, ReaderAt, IInv, ReaderInv
  <2> QED BY <1>3, <2>1 DEF Again, Iterating, Undecided, Settled
<1>7. CASE CheckDataExists
  <2>1. reader.pc = "exists" /\ f = reader.file /\ loc[Data(f)] = "reading"
    BY <1>3, <1>7 DEF CheckDataExists, ReaderAt, Again, Iterating, Undecided, Settled
  <2>2. UNCHANGED <<loc, tracked>> /\ reader'.pc = "open" /\ reader'.file = reader.file
    BY <1>2, <1>7, <2>1 DEF CheckDataExists
  <2> QED BY <1>4, <2>1, <2>2 DEF Again, Trackers, Iterating, Undecided, Settled
<1>8. CASE OpenFiles
  <2>1. reader.pc = "open" /\ f = reader.file /\ loc[Data(f)] = "reading"
    BY <1>3, <1>8 DEF OpenFiles, ReaderAt, Again, Iterating, Undecided, Settled
  <2>2. CASE f \in Trackers
    <3>1. UNCHANGED <<loc, tracked>> /\ i > tracked[f]
      BY <1>8, <2>1, <2>2 DEF OpenFiles, diskVars, Again, Iterating, Undecided, Settled
    <3> QED BY <1>4, <2>1, <2>2, <3>1
  <2>3. CASE f \notin Trackers
    <3>1. loc' = [loc EXCEPT ![Tracker(f)] = "reading"] /\ tracked' = [tracked EXCEPT ![f] = 0]
      BY <1>8, <2>1, <2>3 DEF OpenFiles
    <3>2. Data(f) \in Entries /\ Tracker(f) \in Entries /\ Data(f) # Tracker(f)
      BY EntryFacts
    <3>3. loc'[Data(f)] = "reading" /\ loc'[Tracker(f)] = "reading" /\ tracked'[f] = 0
      BY <1>1, <2>1, <3>1, <3>2
    <3> QED BY <3>3 DEF Again, Trackers
  <2> QED BY <2>2, <2>3
<1>9. CASE CountTracked
  <2>1. reader.pc = "count" /\ UNCHANGED <<loc, tracked>>
    BY <1>9 DEF CountTracked, ReaderAt, diskVars
  <2>2. f = reader.file /\ (f \in Trackers => i > tracked[f])
    BY <1>3, <2>1 DEF Again, Iterating, Undecided, Settled
  <2>3. reader'.pc = "read" /\ reader'.file = f /\ reader'.pos < i
    <3>1. CASE f \in Trackers
      <4>1. tracked[f] <= Len(content[f])
        <5>1. \A k \in 1..tracked[f] : k \in DOMAIN content[f]
          BY <3>1 DEF IInv, TrackerNeverAhead
        <5>2. content[f] \in Seq(Escalations)
          BY DEF IInv, TypeOK
        <5> QED BY <1>1, <5>1, <5>2
      <4> QED BY <1>1, <1>9, <2>2, <3>1, <4>1 DEF CountTracked, ReaderStates
    <3>2. CASE f \notin Trackers
      BY <1>1, <1>9, <2>2, <3>2 DEF CountTracked, ReaderStates
    <3> QED BY <3>1, <3>2
  <2> QED BY <2>3 DEF Again, Iterating
<1>10. CASE ReadLine \/ FinalRead
  <2>1. reader.pc \in {"read", "sleep"} /\ UNCHANGED <<loc, tracked>>
    BY <1>10 DEF ReadLine, FinalRead, ReaderAt, diskVars
  <2>2. CASE loc[Data(f)] = "reading" /\ f \in Trackers /\ i > tracked[f]
    BY <1>4, <2>1, <2>2
  <2>3. CASE f = reader.file /\ i > reader.pos
    <3>1. MoreLines
      BY <1>1, <2>3 DEF MoreLines
    <3>2. reader'.pc = "consume" /\ reader'.file = f /\ reader'.pos = reader.pos + 1
      BY <1>1, <1>10, <2>3, <3>1 DEF ReadLine, FinalRead, ReaderStates
    <3>3. i = reader.pos + 1 \/ i > reader.pos + 1
      BY <1>1, <2>3
    <3> QED BY <3>2, <3>3 DEF Again, Iterating, Undecided
  <2> QED BY <2>1, <2>2, <2>3 DEF Again, Undecided
<1>11. CASE TrackLine
  <2>1. reader.pc = "track" /\ UNCHANGED loc /\ f = reader.file
    BY <1>3, <1>11 DEF TrackLine, ReaderAt, Again
  <2>2. f \in Trackers => tracked[f] = reader.pos - 1
    BY <2>1 DEF IInv, PositionInv, Iterating, Settled
  <2>3. i = reader.pos \/ i > reader.pos
    BY <1>1, <2>1, <2>2 DEF Again, Undecided
  <2>4. CASE i = reader.pos
    BY <2>1, <2>4 DEF PresentInv, Line
  <2>5. CASE i > reader.pos
    <3>1. reader.last # "yes"
      BY <2>1, <2>5 DEF PrefixInv
    <3>2. reader'.pc = "read" /\ reader'.file = f /\ reader'.pos = reader.pos
      BY <1>2, <1>11, <2>1, <3>1 DEF TrackLine
    <3> QED BY <2>5, <3>2 DEF Again, Iterating
  <2> QED BY <2>3, <2>4, <2>5
<1>12. CASE UnlinkData
  <2>1. reader.pc = "unlinkData" /\ f = reader.file /\ f \in Trackers /\ i > tracked[f]
    BY <1>3, <1>12 DEF UnlinkData, ReaderAt, Again, Iterating, Undecided, Settled
  <2>2. tracked[f] = reader.pos
    BY <2>1 DEF IInv, PositionInv, Undecided, Settled
  <2> QED BY <2>1, <2>2 DEF PrefixInv
<1>13. CASE UnlinkTracker
  <2>1. reader.pc = "unlinkTracker" /\ loc[Data(reader.file)] = "gone"
    BY <1>13 DEF UnlinkTracker, ReaderAt, IInv, ReaderInv
  <2> QED BY <1>3, <2>1 DEF Again, Iterating, Undecided, Settled
<1> QED BY <1>5, <1>6, <1>7, <1>8, <1>9, <1>10, <1>11, <1>12, <1>13 DEF ReaderStep

\* Every step leaves a line to be taken again, or in a gap, or with its request cached.
LEMMA AgainMoves ==
    ASSUME IInv, PlaceInv, PresentInv, PrefixInv, [Next]_vars,
           NEW f \in Files, NEW i \in 1..Len(content[f]), Again(f, i), Handled(content[f][i])
    PROVE  Again(f, i)' \/ Gap(f, i)' \/ Cached(cache', RequestOf[content[f][i]])
<1>1. CASE ReaderStep
  <2>1. UNCHANGED cache
    BY <1>1 DEF ReaderStep, ChooseTracked, ChooseOldest, RenameFile, CheckDataExists, OpenFiles,
       CountTracked, ReadLine, FinalRead, TrackLine, UnlinkData, UnlinkTracker, outsideReader
  <2> QED BY <1>1, <2>1, AgainRead
<1>2. CASE ~ReaderStep /\ ~ReaderCrash /\ ~ConsumerStep
  <2>1. UNCHANGED <<reader, tracked, cache>>
    BY <1>2 DEF Next, WorkerStep, WorkerFault, TakeTimestamp, WriteImage, ChooseFile, OpenExisting,
       CreateFile, AppendLine, WriteImageFails, WriteFails, WorkerCrash, outsideWriter, SweepStep,
       SweepStart, SweepStat, SweepUnlink, SweepNextDir, outsideSweep, Tick, vars
  <2> QED BY <2>1, AgainAlone
<1> QED BY <1>1, <1>2, AgainAfterKill, AgainConsumed

\* A gap stays a gap: the reader never comes back to a stranded file.
LEMMA GapStays ==
    ASSUME IInv, PlaceInv, [Next]_vars, NEW f \in Files, NEW i \in 1..Len(content[f]), Gap(f, i)
    PROVE  Gap(f, i)'
<1>1. DataMoves /\ TrackerMoves /\ FileMoves /\ GoneMoves /\ content'[f][i] = content[f][i]
  BY StepMoves, StepGone, LinesKept
<1>2. CASE loc[Data(f)] = "gone" /\ content[f][i] \in late \cup purged
  BY <1>1, <1>2 DEF DataMoves, GoneMoves, Gap
<1>3. CASE Stranded(f)
  <2>1. f \notin Trackers'
    <3>1. f \notin Trackers /\ f # reader.file
      BY <1>3 DEF Stranded
    <3> QED BY <1>1, <3>1 DEF TrackerMoves, Trackers
  <2>2. f # reader'.file
    <3>1. f # NoFile
      BY DEF Files, NoFile
    <3> QED BY <1>1, <1>3, <3>1 DEF Stranded, FileMoves, WritingFiles
  <2>3. CASE loc'[Data(f)] = "reading"
    BY <2>1, <2>2, <2>3 DEF Gap, Stranded
  <2>4. CASE loc'[Data(f)] = "gone"
    BY <1>1, <1>3, <2>4 DEF GoneMoves, Gap, Stranded
  <2> QED BY <1>1, <1>3, <2>3, <2>4 DEF Stranded, DataMoves
<1> QED BY <1>2, <1>3 DEF Gap

\* The request of a settled line is remembered: it is in the cache, or the cache is
\* full, or the line is the last settled one of its file and is not done with.
Remembered(f, i) ==
    \/ Cached(cache, RequestOf[content[f][i]])
    \/ Len(cache) = MaxCacheEntries
    \/ Gap(f, i)
    \/ Again(f, i) /\ \A j \in 1..Len(content[f]) : j > i => ~Handled(content[f][j])

RememberedInv ==
    \A f \in Files : \A i \in 1..Len(content[f]) :
        Handled(content[f][i]) => Remembered(f, i)

\* A line becomes settled on its way to the cache.
LEMMA SettlesToCache ==
    ASSUME IInv, [Next]_vars, reader.pc \in Undecided, Line \in Escalations,
           ~Handled(Line), outcome'[Line] # {}
    PROVE  /\ reader'.pc = "cache" /\ reader'.file = reader.file /\ reader'.pos = reader.pos
           /\ UNCHANGED content
<1>1. ~UNCHANGED outcome
  BY DEF Handled
<1>2. CheckCache \/ SubmitAccepted \/ HandleFailure
  BY <1>1 DEF Next, WorkerStep, WorkerFault, TakeTimestamp, WriteImage, ChooseFile, OpenExisting,
     CreateFile, AppendLine, WriteImageFails, WriteFails, WorkerCrash, outsideWriter, SweepStep,
     SweepStart, SweepStat, SweepUnlink, SweepNextDir, outsideSweep, Tick, vars, ReaderStep, ReaderCrash,
     ChooseTracked, ChooseOldest, RenameFile, CheckDataExists, OpenFiles, CountTracked, ReadLine,
     FinalRead, TrackLine, UnlinkData, UnlinkTracker, outsideReader, ConsumerStep, SubmitRetryable,
     SubmitReplyLost, RetryWait, SubmitFails, CacheRequest, UnlinkImage, outsideConsumer
<1>3. ReaderGoto("cache") /\ UNCHANGED content
  BY <1>1, <1>2 DEF CheckCache, SubmitAccepted, HandleFailure, outsideConsumer
<1> QED BY <1>3 DEF ReaderGoto, IInv, TypeOK, ReaderStates

\* Every step remembers what is settled.
LEMMA RememberedStep ==
    ASSUME IInv, PlaceInv, LinesInv, PresentInv, PrefixInv, CacheInv, RememberedInv, [Next]_vars
    PROVE  RememberedInv'
<1> SUFFICES ASSUME NEW f \in Files, NEW i \in 1..Len(content'[f]), Handled(content[f][i])'
             PROVE  Remembered(f, i)'
  BY DEF RememberedInv
<1> DEFINE d == content[f][i]
<1>1. /\ i \in 1..Len(content[f]) /\ content'[f][i] = d
      /\ Handled(d) \/ (reader.pc \in Undecided /\ f = reader.file /\ i = reader.pos)
  BY HandledMoves
<1>2. d \in Escalations /\ RequestOf[d] \in Requests
  BY <1>1, QueueAssumption DEF IInv, TypeOK
<1>3. ASSUME NEW j \in 1..Len(content'[f]), j > i, Handled(content[f][j])'
      PROVE  /\ j \in 1..Len(content[f])
             /\ Handled(content[f][j]) \/ (reader.pc \in Undecided /\ f = reader.file /\ j = reader.pos)
  BY <1>3, HandledMoves
<1>4. CASE ~Handled(d)
  <2>1. reader.pc \in Undecided /\ f = reader.file /\ i = reader.pos /\ Line = d
    BY <1>1, <1>4 DEF Line
  <2>2. /\ reader'.pc = "cache" /\ reader'.file = reader.file /\ reader'.pos = reader.pos
    <3>1. outcome'[Line] # {}
      BY <1>1, <2>1 DEF Handled
    <3> QED BY <1>2, <1>4, <2>1, <3>1, SettlesToCache
  <2>3. Again(f, i)'
    BY <2>1, <2>2 DEF Again
  <2>4. ASSUME NEW j \in 1..Len(content'[f]), j > i, Handled(content[f][j])' PROVE FALSE
    <3>1. j \in 1..Len(content[f]) /\ Handled(content[f][j])
      BY <1>3, <2>1, <2>4
    <3> QED BY <1>1, <1>4, <2>4, <3>1 DEF PrefixInv
  <2> QED BY <2>3, <2>4 DEF Remembered
<1>5. CASE Handled(d)
  <2>1. cache \in Seq(Requests) /\ Len(cache) <= MaxCacheEntries
        /\ \A k, l \in 1..Len(cache) : cache[k] = cache[l] => k = l
    BY DEF IInv, TypeOK, CacheInv
  <2>2. /\ Len(cache) = MaxCacheEntries => Len(cache') = MaxCacheEntries
        /\ Cached(cache, RequestOf[d]) =>
              Cached(cache', RequestOf[d]) \/ Len(cache') = MaxCacheEntries
    <3>1. CASE UNCHANGED cache
      BY <3>1
    <3>2. CASE reader.pc = "cache" /\ cache' = CacheAdd(cache, RequestOf[Line])
      <4>1. RequestOf[Line] \in Requests
        BY <3>2, LineType, QueueAssumption DEF IInv, Settled
      <4> QED BY <2>1, <3>2, <4>1, CacheAddFacts
    <3> QED BY <3>1, <3>2, StepPhases DEF PhaseMoves
  <2>3. Remembered(f, i)
    BY <1>1, <1>5 DEF RememberedInv
  <2>4. CASE Cached(cache, RequestOf[d]) \/ Len(cache) = MaxCacheEntries
    BY <1>1, <2>2, <2>4 DEF Remembered, Cached
  <2>5. CASE Gap(f, i)
    BY <1>1, <2>5, GapStays DEF Remembered
  <2>6. CASE Again(f, i) /\ \A j \in 1..Len(content[f]) : j > i => ~Handled(content[f][j])
    <3>1. Again(f, i)' \/ Gap(f, i)' \/ Cached(cache', RequestOf[d])
      BY <1>1, <1>5, <2>6, AgainMoves
    <3>2. CASE Gap(f, i)'
      BY <3>2 DEF Remembered
    <3>3. CASE Cached(cache', RequestOf[d])
      BY <1>1, <3>3 DEF Remembered, Cached
    <3>4. CASE Again(f, i)'
      <4>1. ASSUME NEW j \in 1..Len(content'[f]), j > i, Handled(content[f][j])' PROVE FALSE
        <5>1. reader.pc \in Undecided /\ f = reader.file /\ j = reader.pos
          BY <1>3, <2>6, <4>1
        <5>2. f \in Trackers => tracked[f] = reader.pos - 1
          BY <5>1, LineInHand
        <5>3. i \in Nat /\ reader.pos \in Nat /\ i < reader.pos /\ reader.pc \notin {"exists", "open", "count"}
          <6>1. reader.pos \in Nat
            BY DEF IInv, TypeOK, ReaderStates
          <6>2. i \in Nat /\ j \in Nat
            BY <1>1, <4>1
          <6> QED BY <4>1, <5>1, <6>1, <6>2 DEF Undecided
        <5>4. ~(i > reader.pos - 1) /\ ~(i > reader.pos) /\ i # reader.pos
          BY <5>3
        <5> QED BY <2>6, <5>2, <5>3, <5>4 DEF Again
      <4> QED BY <3>4, <4>1 DEF Remembered
    <3> QED BY <3>1, <3>2, <3>3, <3>4
  <2> QED BY <2>3, <2>4, <2>5, <2>6 DEF Remembered
<1> QED BY <1>4, <1>5

\* A full cache shows that as many other requests are settled.
LEMMA FullCache ==
    ASSUME IInv, CacheInv, Len(cache) = MaxCacheEntries, NEW r, ~Cached(cache, r)
    PROVE  Cardinality(SettledRequests \ {r}) >= MaxCacheEntries
<1> DEFINE T == SettledRequests \ {r}
           K == 1..MaxCacheEntries
           f == [k \in K |-> cache[k]]
<1>1. MaxCacheEntries \in Nat /\ DOMAIN cache = K
  BY QueueAssumption DEF IInv, TypeOK
<1>2. f \in [K -> T] /\ \A k, l \in K : f[k] = f[l] => k = l
  BY <1>1 DEF CacheInv, Cached
<1>3. IsFiniteSet(T) /\ IsFiniteSet(K) /\ Cardinality(K) = MaxCacheEntries
  <2>1. IsFiniteSet(T)
    BY FS_Subset DEF CacheInv
  <2>2. IsFiniteSet(K) /\ Cardinality(K) = MaxCacheEntries
    BY <1>1, FS_Interval
  <2> QED BY <2>1, <2>2
<1>4. Cardinality(T) \in Nat
  BY <1>3, FS_CardinalityType
<1>5. ASSUME Cardinality(T) < Cardinality(K) PROVE FALSE
  <2> HIDE DEF T, K, f
  <2>1. \E k, l \in K : k # l /\ f[k] = f[l]
    BY <1>2, <1>3, <1>5, FS_PigeonHole
  <2> QED BY <1>2, <2>1
<1>6. Cardinality(T) >= MaxCacheEntries
  <2> DEFINE t == Cardinality(T)  n == Cardinality(K)
  <2>1. t \in Nat /\ n \in Nat /\ ~(t < n) /\ n = MaxCacheEntries
    BY <1>1, <1>3, <1>4, <1>5
  <2>2. t >= n
    <3> HIDE DEF t, n
    <3> QED BY <2>1
  <2> QED BY <2>1, <2>2
<1> QED BY <1>6

\* An escalation is taken in although another one of its request is settled only when
\* the cache is full of other requests.
LEMMA SecondIsEvicted ==
    ASSUME IInv, PlaceInv, LinesInv, PrefixInv, CacheInv, RememberedInv, [Next]_vars,
           NEW e \in Escalations, accepted'[e] # accepted[e],
           NEW d \in Escalations \ {e}, RequestOf[d] = RequestOf[e], Handled(d), ~CutShort(d)
    PROVE  Cardinality(SettledRequests \ {RequestOf[e]}) >= MaxCacheEntries
<1> DEFINE f == reader.file  p == reader.pos
<1>1. reader.pc = "submit" /\ e = Line
  <2>1. reader.pc = "submit" /\ accepted' = [accepted EXCEPT ![Line] = @ + 1]
    BY StepAccepts DEF AcceptedMoves
  <2> QED BY <2>1 DEF IInv, TypeOK
<1>2. /\ f \in Files /\ p \in 1..Len(content[f]) /\ content[f][p] = e
      /\ reader.pc \in Iterating /\ reader.pc \in Undecided
      /\ f \in Trackers => tracked[f] = p - 1
  BY <1>1, LineInHand DEF Line, Undecided, Iterating
<1>3. ~Cached(cache, RequestOf[e])
  BY <1>1 DEF CacheInv
<1>4. \E g \in Files : \E j \in 1..Len(content[g]) : content[g][j] = d
  BY DEF LinesInv, IInv, WrittenInv
<1> PICK g \in Files : \E j \in 1..Len(content[g]) : content[g][j] = d
  BY <1>4
<1>5. PICK j \in 1..Len(content[g]) : content[g][j] = d
  OBVIOUS
<1>6. j \in DOMAIN content[g] /\ j \in Nat /\ p \in Nat
  BY <1>2 DEF IInv, TypeOK, ReaderStates
<1>7. ~Gap(g, j)
  BY <1>5, <1>6 DEF Gap, CutShort
<1>8. SUFFICES ASSUME Len(cache) # MaxCacheEntries PROVE FALSE
  BY <1>3, FullCache
<1>9. Again(g, j) /\ \A k \in 1..Len(content[g]) : k > j => ~Handled(content[g][k])
  BY <1>3, <1>5, <1>7, <1>8 DEF RememberedInv, Remembered
<1>10. g = f /\ j > p
  <2>1. g \in Trackers => g = f
    BY <1>1 DEF IInv, OneFileInProgress
  <2>2. g = f /\ (j > p - 1 \/ j > p \/ j = p)
    BY <1>1, <1>2, <1>9, <2>1 DEF Again
  <2>3. j # p
    BY <1>2, <1>5, <2>2
  <2> QED BY <1>6, <2>2, <2>3
<1>11. Handled(content[f][p]) /\ Handled(content[f][j])
  BY <1>2, <1>5, <1>10 DEF PrefixInv
<1>12. Gap(f, p)
  BY <1>2, <1>3, <1>5, <1>8, <1>10, <1>11 DEF RememberedInv, Remembered
<1>13. loc[Data(f)] = "gone"
  BY <1>12 DEF Gap, Stranded
<1>14. content[f][j] \in late \cup purged
  BY <1>2, <1>5, <1>10, <1>13 DEF PrefixInv
<1> QED BY <1>5, <1>10, <1>14 DEF CutShort

\* The request cache and the order within a file.
THEOREM RequestsRemembered == Spec => [](PrefixInv /\ CacheInv /\ RememberedInv)
<1>1. Init => PrefixInv /\ CacheInv /\ RememberedInv
  <2> SUFFICES ASSUME Init PROVE PrefixInv /\ CacheInv /\ RememberedInv
    OBVIOUS
  <2>1. \A f \in Files : Len(content[f]) = 0
    BY DEF Init
  <2>2. reader.pc = "choose" /\ reader.last = "no" /\ Len(cache) = 0
    BY DEF Init
  <2>3. SettledRequests = {}
    BY DEF Init, SettledRequests, Handled
  <2>4. PrefixInv
    BY <2>1, <2>2 DEF PrefixInv, Iterating, Undecided, Settled
  <2>5. CacheInv
    <3>1. IsFiniteSet(SettledRequests)
      BY <2>3, FS_EmptySet
    <3>2. Len(cache) <= MaxCacheEntries
      BY <2>2, QueueAssumption
    <3> QED BY <2>2, <3>1, <3>2 DEF CacheInv
  <2>6. RememberedInv
    BY <2>1 DEF RememberedInv
  <2> QED BY <2>4, <2>5, <2>6
<1>2. /\ IInv /\ PlaceInv /\ LinesInv /\ PresentInv /\ [Next]_vars
      /\ PrefixInv /\ CacheInv /\ RememberedInv
      => (PrefixInv /\ CacheInv /\ RememberedInv)'
  BY PrefixStep, CacheStep, RememberedStep
<1> QED BY <1>1, <1>2, Inductive, QueueFilesInPlace, WrittenOnce, ImagesInductive, PTL DEF Spec

\* For any size of RequestCache: read_from_escalation_queue submits an SDK retry of a
\* request whose escalation it has settled only after at least as many other requests were
\* settled as the cache holds, unless that escalation fell into one of the known gaps.
THEOREM RetriesSkipped == Spec => DuplicateOnlyAfterEviction
<1> DEFINE A == \A e \in Escalations :
                   /\ accepted'[e] # accepted[e]
                   /\ \E d \in Escalations \ {e} :
                         RequestOf[d] = RequestOf[e] /\ Handled(d) /\ ~CutShort(d)
                   => Cardinality(SettledRequests \ {RequestOf[e]}) >= MaxCacheEntries
<1>1. IInv /\ PlaceInv /\ LinesInv /\ PrefixInv /\ CacheInv /\ RememberedInv /\ [Next]_vars => [A]_vars
  BY SecondIsEvicted
<1> QED BY <1>1, Inductive, QueueFilesInPlace, WrittenOnce, RequestsRemembered, PTL
   DEF Spec, DuplicateOnlyAfterEviction

=============================================================================
