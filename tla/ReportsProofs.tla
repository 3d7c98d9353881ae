--------------------------- MODULE ReportsProofs ---------------------------
(***************************************************************************)
(* Proofs about what the edge endpoint tells about itself and its answers: *)
(* the device ID is stable, the answer is what the servers said, the       *)
(* histogram counts what was recorded, the benchmark leaves everything as  *)
(* it found it and measures what it says, the resources add up, the status *)
(* shown of a detector is that of its pods, recent traces are all loaded,  *)
(* and the spans of a trace form a tree whose times add up.                *)
(***************************************************************************)
EXTENDS Reports, FiniteSetTheorems, SequenceTheorems, WellFoundedInduction, TLAPS

-----------------------------------------------------------------------------
(* The device ID. *)

\* An ID is never 0, neither in a whole file nor in the hand of a call that writes one.
DeviceInv ==
    /\ ids \in Nat
    /\ idFile.state = "whole" => idFile.id # 0
    /\ caller \in [Callers -> [pc : {"idle", "exists", "load", "make", "dump"}, calls : 0..2,
                               id : Nat]]
    /\ \A c \in Callers : /\ caller[c].pc # "idle" => caller[c].calls # 0
                          /\ caller[c].pc = "dump" => caller[c].id # 0

\* Nothing happens to the device ID.
LEMMA DeviceStays == DeviceInv /\ UNCHANGED deviceVars => DeviceInv'
  BY DEF DeviceInv, deviceVars

\* Each step of a call of get_deviceid_metadata_dict, of an edit and a restart.
LEMMA DeviceMoves == ASSUME DeviceInv, DeviceNext PROVE DeviceInv'
<1>1. ASSUME NEW c \in Callers, Payload(c) PROVE DeviceInv'
  BY <1>1 DEF DeviceInv, Payload, CAt
<1>2. ASSUME NEW c \in Callers, FindFile(c) PROVE DeviceInv'
  BY <1>2 DEF DeviceInv, FindFile, CAt, CGoto
<1>3. ASSUME NEW c \in Callers, LoadFile(c) PROVE DeviceInv'
  BY <1>3 DEF DeviceInv, LoadFile, CAt, CGoto, Returns, NoCall
<1>4. ASSUME NEW c \in Callers, TruncateFile(c) PROVE DeviceInv'
  <2> DEFINE new == [caller[c] EXCEPT !.pc = "dump", !.id = ids + 1]
  <2>1. caller[c].pc = "make" /\ caller[c].calls # 0 /\ ids + 1 # 0
    BY <1>4 DEF DeviceInv, TruncateFile, CAt
  <2>2. /\ new \in [pc : {"idle", "exists", "load", "make", "dump"}, calls : 0..2, id : Nat]
        /\ new.pc = "dump" /\ new.calls = caller[c].calls /\ new.id = ids + 1
    <3>1. /\ caller[c] \in [pc : {"idle", "exists", "load", "make", "dump"}, calls : 0..2, id : Nat]
          /\ ids + 1 \in Nat
      BY DEF DeviceInv
    <3> QED BY <3>1
  <2>3. caller' = [caller EXCEPT ![c] = new] /\ ids' = ids + 1 /\ idFile'.state = "torn"
    BY <1>4 DEF TruncateFile
  <2> QED BY <2>1, <2>2, <2>3 DEF DeviceInv
<1>5. ASSUME NEW c \in Callers, DumpFile(c) PROVE DeviceInv'
  BY <1>5 DEF DeviceInv, DumpFile, CAt, Returns, NoCall
<1>6. ASSUME EditBegins PROVE DeviceInv'
  BY <1>6 DEF DeviceInv, EditBegins
<1>7. ASSUME EditEnds PROVE DeviceInv'
  BY <1>7 DEF DeviceInv, EditEnds
<1>8. ASSUME KillStatus PROVE DeviceInv'
  BY <1>8 DEF DeviceInv, KillStatus, NoCall
<1> QED BY <1>1, <1>2, <1>3, <1>4, <1>5, <1>6, <1>7, <1>8 DEF DeviceNext

\* The steps of the other parts leave the device ID alone.
LEMMA DeviceFrame == [Next]_vars => DeviceNext \/ UNCHANGED deviceVars
  BY DEF Next, vars, DeviceStep, ResultStep, ActivityStep, ResourceStep, StatusStep,
         ProfilingStep, StoreStep, BenchmarkStep

\* No file and no call has the ID 0, which stands for none.
THEOREM DeviceInductive == Spec => []DeviceInv
<1>1. Init => DeviceInv
  BY DEF Init, DeviceInit, DeviceInv, NoCall
<1>2. DeviceInv /\ [Next]_vars => DeviceInv'
  BY DeviceStays, DeviceMoves, DeviceFrame
<1> QED BY <1>1, <1>2, PTL DEF Spec

\* For any number of threads, restarts and edits: once get_deviceid_metadata_dict has made
\* the ID and no racing call is about to make another, the device keeps it; only a call
\* that reads the file while a customer saves it makes a new one.
THEOREM IdentityKept == Spec => DeviceIdStable
<1> DEFINE Keeps == Identified => editing' # 0 \/ (Identified' /\ idFile'.id = idFile.id)
<1>1. DeviceInv /\ [Next]_vars => [Keeps]_deviceVars
  <2> SUFFICES ASSUME DeviceInv, DeviceNext, Identified
               PROVE  editing' # 0 \/ (Identified' /\ idFile'.id = idFile.id)
    BY DeviceFrame
  <2>1. ASSUME NEW c \in Callers, Payload(c) PROVE Identified' /\ idFile' = idFile
    BY <2>1 DEF DeviceInv, Identified, Payload
  <2>2. ASSUME NEW c \in Callers, FindFile(c) PROVE Identified' /\ idFile' = idFile
    BY <2>2 DEF DeviceInv, Identified, FindFile, CGoto
  <2>3. ASSUME NEW c \in Callers, LoadFile(c) PROVE Identified' /\ idFile' = idFile
    BY <2>3 DEF DeviceInv, Identified, LoadFile, Returns, NoCall
  <2>4. ASSUME NEW c \in Callers PROVE ~TruncateFile(c) /\ ~DumpFile(c)
    BY DEF Identified, TruncateFile, DumpFile, CAt
  <2>5. EditBegins => editing' # 0
    BY DEF DeviceInv, EditBegins
  <2>6. ~EditEnds
    BY DEF Identified, EditEnds
  <2>7. KillStatus => Identified' /\ idFile' = idFile
    BY DEF Identified, KillStatus, NoCall
  <2> QED BY <2>1, <2>2, <2>3, <2>4, <2>5, <2>6, <2>7 DEF DeviceNext
<1> QED BY <1>1, DeviceInductive, PTL DEF Spec, DeviceIdStable

-----------------------------------------------------------------------------
(* Least and largest numbers. *)

\* Of some numbers one is the least.
LEMMA LeastExists ==
  ASSUME NEW S \in SUBSET Nat, S # {}
  PROVE  \E x \in S : \A y \in S : x <= y
<1> DEFINE R == OpToRel(<, Nat)
<1>1. IsWellFoundedOn(R, Nat)
  BY NatLessThanWellFounded
<1>2. \A x, y \in Nat : <<y, x>> \in R <=> y < x
  BY DEF OpToRel
<1> HIDE DEF R
<1>3. PICK x \in S : \A y \in S : ~(<<y, x>> \in R)
  BY <1>1, WFMin
<1>4. ASSUME NEW y \in S PROVE x <= y
  <2>1. x \in Nat /\ y \in Nat
    OBVIOUS
  <2>2. ~(y < x)
    BY <1>2, <1>3, <2>1
  <2> QED BY <2>1, <2>2
<1> QED BY <1>4

\* The maximum is the number that no other exceeds.
LEMMA MaxIsLargest ==
  ASSUME NEW S \in SUBSET Nat, NEW m \in S, \A x \in S : x <= m
  PROVE  Max(S) = m
<1>1. \A x \in S : m >= x
  OBVIOUS
<1>2. Max(S) \in S /\ \A x \in S : Max(S) >= x
  BY <1>1 DEF Max
<1>3. m \in Nat /\ Max(S) \in Nat /\ Max(S) >= m /\ Max(S) <= m
  BY <1>2
<1> QED BY <1>3

\* Finitely many numbers have a largest: a smallest set without one would have one after
\* all, the larger of an element and the largest of the others.
LEMMA LargestExists ==
  ASSUME NEW S \in SUBSET Nat, S # {}, IsFiniteSet(S)
  PROVE  \E m \in S : \A x \in S : x <= m
<1> DEFINE HasLargest(T) == \E m \in T : \A x \in T : x <= m
           Bad(T) == T # {} /\ IsFiniteSet(T) /\ ~HasLargest(T)
           sizes == {n \in Nat : \E T \in SUBSET Nat : Bad(T) /\ Cardinality(T) = n}
<1> SUFFICES ASSUME Bad(S) PROVE FALSE
  OBVIOUS
<1>1. Cardinality(S) \in sizes
  BY FS_CardinalityType
<1>2. PICK n \in sizes : \A k \in sizes : n <= k
  BY <1>1, LeastExists
<1>3. PICK T \in SUBSET Nat : Bad(T) /\ Cardinality(T) = n
  OBVIOUS
<1>4. PICK x \in T : TRUE
  BY <1>3
<1> DEFINE U == T \ {x}
<1>5. IsFiniteSet(U) /\ Cardinality(U) = n - 1 /\ n \in Nat
  BY <1>3, FS_RemoveElement
<1>6. U # {} => HasLargest(U)
  <2> SUFFICES ASSUME Bad(U) PROVE FALSE
    BY <1>5
  <2>1. n - 1 \in sizes
    BY <1>5, FS_CardinalityType
  <2> QED BY <1>2, <1>5, <2>1
<1>7. CASE U = {}
  <2>1. \A y \in T : y = x
    BY <1>7
  <2> QED BY <1>3, <2>1
<1>8. CASE U # {}
  <2>1. PICK m \in U : \A y \in U : y <= m
    BY <1>6, <1>8
  <2>2. \A y \in T : y = x \/ y \in U
    OBVIOUS
  <2>3. CASE m <= x
    <3>1. \A y \in T : y <= x
      BY <1>3, <2>1, <2>2, <2>3
    <3> QED BY <1>3, <3>1
  <2>4. CASE ~(m <= x)
    <3>1. m \in T /\ \A y \in T : y <= m
      BY <1>3, <2>1, <2>2, <2>4
    <3> QED BY <1>3, <3>1
  <2> QED BY <2>3, <2>4
<1> QED BY <1>7, <1>8

\* The maximum of finitely many numbers is one of them.
LEMMA MaxExists ==
  ASSUME NEW S \in SUBSET Nat, S # {}, IsFiniteSet(S)
  PROVE  Max(S) \in S /\ \A x \in S : x <= Max(S)
<1>1. PICK m \in S : \A x \in S : x <= m
  BY LargestExists
<1>2. Max(S) = m
  BY <1>1, MaxIsLargest
<1> QED BY <1>1, <1>2

\* The elements of a sequence of numbers.
LEMMA MaxOfSequence ==
  ASSUME NEW S \in SUBSET Nat, NEW s \in Seq(S), s # << >>
  PROVE  Max(ToSet(s)) \in S /\ \A i \in DOMAIN s : s[i] \in S /\ s[i] <= Max(ToSet(s))
<1>1. DOMAIN s = 1..Len(s) /\ Len(s) \in Nat \ {0} /\ \A i \in 1..Len(s) : s[i] \in S
  BY EmptySeq, LenProperties
<1>2. IsFiniteSet(1..Len(s))
  BY <1>1, FS_Interval
<1>3. ToSet(s) = {s[i] : i \in 1..Len(s)}
  BY <1>1 DEF ToSet
<1> DEFINE f == [i \in 1..Len(s) |-> s[i]]
<1>4. f \in Surjection(1..Len(s), ToSet(s))
  BY <1>3 DEF Surjection
<1>8. IsFiniteSet(ToSet(s))
  BY <1>2, <1>4, FS_Surjection
<1>5. ToSet(s) \in SUBSET S /\ ToSet(s) # {} /\ IsFiniteSet(ToSet(s))
  BY <1>1, <1>3, <1>8
<1>6. Max(ToSet(s)) \in ToSet(s) /\ \A x \in ToSet(s) : x <= Max(ToSet(s))
  BY <1>5, MaxExists
<1>7. \A i \in DOMAIN s : s[i] \in ToSet(s)
  BY <1>1, <1>3
<1> QED BY <1>5, <1>6, <1>7

-----------------------------------------------------------------------------
(* Sums. *)

\* A sum of finitely many numbers is a number.
LEMMA SumType ==
  ASSUME NEW S, NEW v, IsFiniteSet(S), \A x \in S : v[x] \in Nat
  PROVE  IsFiniteSet(Points(v, S)) /\ SumOver(v, S) \in Nat
<1> DEFINE column(x) == {x} \X (1..v[x])
           columns == {column(x) : x \in S}
           f == [x \in S |-> column(x)]
<1>1. f \in Surjection(S, columns)
  BY DEF Surjection
<1>2. IsFiniteSet(columns)
  BY <1>1, FS_Surjection
<1>3. ASSUME NEW x \in S PROVE IsFiniteSet(column(x))
  <2>1. IsFiniteSet({x})
    BY FS_Singleton
  <2>2. 1 \in Int /\ v[x] \in Int
    OBVIOUS
  <2>3. IsFiniteSet(1..v[x])
    BY <2>2, FS_Interval
  <2> QED BY <2>1, <2>3, FS_Product
<1>4. \A P \in columns : IsFiniteSet(P)
  BY <1>3
<1>5. IsFiniteSet(Points(v, S))
  <2>1. Points(v, S) = UNION columns
    BY DEF Points
  <2> HIDE DEF columns
  <2> QED BY <1>2, <1>4, <2>1, FS_UNION
<1> QED BY <1>5, FS_CardinalityType DEF SumOver

\* Where the summands are the same, so is the sum.
LEMMA SumSame ==
  ASSUME NEW S, NEW v, NEW w, \A x \in S : v[x] = w[x]
  PROVE  SumOver(v, S) = SumOver(w, S)
<1>1. Points(v, S) = Points(w, S)
  BY DEF Points
<1> QED BY <1>1 DEF SumOver

\* One summand, old or new, is larger by one.
LEMMA SumGrows ==
  ASSUME NEW S, NEW v, NEW w, NEW n, IsFiniteSet(S), \A x \in S : v[x] \in Nat,
         \A x \in S \ {n} : w[x] = v[x], w[n] = (IF n \in S THEN v[n] ELSE 0) + 1
  PROVE  SumOver(w, S \cup {n}) = SumOver(v, S) + 1
<1> DEFINE old == IF n \in S THEN v[n] ELSE 0
<1>1. old \in Nat /\ w[n] = old + 1
  OBVIOUS
<1> HIDE DEF old
<1>2. Points(w, S \cup {n}) = Points(v, S) \cup {<<n, old + 1>>}
  <2>1. ASSUME NEW q \in Points(w, S \cup {n}) PROVE q \in Points(v, S) \cup {<<n, old + 1>>}
    <3>4. PICK x \in S \cup {n} : q \in {x} \X (1..w[x])
      BY DEF Points
    <3>1. PICK k \in 1..w[x] : q = <<x, k>>
      BY <3>4
    <3>2. CASE x # n
      BY <3>1, <3>2 DEF Points
    <3>3. CASE x = n /\ k # old + 1
      <4>1. k \in 1..old
        BY <1>1, <3>1, <3>3
      <4>2. n \in S /\ v[n] = old
        BY <4>1 DEF old
      <4> QED BY <3>1, <3>3, <4>1, <4>2 DEF Points
    <3> QED BY <3>1, <3>2, <3>3
  <2>2. ASSUME NEW q \in Points(v, S) PROVE q \in Points(w, S \cup {n})
    <3>3. PICK x \in S : q \in {x} \X (1..v[x])
      BY DEF Points
    <3>1. PICK k \in 1..v[x] : q = <<x, k>>
      BY <3>3
    <3>2. k \in 1..w[x]
      BY <1>1, <3>1 DEF old
    <3> QED BY <3>1, <3>2 DEF Points
  <2>3. <<n, old + 1>> \in Points(w, S \cup {n})
    <3>1. old + 1 \in 1..w[n]
      BY <1>1
    <3> QED BY <3>1 DEF Points
  <2> QED BY <2>1, <2>2, <2>3
<1>3. <<n, old + 1>> \notin Points(v, S)
  <2> SUFFICES ASSUME NEW x \in S, <<n, old + 1>> \in {x} \X (1..v[x]) PROVE FALSE
    BY DEF Points
  <2>1. n \in S /\ old = v[n] /\ old + 1 <= v[n]
    BY DEF old
  <2> QED BY <1>1, <2>1
<1>4. IsFiniteSet(Points(v, S))
  BY SumType
<1>5. Cardinality(Points(v, S) \cup {<<n, old + 1>>}) = Cardinality(Points(v, S)) + 1
  BY <1>3, <1>4, FS_AddElement
<1> QED BY <1>2, <1>5 DEF SumOver

\* The sum of nothing.
LEMMA SumEmpty == ASSUME NEW v PROVE SumOver(v, {}) = 0
<1>1. Points(v, {}) = {}
  BY DEF Points
<1> QED BY <1>1, FS_EmptySet DEF SumOver

\* The sum of one number.
LEMMA SumOne == ASSUME NEW v, NEW x, v[x] \in Nat PROVE SumOver(v, {x}) = v[x]
<1>2. Points(v, {x}) = {x} \X (1..v[x])
  BY DEF Points
<1>3. IsFiniteSet({x}) /\ Cardinality({x}) = 1
  BY FS_Singleton
<1>4. 1 \in Int /\ v[x] \in Int
  OBVIOUS
<1>5. IsFiniteSet(1..v[x]) /\ Cardinality(1..v[x]) = v[x]
  BY <1>4, FS_Interval
<1>6. Cardinality({x} \X (1..v[x])) = Cardinality({x}) * Cardinality(1..v[x])
  BY <1>3, <1>5, FS_Product
<1>7. Cardinality({x}) * Cardinality(1..v[x]) = v[x]
  BY <1>3, <1>5
<1> QED BY <1>2, <1>6, <1>7 DEF SumOver

\* The sum of summands that are all 0.
LEMMA SumZero == ASSUME NEW v, NEW S, \A x \in S : v[x] = 0 PROVE SumOver(v, S) = 0
<1>1. Points(v, S) = {}
  BY DEF Points
<1> QED BY <1>1, FS_EmptySet DEF SumOver

\* Two parts add up.
LEMMA SumSplit ==
  ASSUME NEW v, NEW A, NEW B, IsFiniteSet(A), IsFiniteSet(B), A \cap B = {},
         \A x \in A \cup B : v[x] \in Nat
  PROVE  SumOver(v, A \cup B) = SumOver(v, A) + SumOver(v, B)
<1>1. IsFiniteSet(Points(v, A)) /\ IsFiniteSet(Points(v, B))
  BY SumType
<1>2. Points(v, A \cup B) = Points(v, A) \cup Points(v, B)
  BY DEF Points
<1>3. Points(v, A) \cap Points(v, B) = {}
  BY DEF Points
<1>4. Cardinality(Points(v, A) \cup Points(v, B)) =
        Cardinality(Points(v, A)) + Cardinality(Points(v, B))
          - Cardinality(Points(v, A) \cap Points(v, B))
  BY <1>1, FS_Union
<1>5. Cardinality(Points(v, A) \cap Points(v, B)) = 0
  BY <1>3, FS_EmptySet
<1>6. Cardinality(Points(v, A)) \in Nat /\ Cardinality(Points(v, B)) \in Nat
  BY <1>1, FS_CardinalityType
<1>7. Cardinality(Points(v, A) \cup Points(v, B)) =
        Cardinality(Points(v, A)) + Cardinality(Points(v, B))
  BY <1>4, <1>5, <1>6
<1> QED BY <1>2, <1>7 DEF SumOver

\* Larger summands, larger sum.
LEMMA SumMonotone ==
  ASSUME NEW v, NEW w, NEW S, IsFiniteSet(S), \A x \in S : v[x] \in Nat /\ w[x] \in Nat /\ v[x] <= w[x]
  PROVE  SumOver(v, S) <= SumOver(w, S)
<1>1. IsFiniteSet(Points(w, S))
  BY SumType
<1>2. Points(v, S) \subseteq Points(w, S)
  <2>1. \A x \in S : 1..v[x] \subseteq 1..w[x]
    OBVIOUS
  <2> QED BY <2>1 DEF Points
<1> QED BY <1>1, <1>2, FS_Subset DEF SumOver

\* The sum over some groups of the sum of each is the sum over all that is in a group: of
\* the groups for which it is not, a smallest number of them would have one after all.
LEMMA SumOfSums ==
  ASSUME NEW D, IsFiniteSet(D), NEW v, NEW t, NEW G,
         \A d \in D : /\ IsFiniteSet(G[d]) /\ t[d] = SumOver(v, G[d])
                      /\ \A x \in G[d] : v[x] \in Nat
                      /\ \A e \in D \ {d} : G[d] \cap G[e] = {}
  PROVE  SumOver(t, D) = SumOver(v, UNION {G[d] : d \in D})
<1> DEFINE All(E) == UNION {G[d] : d \in E}
           Bad(E) == ~(IsFiniteSet(All(E)) /\ SumOver(t, E) = SumOver(v, All(E)))
           sizes == {n \in Nat : \E E \in SUBSET D : Bad(E) /\ Cardinality(E) = n}
<1>1. \A E \in SUBSET D : IsFiniteSet(E) /\ Cardinality(E) \in Nat
  BY FS_Subset, FS_CardinalityType
<1> SUFFICES ASSUME Bad(D) PROVE FALSE
  OBVIOUS
<1>2. Cardinality(D) \in sizes
  BY <1>1
<1>3. PICK n \in sizes : \A k \in sizes : n <= k
  BY <1>2, LeastExists
<1>4. PICK E \in SUBSET D : Bad(E) /\ Cardinality(E) = n
  OBVIOUS
<1>5. E # {}
  <2> SUFFICES ASSUME E = {} PROVE FALSE
    OBVIOUS
  <2>1. All(E) = {} /\ IsFiniteSet({})
    BY FS_EmptySet
  <2>2. SumOver(t, E) = SumOver(v, All(E))
    BY <2>1, SumEmpty
  <2> QED BY <1>4, <2>1, <2>2
<1>6. PICK d \in E : TRUE
  BY <1>5
<1> DEFINE U == E \ {d}
<1>7. IsFiniteSet(U) /\ Cardinality(U) = n - 1 /\ n \in Nat /\ U \in SUBSET D
  BY <1>1, <1>4, FS_RemoveElement
<1>8. IsFiniteSet(All(U)) /\ SumOver(t, U) = SumOver(v, All(U))
  <2> SUFFICES ASSUME Bad(U) PROVE FALSE
    OBVIOUS
  <2>1. n - 1 \in sizes
    BY <1>1, <1>7
  <2> HIDE DEF sizes
  <2>2. n <= n - 1
    BY <1>3, <2>1
  <2> QED BY <1>7, <2>2
<1>9. All(E) = All(U) \cup G[d] /\ All(U) \cap G[d] = {}
  OBVIOUS
<1>10. /\ IsFiniteSet(G[d]) /\ t[d] = SumOver(v, G[d]) /\ t[d] \in Nat
       /\ \A x \in All(E) : v[x] \in Nat
  <2>1. IsFiniteSet(G[d]) /\ t[d] = SumOver(v, G[d]) /\ \A x \in G[d] : v[x] \in Nat
    OBVIOUS
  <2> QED BY <2>1, SumType
<1>11. IsFiniteSet(All(E)) /\ SumOver(v, All(E)) = SumOver(v, All(U)) + SumOver(v, G[d])
  <2> HIDE DEF All
  <2>1. IsFiniteSet(All(U) \cup G[d])
    BY <1>8, <1>10, FS_Union
  <2>2. \A x \in All(U) \cup G[d] : v[x] \in Nat
    BY <1>9, <1>10
  <2>3. SumOver(v, All(U) \cup G[d]) = SumOver(v, All(U)) + SumOver(v, G[d])
    <3> DEFINE A == All(U)
               B == G[d]
    <3>1. IsFiniteSet(A) /\ IsFiniteSet(B) /\ A \cap B = {}
      BY <1>8, <1>9, <1>10
    <3>2. \A x \in A \cup B : v[x] \in Nat
      BY <2>2
    <3> HIDE DEF A, B
    <3>3. SumOver(v, A \cup B) = SumOver(v, A) + SumOver(v, B)
      BY <3>1, <3>2, SumSplit
    <3> QED BY <3>3 DEF A, B
  <2> QED BY <1>9, <2>1, <2>3
<1>12. SumOver(t, E) = SumOver(t, U) + t[d]
  <2>1. E = U \cup {d} /\ U \cap {d} = {} /\ IsFiniteSet({d})
    BY FS_Singleton
  <2>2. \A e \in E : t[e] \in Nat
    BY SumType
  <2>3. SumOver(t, {d}) = t[d]
    BY <2>2, SumOne
  <2> HIDE DEF U
  <2> QED BY <1>7, <2>1, <2>2, <2>3, SumSplit
<1> QED BY <1>4, <1>8, <1>10, <1>11, <1>12

-----------------------------------------------------------------------------
(* The answer made of an inference. *)

\* Products of natural numbers.
LEMMA Products ==
  ASSUME NEW a \in Nat, NEW b \in Nat, NEW c \in Nat
  PROVE  /\ a * b \in Nat /\ a * b = b * a /\ a * (b * c) = (a * b) * c
         /\ a * (b + c) = a * b + a * c
  OBVIOUS

LEMMA ProductGrows ==
  ASSUME NEW a \in Nat, NEW b \in Nat, NEW c \in Nat, a <= b
  PROVE  a * c <= b * c
<1>1. PICK e \in Nat : b = a + e
  <2>1. b - a \in Nat /\ b = a + (b - a)
    OBVIOUS
  <2> QED BY <2>1
<1>2. c * b = c * a + c * e /\ c * a \in Nat /\ c * e \in Nat
  BY <1>1, Products
<1>3. c * b = b * c /\ c * a = a * c
  BY Products
<1> QED BY <1>2, <1>3

\* The first of the largest numbers of a sequence is one of its largest.
LEMMA ArgMaxIs ==
  ASSUME NEW n \in Nat \ {0}, NEW p \in [1..n -> Nat]
  PROVE  ArgMax(p) \in 1..n /\ \A j \in 1..n : p[j] <= p[ArgMax(p)]
<1> DEFINE values == {p[i] : i \in 1..n}
           m == Max(values)
           places == {i \in 1..n : p[i] = m}
<1>1. values \in SUBSET Nat /\ values # {} /\ IsFiniteSet(values)
  <2>1. p[1] \in values /\ \A i \in 1..n : p[i] \in Nat
    OBVIOUS
  <2>2. p \in Surjection(1..n, values)
    BY DEF Surjection
  <2>3. IsFiniteSet(1..n)
    BY FS_Interval
  <2>4. IsFiniteSet(values)
    BY <2>2, <2>3, FS_Surjection
  <2> QED BY <2>1, <2>4
<1>2. m \in values /\ \A x \in values : x <= m
  <2> HIDE DEF values
  <2> QED BY <1>1, MaxExists
<1> HIDE DEF m
<1>3. places \in SUBSET Nat /\ places # {}
  BY <1>2
<1>4. PICK i \in places : \A j \in places : i <= j
  <2> HIDE DEF places
  <2> QED BY <1>3, LeastExists
<1>5. i \in 1..n /\ p[i] = m /\ \A j \in 1..n : p[j] \in Nat /\ p[j] <= m /\ (p[j] = m => i <= j)
  BY <1>2, <1>4
<1>6. \A j \in 1..(i - 1) : p[j] < p[i]
  <2> TAKE j \in 1..(i - 1)
  <2>1. j \in 1..n /\ j \in Nat /\ i \in Nat /\ j < i
    BY <1>5
  <2>2. p[j] \in Nat /\ p[i] \in Nat /\ p[j] <= p[i] /\ p[j] # p[i]
    BY <2>1, <1>5
  <2> QED BY <2>2
<1>7. \E k \in DOMAIN p : (\A j \in DOMAIN p : p[j] <= p[k]) /\ \A j \in 1..(k - 1) : p[j] < p[k]
  <2>1. i \in DOMAIN p /\ \A j \in DOMAIN p : p[j] <= p[i]
    BY <1>5
  <2> QED BY <2>1, <1>6
<1>8. ArgMax(p) \in DOMAIN p /\ \A j \in DOMAIN p : p[j] <= p[ArgMax(p)]
  BY <1>7 DEF ArgMax
<1> QED BY <1>8

\* A sum of n numbers is at most n times the largest of them.
LEMMA SumAtMost ==
  ASSUME NEW n \in Nat, NEW m \in Nat, NEW p \in [1..n -> Nat], \A i \in 1..n : p[i] <= m
  PROVE  SumOf(p) <= m * n
<1>1. DOMAIN p = 1..n /\ SumOf(p) = SumOver(p, 1..n)
  BY DEF SumOf
<1>2. Points(p, 1..n) \subseteq (1..n) \X (1..m)
  <2> SUFFICES ASSUME NEW z \in Points(p, 1..n) PROVE z \in (1..n) \X (1..m)
    OBVIOUS
  <2>1. PICK i \in 1..n : z \in {i} \X (1..p[i])
    BY DEF Points
  <2>2. 1..p[i] \subseteq 1..m
    <3>1. p[i] \in Nat /\ p[i] <= m
      OBVIOUS
    <3> QED BY <3>1
  <2> QED BY <2>1, <2>2
<1>3. /\ IsFiniteSet(1..n) /\ Cardinality(1..n) = n
      /\ IsFiniteSet(1..m) /\ Cardinality(1..m) = m
  BY FS_Interval
<1>4. IsFiniteSet((1..n) \X (1..m)) /\ Cardinality((1..n) \X (1..m)) = n * m
  <2>1. \A S, T : IsFiniteSet(S) /\ IsFiniteSet(T) =>
           IsFiniteSet(S \X T) /\ Cardinality(S \X T) = Cardinality(S) * Cardinality(T)
    BY FS_Product
  <2>2. /\ IsFiniteSet((1..n) \X (1..m))
        /\ Cardinality((1..n) \X (1..m)) = Cardinality(1..n) * Cardinality(1..m)
    BY <1>3, <2>1
  <2> QED BY <1>3, <2>2
<1>5. Cardinality(Points(p, 1..n)) <= n * m
  BY <1>2, <1>4, FS_Subset
<1> QED BY <1>1, <1>5, Products DEF SumOver

\* The product of some numbers, in another order.
LEMMA Reordered ==
  ASSUME NEW a \in Nat, NEW b \in Nat, NEW c \in Nat, NEW d \in Nat
  PROVE  /\ a * (b * c * d) = b * (a * d) * c /\ b * (c * d) * a = b * (a * d) * c
         /\ a * (b * c * d) = (b * (a * c)) * d
<1>1. a * (b * c * d) = b * (a * d) * c
  <2>1. a * (b * c * d) = (b * c * d) * a /\ (b * c * d) * a = (b * c) * (d * a)
    BY Products
  <2>2. (b * c) * (d * a) = b * (c * (d * a)) /\ c * (d * a) = (d * a) * c /\ d * a = a * d
    BY Products
  <2>3. b * ((a * d) * c) = (b * (a * d)) * c
    BY Products
  <2> QED BY <2>1, <2>2, <2>3
<1>2. b * (c * d) * a = b * (a * d) * c
  <2>1. b * (c * d) * a = b * ((c * d) * a) /\ (c * d) * a = c * (d * a) /\ d * a = a * d
    BY Products
  <2>2. c * (a * d) = (a * d) * c /\ b * ((a * d) * c) = b * (a * d) * c
    BY Products
  <2> QED BY <2>1, <2>2
<1>3. a * (b * c * d) = (b * (a * c)) * d
  <2>1. a * (b * c * d) = a * (b * c) * d /\ a * (b * c) = (a * b) * c /\ a * b = b * a
        /\ (b * a) * c = b * (a * c)
    BY Products
  <2> QED BY <2>1
<1> QED BY <1>1, <1>2, <1>3

\* Of a guess of l / n that is at most the confidence of c / d, adjust_confidence_with_oodd
\* makes something in between, and one of them when the OODD server is certain.
LEMMA InBetween ==
  ASSUME NEW o \in 0..Units, NEW l \in {0, 1}, NEW c \in Nat, NEW d \in Nat, NEW n \in Nat,
         l * d <= c * n
  PROVE  LET conf == <<o * l * d + (Units - o) * c * n, Units * n * d>>
         IN  /\ AtMost(conf, <<c, d>>) /\ o * l * d + (Units - o) * c * n \in Nat
             /\ l * (Units * n * d) <= (o * l * d + (Units - o) * c * n) * n
             /\ o = Units => (o * l * d + (Units - o) * c * n) * n <= l * (Units * n * d)
             /\ o = 0 => AtMost(<<c, d>>, conf)
<1> DEFINE x == l * d
           y == c * n
           w == Units - o
           num == o * l * d + w * c * n
<1>0. o \in Nat /\ w \in Nat /\ Units \in Nat /\ Units = w + o /\ l \in Nat /\ x \in Nat /\ y \in Nat
  <2>1. Units \in Nat /\ o \in Nat /\ o <= Units /\ l \in Nat
    BY ResultAssumption
  <2>2. x \in Nat /\ y \in Nat
    BY <2>1, Products
  <2> QED BY <2>1, <2>2
<1>1. num = o * x + w * y
  <2>1. o * l * d = o * (l * d) /\ w * c * n = w * (c * n)
    BY <1>0, Products
  <2> QED BY <2>1
<1>2. x * o <= y * o /\ x * w <= y * w
  BY <1>0, ProductGrows
<1>3. /\ x * o = o * x /\ y * o = o * y /\ x * w = w * x /\ y * w = w * y
      /\ y * Units = y * w + y * o /\ x * Units = x * w + x * o
      /\ o * x \in Nat /\ o * y \in Nat /\ w * x \in Nat /\ w * y \in Nat
      /\ y * Units = Units * y /\ x * Units = Units * x
  BY <1>0, Products
<1>4. num \in Nat /\ Units * x <= num /\ num <= Units * y
  <2> HIDE DEF num
  <2> QED BY <1>1, <1>2, <1>3
<1>5. (Units * x) * n <= num * n /\ num * d <= (Units * y) * d
  <2> HIDE DEF num, x, y
  <2>1. Units * x \in Nat /\ Units * y \in Nat
    BY <1>3
  <2> QED BY <2>1, <1>4, ProductGrows
<1>6. /\ l * (Units * n * d) = (Units * x) * n
      /\ c * (Units * n * d) = (Units * y) * d
  BY <1>0, Reordered
<1>7. o = Units => num = Units * x
  <2> SUFFICES ASSUME o = Units PROVE num = Units * x
    OBVIOUS
  <2>1. w = 0 /\ w * y = 0
    BY <1>0
  <2> HIDE DEF num, x, y, w
  <2> QED BY <2>1, <1>1, <1>3
<1>8. o = 0 => num = Units * y
  <2> SUFFICES ASSUME o = 0 PROVE num = Units * y
    OBVIOUS
  <2>1. w = Units /\ o * x = 0
    BY <1>0
  <2> HIDE DEF num, x, y, w
  <2> QED BY <2>1, <1>1, <1>3
<1>9. num * n \in Nat /\ num * d \in Nat
  BY <1>4, Products
<1> HIDE DEF x, y
<1>10. /\ num * d <= c * (Units * n * d)
       /\ l * (Units * n * d) <= num * n
  BY <1>5, <1>6
<1>11. o = Units => num * n = l * (Units * n * d)
  BY <1>6, <1>7
<1>12. o = 0 => num * d = c * (Units * n * d)
  BY <1>6, <1>8
<1> QED BY <1>4, <1>9, <1>10, <1>11, <1>12 DEF AtMost

\* What RunInference, CreateIq and GenerateMetadata made stays.
ResultInv ==
    /\ IF part = "results"
       THEN /\ input.primary \in Primaries(input.mode) /\ input.config.max \in Nat
            /\ input.oodd \in Binary \cup Malformed \cup {NoResponse}
       ELSE result = Nothing /\ iq = Nothing /\ metadata = Nothing
    /\ result = Nothing \/ result = Result(input.primary, input.oodd, input.mode)
    /\ iq = Nothing \/ /\ result # Nothing /\ ~IsError(result)
                       /\ iq = ModeResult(input.mode, input.config, result.label)
    /\ metadata = Nothing \/ IsError(metadata) \/ metadata.sent <= SizeLimit

\* The probabilities of the classes of a response that was accepted.
MultiOf(p) == \E n \in Nat \ {0} : p.probs \in [1..n -> Prob] /\ SumOf(p.probs) = Units

LEMMA PrimaryIs ==
  ASSUME NEW mode, NEW p \in Primaries(mode)
  PROVE  \/ p.kind \in {"both", "neither", "invalid"}
         \/ p.kind = "binary" /\ mode # "BOUNDING_BOX" /\ p \in Binary
         \/ p.kind = "multi" /\ mode # "BOUNDING_BOX" /\ MultiOf(p)
         \/ p.kind = "multi" /\ mode = "BOUNDING_BOX" /\ MultiOf(p) /\ p \in Boxes
<1>1. CASE p \in Malformed
  BY <1>1 DEF Malformed
<1>2. CASE mode \in {"BINARY", "TEXT"} /\ p \notin Malformed
  <2>1. p \in Binary
    BY <1>2 DEF Primaries
  <2> QED BY <2>1, <1>2 DEF Binary
<1>3. CASE mode = "BOUNDING_BOX" /\ p \notin Malformed
  <2>1. p \in Boxes
    BY <1>3 DEF Primaries
  <2>2. p.kind = "multi" /\ p.probs \in [1..2 -> Prob] /\ SumOf(p.probs) = Units
    BY <2>1 DEF Boxes
  <2>3. 2 \in Nat \ {0}
    OBVIOUS
  <2> QED BY <1>3, <2>1, <2>2, <2>3 DEF MultiOf
<1>4. CASE mode \notin {"BINARY", "TEXT", "BOUNDING_BOX"} /\ p \notin Malformed
  <2>1. p \in UNION {Multi(n) : n \in 1..MaxClasses}
    BY <1>4 DEF Primaries
  <2>2. PICK n \in 1..MaxClasses : p \in Multi(n)
    BY <2>1
  <2>3. p.kind = "multi" /\ p.probs \in [1..n -> Prob] /\ SumOf(p.probs) = Units
    BY <2>2 DEF Multi
  <2>4. n \in Nat \ {0}
    BY ResultAssumption
  <2> QED BY <1>4, <2>3, <2>4 DEF MultiOf
<1> QED BY <1>1, <1>2, <1>3, <1>4

\* Of a response with several probabilities, the label is one of the most probable.
LEMMA MultiRight ==
  ASSUME NEW p, p.kind = "multi", MultiOf(p)
  PROVE  LET a == ArgMax(p.probs)
         IN  /\ NumClasses(p) \in Nat \ {0} /\ a - 1 \in Nat /\ (a - 1) + 1 = a
             /\ p.probs[a] \in Nat /\ Units <= p.probs[a] * NumClasses(p)
             /\ \A i \in DOMAIN p.probs : p.probs[i] <= p.probs[a]
<1>1. PICK n \in Nat \ {0} : p.probs \in [1..n -> Prob] /\ SumOf(p.probs) = Units
  BY DEF MultiOf
<1> DEFINE a == ArgMax(p.probs)
<1>2. Prob \subseteq Nat
  BY ResultAssumption DEF Prob
<1>3. p.probs \in [1..n -> Nat]
  BY <1>1, <1>2
<1>4. Len(p.probs) = n
  BY <1>3
<1>5. NumClasses(p) = n
  BY <1>4 DEF NumClasses
<1>6. a \in 1..n /\ \A j \in 1..n : p.probs[j] <= p.probs[a]
  BY <1>3, ArgMaxIs
<1> HIDE DEF a
<1>7. p.probs[a] \in Nat /\ DOMAIN p.probs = 1..n
  BY <1>3, <1>6
<1>8. SumOf(p.probs) <= p.probs[a] * n
  <2>1. \A m \in Nat, q \in [1..n -> Nat] : (\A i \in 1..n : q[i] <= m) => SumOf(q) <= m * n
    BY SumAtMost
  <2> QED BY <2>1, <1>3, <1>6, <1>7
<1>9. a - 1 \in Nat /\ (a - 1) + 1 = a
  BY <1>6
<1> QED BY <1>1, <1>5, <1>6, <1>7, <1>8, <1>9 DEF a

\* calculate_confidence_for_bounding_box_mode makes a fraction.
LEMMA BoxConfidenceIs ==
  ASSUME NEW p \in Boxes
  PROVE  \E c \in Nat, d \in Nat : BoxConfidence(p) = <<c, d>>
<1> DEFINE lowest == IF p.rois = NoRois \/ p.rois[2] = {} THEN 0 ELSE Min(p.rois[2])
           dropped == IF p.dropped = NoScore THEN 0 ELSE p.dropped
<1>1. Units \in Nat /\ Prob \subseteq Nat /\ \A u \in Prob : Units - u \in Nat
  BY ResultAssumption DEF Prob
<1>2. dropped \in Prob
  BY ResultAssumption DEF Boxes, Prob
<1>3. lowest \in Nat
  <2> SUFFICES ASSUME ~(p.rois = NoRois \/ p.rois[2] = {}) PROVE Min(p.rois[2]) \in Nat
    OBVIOUS
  <2>1. p.rois \in {NoRois} \cup {RoisOf(s) : s \in SUBSET Prob}
    BY DEF Boxes
  <2>2. PICK s \in SUBSET Prob : p.rois = RoisOf(s)
    BY <2>1
  <2>3. p.rois[2] = s /\ s # {} /\ s \in SUBSET Nat
    BY <2>2, <1>1 DEF RoisOf
  <2>4. PICK x \in s : \A y \in s : x <= y
    BY <2>3, LeastExists
  <2>5. Min(s) \in s
    BY <2>4 DEF Min
  <2> QED BY <2>3, <2>5
<1> HIDE DEF lowest, dropped
<1>4. lowest * (Units - dropped) \in Nat /\ Units * Units \in Nat
  BY <1>1, <1>2, <1>3, Products
<1> QED BY <1>4 DEF BoxConfidence, lowest, dropped

\* What parse_inference_response makes of a response it accepts: a confidence of c / d that
\* is at least that of a guess, and one of the most probable labels.
ParsedAs(p, mode, c, d, l) ==
    LET out == Parse(p, mode)
    IN  /\ out.conf = <<c, d>> /\ out.label = l /\ DOMAIN out = {"conf", "label", "text"}
        /\ NumClasses(p) \in Nat \ {0}
        /\ mode # "BOUNDING_BOX" => d <= c * NumClasses(p)
        /\ p.kind = "multi" => \A i \in DOMAIN p.probs : p.probs[i] <= p.probs[l + 1]

LEMMA ParseRight ==
  ASSUME NEW mode, NEW p \in Primaries(mode), p.kind \notin {"both", "neither", "invalid"},
         ~IsError(Parse(p, mode))
  PROVE  \E c \in Nat, d \in Nat, l \in Nat : ParsedAs(p, mode, c, d, l)
<1> DEFINE out == Parse(p, mode)
<1>1. CASE p.kind = "binary" /\ mode # "BOUNDING_BOX" /\ p \in Binary
  <2>1. p.conf \in Nat /\ Units \div 2 <= p.conf /\ p.label \in Nat
    BY <1>1, ResultAssumption DEF Binary
  <2>2. out = [conf |-> <<p.conf, Units>>, label |-> p.label, text |-> p.texts]
    BY <1>1 DEF Parse, IsError, Raises
  <2>3. NumClasses(p) = 2
    BY <1>1 DEF NumClasses
  <2>4. Units <= p.conf * 2 /\ Units \in Nat
    BY <2>1, ResultAssumption
  <2>5. ParsedAs(p, mode, p.conf, Units, p.label)
    BY <1>1, <2>2, <2>3, <2>4 DEF ParsedAs
  <2> QED BY <2>1, <2>4, <2>5
<1>2. CASE p.kind = "multi" /\ mode # "BOUNDING_BOX" /\ MultiOf(p)
  <2> DEFINE a == ArgMax(p.probs)
  <2>1. /\ NumClasses(p) \in Nat \ {0} /\ a - 1 \in Nat /\ (a - 1) + 1 = a
        /\ p.probs[a] \in Nat /\ Units <= p.probs[a] * NumClasses(p)
        /\ \A i \in DOMAIN p.probs : p.probs[i] <= p.probs[a]
    BY <1>2, MultiRight
  <2>2. out = [conf |-> <<p.probs[a], Units>>, label |-> a - 1, text |-> 0]
    BY <1>2 DEF Parse
  <2> HIDE DEF a
  <2>3. ParsedAs(p, mode, p.probs[a], Units, a - 1)
    BY <1>2, <2>1, <2>2 DEF ParsedAs
  <2> QED BY <2>1, <2>3, ResultAssumption
<1>3. CASE p.kind = "multi" /\ mode = "BOUNDING_BOX" /\ MultiOf(p) /\ p \in Boxes
  <2> DEFINE a == ArgMax(p.probs)
  <2>1. /\ NumClasses(p) \in Nat \ {0} /\ a - 1 \in Nat /\ (a - 1) + 1 = a
        /\ \A i \in DOMAIN p.probs : p.probs[i] <= p.probs[a]
    BY <1>3, MultiRight
  <2>2. \E c \in Nat, d \in Nat : BoxConfidence(p) = <<c, d>>
    BY <1>3, BoxConfidenceIs
  <2>3. PICK c \in Nat, d \in Nat : BoxConfidence(p) = <<c, d>>
    BY <2>2
  <2>4. out = [conf |-> <<c, d>>, label |-> a - 1, text |-> 0]
    BY <1>3, <2>3 DEF Parse
  <2> HIDE DEF a
  <2>5. ParsedAs(p, mode, c, d, a - 1)
    BY <1>3, <2>1, <2>4 DEF ParsedAs
  <2> QED BY <2>1, <2>5
<1> QED BY <1>1, <1>2, <1>3, PrimaryIs

\* The answer that EdgeAnswerRight asks for, of one primary and one OODD response.
AnswerFits(p, oodd, mode, answer) ==
    LET raw == Parse(p, mode).conf
        guess == IF mode = "BOUNDING_BOX" THEN <<0, 1>> ELSE <<1, NumClasses(p)>>
    IN  /\ AtMost(answer.conf, raw) /\ AtMost(guess, answer.conf)
        /\ oodd # NoResponse /\ oodd.conf = Units =>
              LET certain == IF oodd.label = 1 THEN guess ELSE raw
              IN  AtMost(answer.conf, certain) /\ AtMost(certain, answer.conf)
        /\ p.kind = "multi" => \A i \in DOMAIN p.probs : p.probs[i] <= p.probs[answer.label + 1]

\* get_inference_result, of responses it accepts.
LEMMA ResultRight ==
  ASSUME NEW mode, NEW p \in Primaries(mode),
         NEW oodd \in Binary \cup Malformed \cup {NoResponse}, ~IsError(Result(p, oodd, mode))
  PROVE  Result(p, oodd, mode).label \in Nat /\ AnswerFits(p, oodd, mode, Result(p, oodd, mode))
<1> DEFINE out == Parse(p, mode)
           second == Parse(oodd, "BINARY")
           answer == Result(p, oodd, mode)
           n == NumClasses(p)
<1>1. p.kind \notin {"both", "neither", "invalid"}
  BY DEF Result, IsError, Raises
<1>2. ~IsError(out)
  BY <1>1 DEF Result
<1>3. PICK c \in Nat, d \in Nat, l \in Nat : ParsedAs(p, mode, c, d, l)
  BY <1>1, <1>2, ParseRight
<1>4. /\ out.conf = <<c, d>> /\ out.label = l /\ DOMAIN out = {"conf", "label", "text"}
      /\ n \in Nat \ {0}
      /\ mode # "BOUNDING_BOX" => d <= c * n
      /\ p.kind = "multi" => \A i \in DOMAIN p.probs : p.probs[i] <= p.probs[l + 1]
  BY <1>3 DEF ParsedAs
<1>5. CASE oodd = NoResponse
  <2>1. answer = out
    BY <1>1, <1>5 DEF Result
  <2> HIDE DEF answer, out, n
  <2>2. AtMost(<<c, d>>, <<c, d>>)
    BY Products DEF AtMost
  <2>3. mode # "BOUNDING_BOX" => AtMost(<<1, n>>, <<c, d>>)
    BY <1>4, Products DEF AtMost
  <2>4. AtMost(<<0, 1>>, <<c, d>>)
    BY Products DEF AtMost
  <2> QED BY <1>4, <1>5, <2>1, <2>2, <2>3, <2>4 DEF AnswerFits, out, n, answer
<1>6. CASE oodd # NoResponse
  <2>1. ~IsError(second) /\ answer = Adjust(out, second, mode, n)
    BY <1>1, <1>2, <1>6 DEF Result
  <2>2. oodd \in Binary
    <3>1. ASSUME oodd \in Malformed PROVE IsError(second)
      BY <3>1 DEF Malformed, Parse, IsError, Raises
    <3> QED BY <3>1, <2>1, <1>6
  <2>3. second.conf = <<oodd.conf, Units>> /\ second.label = oodd.label
    BY <2>1, <2>2 DEF Binary, Parse, IsError, Raises
  <2> DEFINE o == IF second.label = 1 THEN second.conf[1] ELSE Units - second.conf[1]
             g == IF mode = "BOUNDING_BOX" THEN 0 ELSE 1
             num == o * g * d + (Units - o) * c * n
             conf == <<num, Units * n * d>>
  <2>4. /\ o \in 0..Units /\ g \in {0, 1}
        /\ oodd.conf = Units => o = IF oodd.label = 1 THEN Units ELSE 0
    BY <2>2, <2>3, ResultAssumption DEF Binary
  <2>5. answer = [out EXCEPT !.conf = conf]
    BY <1>4, <2>1 DEF Adjust
  <2>6. answer.conf = conf /\ answer.label = l
    BY <1>4, <2>5
  <2> HIDE DEF answer, out, n, o
  <2>7. g * d <= c * n
    <3>1. CASE g = 0
      <4>1. c * n \in Nat /\ 0 * d = 0
        BY <1>4, Products
      <4> QED BY <3>1, <4>1
    <3>2. CASE g = 1
      BY <3>2, <1>4
    <3> QED BY <3>1, <3>2
  <2> HIDE DEF g
  <2>8. /\ AtMost(conf, <<c, d>>) /\ num \in Nat
        /\ g * (Units * n * d) <= num * n
        /\ o = Units => num * n <= g * (Units * n * d)
        /\ o = 0 => AtMost(<<c, d>>, conf)
    BY <1>4, <2>4, <2>7, InBetween
  <2>9. Units * n * d \in Nat
    BY <1>4, ResultAssumption, Products
  <2> HIDE DEF num
  <2>10. CASE mode = "BOUNDING_BOX"
    <3>1. AtMost(<<0, 1>>, conf)
      BY <2>8, <2>9 DEF AtMost
    <3>2. o = Units => AtMost(conf, <<0, 1>>)
      <4> SUFFICES ASSUME o = Units PROVE num <= 0
        BY <2>8, <2>9 DEF AtMost
      <4>1. num * n <= 0
        BY <2>8, <2>9, <2>10 DEF g
      <4>2. 1 * num <= n * num /\ n * num = num * n /\ 1 * num = num
        BY <1>4, <2>8, ProductGrows, Products
      <4>3. num * n \in Nat
        BY <1>4, <2>8, Products
      <4> QED BY <2>8, <4>1, <4>2, <4>3
    <3>3. oodd.conf = Units =>
             LET certain == IF oodd.label = 1 THEN <<0, 1>> ELSE <<c, d>>
             IN  AtMost(conf, certain) /\ AtMost(certain, conf)
      BY <2>4, <2>8, <3>1, <3>2
    <3> HIDE DEF conf
    <3> DEFINE guess == IF mode = "BOUNDING_BOX" THEN <<0, 1>> ELSE <<1, n>>
    <3>4. guess = <<0, 1>> /\ out.conf = <<c, d>>
      BY <1>4, <2>10
    <3>5. AtMost(conf, out.conf) /\ AtMost(guess, conf)
      BY <2>8, <3>1, <3>4
    <3>6. oodd.conf = Units =>
             LET certain == IF oodd.label = 1 THEN guess ELSE out.conf
             IN  AtMost(conf, certain) /\ AtMost(certain, conf)
      BY <3>3, <3>4
    <3>7. p.kind = "multi" => \A i \in DOMAIN p.probs : p.probs[i] <= p.probs[answer.label + 1]
      BY <1>4, <2>6
    <3>8. AnswerFits(p, oodd, mode, answer)
      BY <2>6, <3>5, <3>6, <3>7 DEF AnswerFits, out, n
    <3> QED BY <3>8, <2>6 DEF answer
  <2>11. CASE mode # "BOUNDING_BOX"
    <3>1. 1 * (Units * n * d) = Units * n * d
      BY <2>9
    <3>2. AtMost(<<1, n>>, conf) /\ (o = Units => AtMost(conf, <<1, n>>))
      BY <2>8, <2>11, <3>1 DEF AtMost, g
    <3>3. oodd.conf = Units =>
             LET certain == IF oodd.label = 1 THEN <<1, n>> ELSE <<c, d>>
             IN  AtMost(conf, certain) /\ AtMost(certain, conf)
      BY <2>4, <2>8, <3>2
    <3> HIDE DEF conf
    <3> DEFINE guess == IF mode = "BOUNDING_BOX" THEN <<0, 1>> ELSE <<1, n>>
    <3>4. guess = <<1, n>> /\ out.conf = <<c, d>>
      BY <1>4, <2>11
    <3>5. AtMost(conf, out.conf) /\ AtMost(guess, conf)
      BY <2>8, <3>2, <3>4
    <3>6. oodd.conf = Units =>
             LET certain == IF oodd.label = 1 THEN guess ELSE out.conf
             IN  AtMost(conf, certain) /\ AtMost(certain, conf)
      BY <3>3, <3>4
    <3>7. p.kind = "multi" => \A i \in DOMAIN p.probs : p.probs[i] <= p.probs[answer.label + 1]
      BY <1>4, <2>6
    <3>8. AnswerFits(p, oodd, mode, answer)
      BY <2>6, <3>5, <3>6, <3>7 DEF AnswerFits, out, n
    <3> QED BY <3>8, <2>6 DEF answer
  <2> QED BY <2>10, <2>11
<1> QED BY <1>5, <1>6

\* What CreateIq makes of a result in COUNT mode and what GenerateMetadata sends.
LEMMA CountCut ==
  ASSUME NEW config, config.max \in Nat, config.max > 0, NEW value \in Nat,
         ~IsError(ModeResult("COUNT", config, value))
  PROVE  LET cut == ModeResult("COUNT", config, value)
         IN  cut.count = Min({value, config.max}) /\ cut.more = (cut.count # value)
<1>1. config.given
  BY DEF ModeResult, IsError, Raises
<1> DEFINE more == config.max > 0 /\ value > config.max
<1>2. ModeResult("COUNT", config, value) =
         [type |-> "COUNT", count |-> IF more THEN config.max ELSE value, more |-> more]
  BY <1>1 DEF ModeResult
<1>3. Min({value, config.max}) = IF more THEN config.max ELSE value
  BY DEF Min
<1> QED BY <1>2, <1>3

\* Nothing happens to the results.
LEMMA ResultStays == ResultInv /\ UNCHANGED <<part, resultVars>> => ResultInv'
  BY DEF ResultInv, resultVars

\* Each step of an image query that the edge answers.
LEMMA ResultMoves == ASSUME ResultInv, ResultStep PROVE ResultInv'
<1>0. part = "results" /\ UNCHANGED part /\ ResultNext
  BY DEF ResultStep
<1>1. CASE RunInference
  BY <1>0, <1>1 DEF ResultInv, RunInference
<1>2. CASE CreateIq
  BY <1>0, <1>2 DEF ResultInv, CreateIq
<1>3. ASSUME NEW size \in 1..(SizeLimit + 2), NEW rois \in 0..(size - 1), GenerateMetadata(size, rois)
      PROVE  ResultInv'
  <2>1. SizeLimit \in Nat /\ size \in Nat /\ rois \in Nat
    BY <1>3, ResultAssumption
  <2>2. IsError(Metadata(size, rois)) \/ Metadata(size, rois).sent <= SizeLimit
    BY <2>1 DEF Metadata, IsError, Raises
  <2> QED BY <1>0, <1>3, <2>2 DEF ResultInv, GenerateMetadata
<1> QED BY <1>0, <1>1, <1>2, <1>3 DEF ResultNext

LEMMA ResultFrame == [Next]_vars => ResultStep \/ UNCHANGED <<part, resultVars>>
  BY DEF Next, vars, DeviceStep, ActivityStep, ResourceStep, StatusStep, ProfilingStep, StoreStep,
         BenchmarkStep

\* For every configuration and every response.
THEOREM ResultInductive == Spec => []ResultInv
<1>1. Init => ResultInv
  <2> SUFFICES ASSUME Init PROVE ResultInv
    OBVIOUS
  <2>1. CASE part # "results"
    BY <2>1 DEF Init, ResultInv
  <2>2. CASE part = "results"
    <3>1. PICK mode \in Modes :
             input \in [mode : {mode}, config : IF mode \in {"COUNT", "MULTI_CLASS"} THEN Configs
                                                ELSE {[given |-> FALSE, max |-> 0, names |-> 1]},
                        primary : Primaries(mode), oodd : Binary \cup Malformed \cup {NoResponse}]
      BY <2>2 DEF Init, ResultInit
    <3>2. input.mode = mode /\ input.primary \in Primaries(mode)
          /\ input.oodd \in Binary \cup Malformed \cup {NoResponse}
      BY <3>1
    <3>3. input.config.max \in Nat
      BY <3>1, ResultAssumption DEF Configs
    <3>4. result = Nothing /\ iq = Nothing /\ metadata = Nothing
      BY <2>2 DEF Init, ResultInit
    <3> QED BY <2>2, <3>2, <3>3, <3>4 DEF ResultInv
  <2> QED BY <2>1, <2>2
<1>2. ResultInv /\ [Next]_vars => ResultInv'
  BY ResultFrame, ResultMoves, ResultStays
<1> QED BY <1>1, <1>2, PTL DEF Spec

\* For every response of the inference servers.
THEOREM AnswersAreRight == Spec => []EdgeAnswerRight
<1>1. ResultInv => EdgeAnswerRight
  <2> SUFFICES ASSUME ResultInv PROVE EdgeAnswerRight
    OBVIOUS
  <2>1. ASSUME result # Nothing, ~IsError(result)
        PROVE  result.label \in Nat /\ AnswerFits(input.primary, input.oodd, input.mode, result)
    BY <2>1, ResultRight DEF ResultInv
  <2>2. ASSUME iq # Nothing, ~IsError(iq), input.mode = "COUNT", input.config.max > 0
        PROVE  iq.count = Min({result.label, input.config.max}) /\ iq.more = (iq.count # result.label)
    BY <2>1, <2>2, CountCut DEF ResultInv
  <2>3. metadata # Nothing /\ ~IsError(metadata) => metadata.sent <= SizeLimit
    BY DEF ResultInv
  <2> QED BY <2>1, <2>2, <2>3 DEF EdgeAnswerRight, AnswerFits
<1> QED BY <1>1, ResultInductive, PTL

-----------------------------------------------------------------------------
(* The activity of the last hour. *)

\* The place that the docstring of the histogram gives a confidence.
InBucket(c, i) ==
    \/ i * BucketWidth <= c /\ c < (i + 1) * BucketWidth
    \/ c = 100 /\ i = NumBuckets - 1

\* A confidence is counted there.
LEMMA BucketRight ==
  ASSUME NEW c \in 0..100, NEW i \in 0..(NumBuckets - 1)
  PROVE  BucketIndex(ConfidenceToBucket(c)) = i <=> InBucket(c, i)
<1> USE DEF InBucket, NumBuckets, BucketIndex, ConfidenceToBucket, Invalid
<1>1. CASE BucketWidth = 1
  BY <1>1
<1>2. CASE BucketWidth = 2
  BY <1>2
<1>3. CASE BucketWidth = 4
  BY <1>3
<1>4. CASE BucketWidth = 5
  BY <1>4
<1>5. CASE BucketWidth = 10
  BY <1>5
<1>6. CASE BucketWidth = 20
  BY <1>6
<1>7. CASE BucketWidth = 25
  BY <1>7
<1>8. CASE BucketWidth = 50
  BY <1>8
<1>9. CASE BucketWidth = 100
  BY <1>9
<1> QED BY <1>1, <1>2, <1>3, <1>4, <1>5, <1>6, <1>7, <1>8, <1>9, ActivityAssumption

\* There is a bucket, and NumBuckets is the number of none.
LEMMA BucketsExist == NumBuckets \in Nat /\ NumBuckets >= 1
<1> USE DEF NumBuckets
<1>1. CASE BucketWidth \in {1, 2, 4}
  BY <1>1
<1>2. CASE BucketWidth \in {5, 10, 20}
  BY <1>2
<1>3. CASE BucketWidth \in {25, 50, 100}
  BY <1>3
<1> QED BY <1>1, <1>2, <1>3, ActivityAssumption

\* The place of a file's and of a record's counts in the report: only confidences have buckets.
Place(n) == IF n.of = "confidence" THEN BucketIndex(n.bucket) ELSE 0
PlaceOf(r) == IF r.of = "confidence" THEN BucketIndex(ConfidenceToBucket(r.conf)) ELSE 0
\* The files, the records and the records that are made whole, of what the report counts as one.
Alike(n, k, c, h, i) == n.of = k /\ n.class = c /\ n.hour = h /\ Place(n) = i
Named(k, c, h, i) == {n \in DOMAIN files : Alike(n, k, c, h, i)}
Recorded(k, h, i) == {r \in made : r.of = k /\ r.hour = h /\ PlaceOf(r) = i}
OfClass(k, c, h, i) == {r \in Recorded(k, h, i) : r.class = c}
Pending == {recorder[w] : w \in Pids}
Finished(k, c, h, i) == OfClass(k, c, h, i) \ Pending
Late == {w \in Pids : recorder[w] # Idle}

\* What is recorded, and what a worker is still recording.
Recordings ==
    /\ hour \in Nat
    /\ IsFiniteSet(made)
    /\ \A r \in made : /\ r.of \in Kinds /\ r.class \in Classes \cup {NoClass}
                       /\ r.conf \in 0..100 /\ r.hour \in Nat /\ r.hour <= hour
                       /\ r.id \in Nat /\ r.id <= Cardinality(made)
    /\ recorder \in [Pids -> {Idle} \cup made]
    /\ \A w \in Pids : recorder[w] # Idle =>
         /\ recorder[w].of \in PerClass /\ recorder[w].class # NoClass
         /\ \A v \in Pids : recorder[v] = recorder[w] => v = w
    /\ histogram.hour \in Nat /\ histogram.hour < hour

\* The files there are.
FilesKept ==
    /\ IsFiniteSet(DOMAIN files)
    /\ \A n \in DOMAIN files : files[n] \in Nat /\ n.class \in Classes \cup {NoClass}

\* What is counted is what was recorded: of all classes every record, of a class those that
\* no worker is still making.
Accounts ==
    \A k \in Kinds, h \in Nat, i \in 0..(NumBuckets - 1) :
      /\ Total(Named(k, NoClass, h, i)) = Cardinality(Recorded(k, h, i))
      /\ k \in PerClass =>
           \A c \in Classes : Total(Named(k, c, h, i)) = Cardinality(Finished(k, c, h, i))

\* The invariant of the activity.
ActivityInv == Recordings /\ FilesKept /\ Accounts /\ HistogramRight

\* A file is counted up: the sum of those like it grows by one, and no other.
LEMMA CountsUp ==
  ASSUME FilesKept, NEW name, name.class \in Classes \cup {NoClass}, Increment(name)
  PROVE  /\ FilesKept'
         /\ \A k, c, h, i : /\ Total(Named(k, c, h, i)) \in Nat
                            /\ Total(Named(k, c, h, i))' =
                                 IF Alike(name, k, c, h, i) THEN Total(Named(k, c, h, i)) + 1
                                 ELSE Total(Named(k, c, h, i))
<1> DEFINE D == DOMAIN files
           old == IF name \in D THEN files[name] ELSE 0
<1>1. /\ DOMAIN files' = D \cup {name} /\ files'[name] = old + 1 /\ old \in Nat
      /\ \A n \in D \ {name} : files'[n] = files[n]
  BY DEF Increment, FilesKept
<1>2. FilesKept'
  <2>1. IsFiniteSet(D \cup {name})
    BY FS_AddElement DEF FilesKept
  <2> QED BY <1>1, <2>1 DEF FilesKept
<1>3. ASSUME NEW k, NEW c, NEW h, NEW i
      PROVE  /\ Total(Named(k, c, h, i)) \in Nat
             /\ Total(Named(k, c, h, i))' =
                  IF Alike(name, k, c, h, i) THEN Total(Named(k, c, h, i)) + 1
                  ELSE Total(Named(k, c, h, i))
  <2> DEFINE S == Named(k, c, h, i)
  <2>1. S \subseteq D /\ IsFiniteSet(S) /\ \A n \in S : files[n] \in Nat
    BY FS_Subset DEF Named, FilesKept
  <2>2. S' = IF Alike(name, k, c, h, i) THEN S \cup {name} ELSE S
    BY <1>1 DEF Named, Alike, Place
  <2>3. Alike(name, k, c, h, i) => (name \in S <=> name \in D)
    BY DEF Named
  <2>4. ~Alike(name, k, c, h, i) => name \notin S
    BY DEF Named
  <2> HIDE DEF S, D
  <2>5. SumOver(files, S) \in Nat
    BY <2>1, SumType
  <2>6. CASE Alike(name, k, c, h, i)
    <3>1. (\A n \in S \ {name} : files'[n] = files[n])
          /\ files'[name] = (IF name \in S THEN files[name] ELSE 0) + 1
      BY <1>1, <2>1, <2>3, <2>6
    <3>2. SumOver(files', S \cup {name}) = SumOver(files, S) + 1
      BY <2>1, <3>1, SumGrows
    <3> QED BY <2>2, <2>5, <2>6, <3>2 DEF Total, S
  <2>7. CASE ~Alike(name, k, c, h, i)
    <3>1. \A n \in S : files'[n] = files[n]
      BY <1>1, <2>1, <2>4, <2>7
    <3>2. SumOver(files', S) = SumOver(files, S)
      BY <3>1, SumSame
    <3> QED BY <2>2, <2>5, <2>7, <3>2 DEF Total, S
  <2> QED BY <2>6, <2>7
<1> QED BY <1>2, <1>3

\* A file's name says of a record what the report looks for.
LEMMA NameFacts ==
  ASSUME NEW r, NEW class, NEW w, NEW k, NEW c, NEW h, NEW i
  PROVE  /\ FileOf(r, class, w).class = class
         /\ Alike(FileOf(r, class, w), k, c, h, i)
              <=> class = c /\ r.of = k /\ r.hour = h /\ PlaceOf(r) = i
<1> DEFINE n == FileOf(r, class, w)
<1>1. n.of = r.of /\ n.class = class /\ n.hour = r.hour
  BY DEF FileOf
<1>2. r.of = "confidence" => n.bucket = ConfidenceToBucket(r.conf)
  BY DEF FileOf
<1> HIDE DEF n
<1>3. Place(n) = PlaceOf(r)
  BY <1>1, <1>2 DEF Place, PlaceOf
<1> QED BY <1>1, <1>3 DEF Alike, n

\* No record is the mark of an idle worker.
LEMMA NotIdle == ASSUME Recordings, NEW r \in made PROVE r # Idle
<1>1. r.of # "none"
  BY DEF Recordings, Kinds
<1> QED BY <1>1 DEF Idle

\* The records of a class that a report misses are those that late workers are making.
LEMMA LateFew ==
  ASSUME Recordings, NEW k, NEW c, NEW h, NEW i
  PROVE  LET n == Cardinality(Finished(k, c, h, i))
             all == Cardinality(OfClass(k, c, h, i))
         IN  n <= all /\ all <= n + Cardinality(Late)
<1> DEFINE F == Finished(k, c, h, i)
           A == OfClass(k, c, h, i)
           B == A \cap Pending
           L == {recorder[w] : w \in Late}
           f == [w \in Late |-> recorder[w]]
<1>1. IsFiniteSet(A) /\ A \subseteq made
  <2>1. A \subseteq made
    BY DEF OfClass, Recorded
  <2> QED BY <2>1, FS_Subset DEF Recordings
<1>2. F \subseteq A /\ B \subseteq A /\ F \cap B = {} /\ A = F \cup B
  BY DEF Finished
<1>3. IsFiniteSet(F) /\ IsFiniteSet(B) /\ Cardinality(F) <= Cardinality(A)
  BY <1>1, <1>2, FS_Subset
<1>4. IsFiniteSet(Late)
  BY FS_Subset, ActivityAssumption DEF Late
<1>5. f \in Surjection(Late, L)
  BY DEF Surjection
<1>6. IsFiniteSet(L) /\ Cardinality(L) <= Cardinality(Late)
  BY <1>4, <1>5, FS_Surjection
<1>7. B \subseteq L
  BY <1>1, NotIdle DEF Pending, Late
<1>8. Cardinality(B) <= Cardinality(L)
  BY <1>6, <1>7, FS_Subset
<1>9. Cardinality(A) = Cardinality(F) + Cardinality(B)
  <2> HIDE DEF F, A, B
  <2>1. Cardinality(F \cup B) = Cardinality(F) + Cardinality(B) - Cardinality(F \cap B)
    BY <1>3, FS_Union
  <2>2. Cardinality(F) \in Nat /\ Cardinality(B) \in Nat /\ Cardinality(F \cap B) = 0
    BY <1>2, <1>3, FS_CardinalityType, FS_EmptySet
  <2> QED BY <1>2, <2>1, <2>2
<1>10. /\ Cardinality(F) \in Nat /\ Cardinality(B) \in Nat /\ Cardinality(L) \in Nat
       /\ Cardinality(Late) \in Nat
  BY <1>3, <1>4, <1>6, FS_CardinalityType
<1> HIDE DEF F, A, B, L
<1> QED BY <1>3, <1>6, <1>8, <1>9, <1>10 DEF F, A

\* HistogramRight, of the records of the hour reported.
RightOf(past) ==
    LET exactBut(n, S) == n <= Cardinality(S) /\ Cardinality(S) <= n + Cardinality(histogram.late)
        of(i, classes) ==
            {r \in past : /\ r.of = "confidence" /\ r.class \in classes
                          /\ \/ i * BucketWidth <= r.conf /\ r.conf < (i + 1) * BucketWidth
                             \/ r.conf = 100 /\ i = NumBuckets - 1}
    IN  /\ \A i \in 0..(NumBuckets - 1) :
              /\ histogram.counts[i] = Cardinality(of(i, Classes \cup {NoClass}))
              /\ \A c \in DOMAIN histogram.byClass : exactBut(histogram.byClass[c][i], of(i, {c}))
              /\ \A c \in Classes \ DOMAIN histogram.byClass : exactBut(0, of(i, {c}))
        /\ \A k \in Kinds \ {"confidence"} :
              histogram.totals[k] = Cardinality({r \in past : r.of = k})
        /\ \A c \in Classes :
              exactBut(histogram.escalations[c], {r \in past : r.of = "escalations" /\ r.class = c})
\* The records of the hour reported.
Past == {r \in made : r.hour = histogram.hour}

\* HistogramRight is RightOf the records of the hour.
LEMMA RightIs == HistogramRight <=> (histogram.hour > 0 => RightOf(Past))
  BY DEF HistogramRight, RightOf, Past

\* While the report and the records of its hour stay, it stays right.
LEMMA RightStays == HistogramRight /\ UNCHANGED <<histogram, Past>> => HistogramRight'
<1> SUFFICES ASSUME HistogramRight, UNCHANGED <<histogram, Past>> PROVE HistogramRight'
  OBVIOUS
<1>1. RightOf(Past) => RightOf(Past)'
  BY DEF RightOf
<1>2. HistogramRight' <=> (histogram'.hour > 0 => RightOf(Past)')
  BY DEF HistogramRight, RightOf, Past
<1> QED BY <1>1, <1>2, RightIs

\* A worker records a confidence or an activity in the file of all classes.
LEMMA RecordsAll ==
  ASSUME ActivityInv, NEW w \in Pids, NEW of \in Kinds, NEW conf \in 0..100,
         NEW class \in Classes \cup {NoClass}, RecordAll(w, of, conf, class)
  PROVE  ActivityInv'
<1> DEFINE r == [of |-> of, conf |-> conf, class |-> class, hour |-> hour,
                 id |-> Cardinality(made) + 1]
           name == FileOf(r, NoClass, w)
           whole == class = NoClass \/ of \notin PerClass
<1>1. /\ recorder[w] = Idle /\ made' = made \cup {r} /\ Increment(name)
      /\ recorder' = [recorder EXCEPT ![w] = IF whole THEN Idle ELSE r]
      /\ hour' = hour /\ histogram' = histogram
  BY DEF RecordAll
<1>2. Recordings /\ FilesKept /\ Accounts /\ HistogramRight
  BY DEF ActivityInv
<1>3. /\ r.of = of /\ r.conf = conf /\ r.class = class /\ r.hour = hour
      /\ r.id = Cardinality(made) + 1 /\ Cardinality(made) \in Nat /\ r # Idle
  <2>1. Cardinality(made) \in Nat
    BY <1>2, FS_CardinalityType DEF Recordings
  <2>2. of # "none"
    BY DEF Kinds
  <2> QED BY <2>1, <2>2 DEF Idle
<1> HIDE DEF r
<1>4. r \notin made
  BY <1>2, <1>3 DEF Recordings
<1>5. IsFiniteSet(made') /\ Cardinality(made') = Cardinality(made) + 1
  BY <1>1, <1>2, <1>4, FS_AddElement DEF Recordings
<1>6. Recordings'
  <2>1. \A x \in made' :
          /\ x.of \in Kinds /\ x.class \in Classes \cup {NoClass}
          /\ x.conf \in 0..100 /\ x.hour \in Nat /\ x.hour <= hour
          /\ x.id \in Nat /\ x.id <= Cardinality(made')
    <3>1. \A x \in made : /\ x.of \in Kinds /\ x.class \in Classes \cup {NoClass}
                          /\ x.conf \in 0..100 /\ x.hour \in Nat /\ x.hour <= hour
                          /\ x.id \in Nat /\ x.id <= Cardinality(made)
      BY <1>2 DEF Recordings
    <3>2. r.hour \in Nat
      BY <1>2, <1>3 DEF Recordings
    <3> QED BY <1>1, <1>3, <1>5, <3>1, <3>2
  <2>2. recorder' \in [Pids -> {Idle} \cup made']
    BY <1>1, <1>2 DEF Recordings
  <2>3. ASSUME NEW v \in Pids, recorder'[v] # Idle
        PROVE  /\ recorder'[v].of \in PerClass /\ recorder'[v].class # NoClass
               /\ \A u \in Pids : recorder'[u] = recorder'[v] => u = v
    <3>1. recorder \in [Pids -> {Idle} \cup made]
      BY <1>2 DEF Recordings
    <3>2. CASE v = w
      <4>1. recorder'[v] = r /\ ~whole
        BY <1>1, <2>3, <3>1, <3>2
      <4>2. \A u \in Pids \ {w} : recorder'[u] \in {Idle} \cup made
        BY <1>1, <3>1
      <4> QED BY <1>3, <1>4, <3>2, <4>1, <4>2
    <3>3. CASE v # w
      <4>1. recorder'[v] = recorder[v] /\ recorder[v] \in made
        BY <1>1, <2>3, <3>1, <3>3
      <4>2. /\ recorder[v].of \in PerClass /\ recorder[v].class # NoClass
            /\ \A u \in Pids : recorder[u] = recorder[v] => u = v
        BY <1>2, <2>3, <4>1 DEF Recordings
      <4>3. recorder'[w] # recorder[v]
        BY <1>1, <1>4, <2>3, <3>1, <4>1
      <4>4. \A u \in Pids \ {w} : recorder'[u] = recorder[u]
        BY <1>1, <3>1
      <4> QED BY <3>3, <4>1, <4>2, <4>3, <4>4
    <3> QED BY <3>2, <3>3
  <2> QED BY <1>1, <1>2, <1>5, <2>1, <2>2, <2>3 DEF Recordings
<1>7. name.class \in Classes \cup {NoClass}
  BY NameFacts
<1>8. FilesKept'
  BY <1>1, <1>2, <1>7, CountsUp
<1>9. ASSUME NEW k \in Kinds, NEW h \in Nat, NEW i \in 0..(NumBuckets - 1)
      PROVE  Total(Named(k, NoClass, h, i))' = Cardinality(Recorded(k, h, i)')
  <2> DEFINE match == of = k /\ hour = h /\ PlaceOf(r) = i
  <2>1. Alike(name, k, NoClass, h, i) <=> match
    BY <1>3, NameFacts
  <2>2. Total(Named(k, NoClass, h, i)) = Cardinality(Recorded(k, h, i))
    BY <1>2 DEF Accounts
  <2>3. Recorded(k, h, i)' = IF match THEN Recorded(k, h, i) \cup {r} ELSE Recorded(k, h, i)
    BY <1>1, <1>3 DEF Recorded, PlaceOf
  <2>4. Recorded(k, h, i) \subseteq made
    BY DEF Recorded
  <2>5. IsFiniteSet(Recorded(k, h, i)) /\ r \notin Recorded(k, h, i)
    BY <1>2, <1>4, <2>4, FS_Subset DEF Recordings
  <2>6. Cardinality(Recorded(k, h, i) \cup {r}) = Cardinality(Recorded(k, h, i)) + 1
    BY <2>5, FS_AddElement
  <2>7. Total(Named(k, NoClass, h, i))' =
          IF match THEN Total(Named(k, NoClass, h, i)) + 1 ELSE Total(Named(k, NoClass, h, i))
    BY <1>1, <1>2, <1>7, <2>1, CountsUp
  <2> QED BY <2>2, <2>3, <2>6, <2>7
<1>10. ASSUME NEW k \in PerClass, NEW h \in Nat, NEW i \in 0..(NumBuckets - 1), NEW c \in Classes
       PROVE  Total(Named(k, c, h, i))' = Cardinality(Finished(k, c, h, i)')
  <2>1. ~Alike(name, k, c, h, i)
    BY NameFacts, ActivityAssumption
  <2>2. Total(Named(k, c, h, i))' = Total(Named(k, c, h, i))
    BY <1>1, <1>2, <1>7, <2>1, CountsUp
  <2>3. Total(Named(k, c, h, i)) = Cardinality(Finished(k, c, h, i))
    BY <1>2 DEF Accounts, PerClass, Kinds
  <2>4. \A x \in made : x \in Pending' <=> x \in Pending
    <3>1. recorder \in [Pids -> {Idle} \cup made]
      BY <1>2 DEF Recordings
    <3>2. \A x \in made : x # Idle /\ x # r
      BY <1>2, <1>4, NotIdle
    <3>3. recorder'[w] \in {Idle, r} /\ \A v \in Pids \ {w} : recorder'[v] = recorder[v]
      BY <1>1, <3>1
    <3> QED BY <1>1, <3>2, <3>3 DEF Pending
  <2>5. r.class = c /\ r.of = k => r \in Pending'
    <3>1. r.class = c /\ r.of = k => recorder'[w] = r
      BY <1>1, <1>2, <1>3, ActivityAssumption DEF Recordings
    <3> QED BY <3>1 DEF Pending
  <2>6. Finished(k, c, h, i)' = Finished(k, c, h, i)
    BY <1>1, <2>4, <2>5 DEF Finished, OfClass, Recorded, PlaceOf
  <2> QED BY <2>2, <2>3, <2>6
<1>11. Accounts'
  BY <1>9, <1>10 DEF Accounts
<1>12. HistogramRight'
  <2>1. r.hour # histogram.hour
    BY <1>2, <1>3 DEF Recordings
  <2>2. Past' = Past
    BY <1>1, <2>1 DEF Past
  <2> QED BY <1>1, <1>2, <2>2, RightStays
<1> QED BY <1>6, <1>8, <1>11, <1>12 DEF ActivityInv

\* A worker records the same in the file of the class.
LEMMA RecordsClass ==
  ASSUME ActivityInv, NEW w \in Pids, RecordClass(w)
  PROVE  ActivityInv'
<1> DEFINE r == recorder[w]
           name == FileOf(r, r.class, w)
<1>1. /\ r # Idle /\ Increment(name) /\ recorder' = [recorder EXCEPT ![w] = Idle]
      /\ UNCHANGED <<hour, made, histogram>>
  BY DEF RecordClass
<1>2. Recordings /\ FilesKept /\ Accounts /\ HistogramRight
  BY DEF ActivityInv
<1>3. /\ recorder \in [Pids -> {Idle} \cup made] /\ r \in made /\ r.of \in PerClass
      /\ r.class \in Classes /\ r.class # NoClass /\ \A v \in Pids : recorder[v] = r => v = w
  BY <1>1, <1>2 DEF Recordings
<1>4. \A v \in Pids : recorder'[v] = IF v = w THEN Idle ELSE recorder[v]
  BY <1>1, <1>3
<1> HIDE DEF r
<1>5. Recordings'
  <2>1. recorder' \in [Pids -> {Idle} \cup made']
    BY <1>1, <1>3
  <2> QED BY <1>1, <1>2, <1>4, <2>1 DEF Recordings
<1>6. name.class \in Classes \cup {NoClass}
  BY <1>3, NameFacts
<1>7. FilesKept'
  BY <1>1, <1>2, <1>6, CountsUp
<1>8. ASSUME NEW k \in Kinds, NEW h \in Nat, NEW i \in 0..(NumBuckets - 1)
      PROVE  Total(Named(k, NoClass, h, i))' = Cardinality(Recorded(k, h, i)')
  <2>1. ~Alike(name, k, NoClass, h, i)
    BY <1>3, NameFacts
  <2>2. Total(Named(k, NoClass, h, i))' = Total(Named(k, NoClass, h, i))
    BY <1>1, <1>2, <1>6, <2>1, CountsUp
  <2>3. Recorded(k, h, i)' = Recorded(k, h, i)
    BY <1>1 DEF Recorded
  <2> QED BY <1>2, <2>2, <2>3 DEF Accounts
<1>9. ASSUME NEW k \in PerClass, NEW h \in Nat, NEW i \in 0..(NumBuckets - 1), NEW c \in Classes
      PROVE  Total(Named(k, c, h, i))' = Cardinality(Finished(k, c, h, i)')
  <2> DEFINE match == r.class = c /\ r.of = k /\ r.hour = h /\ PlaceOf(r) = i
             F == Finished(k, c, h, i)
  <2>1. Alike(name, k, c, h, i) <=> match
    BY NameFacts
  <2>2. Total(Named(k, c, h, i))' =
          IF match THEN Total(Named(k, c, h, i)) + 1 ELSE Total(Named(k, c, h, i))
    BY <1>1, <1>2, <1>6, <2>1, CountsUp
  <2>3. Total(Named(k, c, h, i)) = Cardinality(F)
    BY <1>2 DEF Accounts, PerClass, Kinds
  <2>4. \A x \in made : x \in Pending' <=> x \in Pending /\ x # r
    <3>1. \A x \in made : x # Idle
      BY <1>2, NotIdle
    <3>2. \A v \in Pids : recorder'[v] = r => FALSE
      BY <1>1, <1>3, <1>4
    <3>3. \A x \in made : x # r => (x \in Pending' <=> x \in Pending)
      BY <1>4, <3>1 DEF Pending, r
    <3> QED BY <3>2, <3>3 DEF Pending
  <2>5. r \in Pending
    BY DEF Pending, r
  <2>6. F' = IF match THEN F \cup {r} ELSE F
    <3>1. \A x \in made : x \in OfClass(k, c, h, i)' <=> x \in OfClass(k, c, h, i)
      BY <1>1 DEF OfClass, Recorded
    <3>2. OfClass(k, c, h, i) \subseteq made /\ OfClass(k, c, h, i)' \subseteq made
      BY <1>1 DEF OfClass, Recorded
    <3>3. r \in OfClass(k, c, h, i) <=> match
      BY <1>3 DEF OfClass, Recorded
    <3> QED BY <2>4, <2>5, <3>1, <3>2, <3>3 DEF Finished
  <2>7. IsFiniteSet(F) /\ r \notin F
    <3>1. F \subseteq made /\ r \notin F
      BY <2>5 DEF Finished, OfClass, Recorded
    <3> QED BY <1>2, <3>1, FS_Subset DEF Recordings
  <2>8. Cardinality(F \cup {r}) = Cardinality(F) + 1
    BY <2>7, FS_AddElement
  <2> HIDE DEF F, match
  <2>9. F' = Finished(k, c, h, i)'
    BY DEF F
  <2> QED BY <2>2, <2>3, <2>6, <2>8, <2>9
<1>10. Accounts'
  BY <1>8, <1>9 DEF Accounts
<1>11. HistogramRight'
  BY <1>1, <1>2, RightStays DEF Past
<1> QED BY <1>5, <1>7, <1>10, <1>11 DEF ActivityInv

\* Files of another version are counted up, but none of those the report counts.
LEMMA OldFilesLeft ==
  ASSUME ActivityInv, NEW width \in Widths, NEW w \in Pids, LeaveOldFile(width, w)
  PROVE  ActivityInv'
<1> DEFINE name == [of |-> "confidence", class |-> NoClass,
                    bucket |-> [from |-> 0, to |-> width], pid |-> w, hour |-> hour]
<1>1. Increment(name) /\ width # BucketWidth /\ UNCHANGED <<recorder, hour, made, histogram>>
  BY DEF LeaveOldFile
<1>2. Recordings /\ FilesKept /\ Accounts /\ HistogramRight
  BY DEF ActivityInv
<1>3. Place(name) = NumBuckets
  <2>1. name.of = "confidence" /\ name.bucket.to - name.bucket.from # BucketWidth
    BY <1>1, ActivityAssumption
  <2> QED BY <2>1 DEF Place, BucketIndex, Invalid
<1>4. name.class \in Classes \cup {NoClass}
  OBVIOUS
<1> HIDE DEF name
<1>5. FilesKept'
  BY <1>1, <1>2, <1>4, CountsUp
<1>6. \A k \in Kinds, h \in Nat, i \in 0..(NumBuckets - 1) : \A c :
        Total(Named(k, c, h, i))' = Total(Named(k, c, h, i))
  <2>1. \A i \in 0..(NumBuckets - 1) : i # NumBuckets
    BY BucketsExist
  <2>2. \A k, h, c : \A i \in 0..(NumBuckets - 1) : ~Alike(name, k, c, h, i)
    BY <1>3, <2>1 DEF Alike
  <2> QED BY <1>1, <1>2, <1>4, <2>2, CountsUp
<1>7. \A k, h, i, c : Recorded(k, h, i)' = Recorded(k, h, i)
                      /\ Finished(k, c, h, i)' = Finished(k, c, h, i)
  BY <1>1 DEF Recorded, Finished, OfClass, Pending
<1>8. Accounts'
  BY <1>2, <1>6, <1>7 DEF Accounts, Kinds, PerClass
<1>9. HistogramRight'
  BY <1>1, <1>2, RightStays DEF Past
<1>10. Recordings'
  BY <1>1, <1>2 DEF Recordings
<1> QED BY <1>5, <1>8, <1>9, <1>10 DEF ActivityInv

\* Counts and records stay as they are while no file and no record changes.
LEMMA AccountsStay ==
  ASSUME FilesKept, Accounts, UNCHANGED <<files, recorder, made>>
  PROVE  FilesKept' /\ Accounts'
<1>1. FilesKept'
  BY DEF FilesKept
<1>2. ASSUME NEW k, NEW c, NEW h, NEW i
      PROVE  /\ Total(Named(k, c, h, i))' = Total(Named(k, c, h, i))
             /\ Recorded(k, h, i)' = Recorded(k, h, i)
             /\ Finished(k, c, h, i)' = Finished(k, c, h, i)
  <2>1. Named(k, c, h, i)' = Named(k, c, h, i)
    BY DEF Named, Alike
  <2>2. Recorded(k, h, i)' = Recorded(k, h, i) /\ Pending' = Pending
    BY DEF Recorded, Pending
  <2> QED BY <2>1, <2>2 DEF Total, Finished, OfClass
<1>3. Accounts'
  BY <1>2 DEF Accounts
<1> QED BY <1>1, <1>3

\* The hour passes.
LEMMA HourPasses == ASSUME ActivityInv, NextHour PROVE ActivityInv'
<1>1. hour' = hour + 1 /\ UNCHANGED <<files, recorder, made, histogram>>
  BY DEF NextHour
<1>2. Recordings /\ FilesKept /\ Accounts /\ HistogramRight
  BY DEF ActivityInv
<1>3. Recordings'
  BY <1>1, <1>2 DEF Recordings
<1>4. FilesKept' /\ Accounts'
  BY <1>1, <1>2, AccountsStay
<1>5. HistogramRight'
  BY <1>1, <1>2, RightStays DEF Past
<1> QED BY <1>3, <1>4, <1>5 DEF ActivityInv

\* What the report says of an hour, by the sums it is made of.
LEMMA ReportIs ==
  ASSUME ActivityInv, Report
  PROVE  LET h == hour - 1
         IN  /\ h \in Nat /\ h > 0 /\ histogram'.hour = h /\ histogram'.late = Late
             /\ \A i \in 0..(NumBuckets - 1) :
                  /\ histogram'.counts[i] = Total(Named("confidence", NoClass, h, i))
                  /\ \A c \in Classes :
                       IF c \in DOMAIN histogram'.byClass
                       THEN histogram'.byClass[c][i] = Total(Named("confidence", c, h, i))
                       ELSE Named("confidence", c, h, i) = {}
             /\ DOMAIN histogram'.byClass \subseteq Classes
             /\ \A k \in Kinds \ {"confidence"} :
                  histogram'.totals[k] = Total(Named(k, NoClass, h, 0))
             /\ \A c \in Classes :
                  histogram'.escalations[c] = Total(Named("escalations", c, h, 0))
<1> DEFINE h == hour - 1
           past == {n \in DOMAIN files : n.hour = h}
           found == {n \in past : n.of = "confidence" /\ BucketIndex(n.bucket) # Invalid}
           total(kind, class) == Total({n \in past : n.of = kind /\ n.class = class})
           of(class) == [i \in 0..(NumBuckets - 1) |->
                           Total({n \in found : n.class = class /\ BucketIndex(n.bucket) = i})]
<1>1. h \in Nat /\ h > 0
  BY DEF Report, ActivityInv, Recordings
<1>2. histogram' = [hour |-> h,
                    totals |-> [k \in Kinds \ {"confidence"} |-> total(k, NoClass)],
                    escalations |-> [c \in Classes |-> total("escalations", c)],
                    counts |-> of(NoClass),
                    byClass |-> [c \in {n.class : n \in found} \ {NoClass} |-> of(c)],
                    late |-> Late]
  BY DEF Report, Late
<1>3. \A i \in 0..(NumBuckets - 1) : i # Invalid
  BY BucketsExist DEF Invalid
<1>4. \A c : \A i \in 0..(NumBuckets - 1) :
        {n \in found : n.class = c /\ BucketIndex(n.bucket) = i} = Named("confidence", c, h, i)
  BY <1>3 DEF Named, Alike, Place
<1>5. \A c : \A k \in Kinds \ {"confidence"} :
        {n \in past : n.of = k /\ n.class = c} = Named(k, c, h, 0)
  BY DEF Named, Alike, Place
<1>6. \A c : \A i \in 0..(NumBuckets - 1) : of(c)[i] = Total(Named("confidence", c, h, i))
  BY <1>4
<1>7. \A c : \A k \in Kinds \ {"confidence"} : total(k, c) = Total(Named(k, c, h, 0))
  BY <1>5
<1>8. \A n \in DOMAIN files : n.class \in Classes \cup {NoClass}
  BY DEF ActivityInv, FilesKept
<1>9. DOMAIN histogram'.byClass = {n.class : n \in found} \ {NoClass}
  BY <1>2
<1>10. DOMAIN histogram'.byClass \subseteq Classes
  BY <1>8, <1>9
<1>11. \A c \in Classes : \A i \in 0..(NumBuckets - 1) :
         c \notin DOMAIN histogram'.byClass => Named("confidence", c, h, i) = {}
  <2>1. \A c \in Classes : c # NoClass
    BY ActivityAssumption
  <2>2. \A c : \A i \in 0..(NumBuckets - 1) : \A n \in Named("confidence", c, h, i) :
          n \in found /\ n.class = c
    BY <1>4
  <2> QED BY <1>9, <2>1, <2>2
<1>12. \A c \in DOMAIN histogram'.byClass : histogram'.byClass[c] = of(c)
  BY <1>2, <1>9
<1>13. /\ histogram'.hour = h /\ histogram'.late = Late /\ histogram'.counts = of(NoClass)
       /\ histogram'.totals = [k \in Kinds \ {"confidence"} |-> total(k, NoClass)]
       /\ histogram'.escalations = [c \in Classes |-> total("escalations", c)]
  BY <1>2
<1>14. "escalations" \in Kinds \ {"confidence"}
  BY DEF Kinds
<1> HIDE DEF total, of, found, past
<1> QED BY <1>1, <1>6, <1>7, <1>10, <1>11, <1>12, <1>13, <1>14

\* The report, when it is made, is right.
LEMMA ReportMade ==
  ASSUME ActivityInv, Report
  PROVE  ActivityInv'
<1> DEFINE h == hour - 1
<1>1. Recordings /\ FilesKept /\ Accounts /\ UNCHANGED <<files, recorder, hour, made>>
  BY DEF ActivityInv, Report
<1>2. h \in Nat /\ h > 0 /\ histogram'.hour = h /\ histogram'.late = Late
  BY ReportIs
<1>3. Recordings'
  BY <1>1, <1>2 DEF Recordings
<1>4. FilesKept' /\ Accounts'
  BY <1>1, AccountsStay
<1> HIDE DEF h
<1> DEFINE past == {r \in made : r.hour = h}
           of(i, classes) ==
             {r \in past : /\ r.of = "confidence" /\ r.class \in classes
                           /\ \/ i * BucketWidth <= r.conf /\ r.conf < (i + 1) * BucketWidth
                              \/ r.conf = 100 /\ i = NumBuckets - 1}
<1>5. \A r \in made : r.conf \in 0..100 /\ r.class \in Classes \cup {NoClass} /\ r.of \in Kinds
  BY <1>1 DEF Recordings
<1>6. ASSUME NEW i \in 0..(NumBuckets - 1), NEW classes
      PROVE  of(i, classes) = {r \in Recorded("confidence", h, i) : r.class \in classes}
  <2>1. \A r \in made : InBucket(r.conf, i) <=> BucketIndex(ConfidenceToBucket(r.conf)) = i
    BY <1>5, BucketRight
  <2> QED BY <2>1 DEF Recorded, PlaceOf, InBucket
<1>7. ASSUME NEW i \in 0..(NumBuckets - 1)
      PROVE  of(i, Classes \cup {NoClass}) = Recorded("confidence", h, i)
  <2>1. Recorded("confidence", h, i) \subseteq made
    BY DEF Recorded
  <2>2. of(i, Classes \cup {NoClass})
          = {r \in Recorded("confidence", h, i) : r.class \in Classes \cup {NoClass}}
    BY <1>6
  <2> HIDE DEF of
  <2> QED BY <1>5, <2>1, <2>2
<1>8. ASSUME NEW i \in 0..(NumBuckets - 1), NEW c
      PROVE  of(i, {c}) = OfClass("confidence", c, h, i)
  <2>1. of(i, {c}) = {r \in Recorded("confidence", h, i) : r.class \in {c}}
    BY <1>6
  <2> HIDE DEF of
  <2> QED BY <2>1 DEF OfClass
<1>9. \A k \in Kinds \ {"confidence"} : {r \in past : r.of = k} = Recorded(k, h, 0)
  BY DEF Recorded, PlaceOf
<1>10. \A c : {r \in past : r.of = "escalations" /\ r.class = c} = OfClass("escalations", c, h, 0)
  BY DEF OfClass, Recorded, PlaceOf
<1>11. 0 \in 0..(NumBuckets - 1)
  BY BucketsExist
<1>12. /\ "confidence" \in Kinds /\ "confidence" \in PerClass
       /\ "escalations" \in Kinds /\ "escalations" \in PerClass
  BY DEF Kinds, PerClass
<1>13. Total({}) = 0
  <2>1. Points(files, {}) = {}
    BY DEF Points
  <2> QED BY <2>1, FS_EmptySet DEF Total, SumOver
<1>14. ASSUME NEW i \in 0..(NumBuckets - 1)
       PROVE  histogram'.counts[i] = Cardinality(of(i, Classes \cup {NoClass}))
  <2>1. histogram'.counts[i] = Total(Named("confidence", NoClass, h, i))
    BY ReportIs DEF h
  <2>2. Total(Named("confidence", NoClass, h, i)) = Cardinality(Recorded("confidence", h, i))
    BY <1>1, <1>2, <1>12 DEF Accounts
  <2>3. of(i, Classes \cup {NoClass}) = Recorded("confidence", h, i)
    BY <1>7
  <2> HIDE DEF of
  <2> QED BY <2>1, <2>2, <2>3
<1>15. ASSUME NEW i \in 0..(NumBuckets - 1), NEW c \in Classes
       PROVE  LET n == IF c \in DOMAIN histogram'.byClass THEN histogram'.byClass[c][i] ELSE 0
              IN  /\ n <= Cardinality(of(i, {c}))
                  /\ Cardinality(of(i, {c})) <= n + Cardinality(Late)
  <2> DEFINE n == IF c \in DOMAIN histogram'.byClass THEN histogram'.byClass[c][i] ELSE 0
  <2>1. n = Total(Named("confidence", c, h, i))
    BY <1>13, ReportIs DEF h
  <2>2. Total(Named("confidence", c, h, i)) = Cardinality(Finished("confidence", c, h, i))
    BY <1>1, <1>2, <1>12 DEF Accounts
  <2>3. of(i, {c}) = OfClass("confidence", c, h, i)
    BY <1>8
  <2> HIDE DEF of, n
  <2>4. n <= Cardinality(of(i, {c})) /\ Cardinality(of(i, {c})) <= n + Cardinality(Late)
    BY <1>1, <2>1, <2>2, <2>3, LateFew
  <2> QED BY <2>4 DEF n
<1>16. ASSUME NEW k \in Kinds \ {"confidence"}
       PROVE  histogram'.totals[k] = Cardinality({r \in past : r.of = k})
  <2>1. histogram'.totals[k] = Total(Named(k, NoClass, h, 0))
    BY ReportIs DEF h
  <2>2. Total(Named(k, NoClass, h, 0)) = Cardinality(Recorded(k, h, 0))
    BY <1>1, <1>2, <1>11 DEF Accounts
  <2> QED BY <1>9, <2>1, <2>2
<1>17. ASSUME NEW c \in Classes
       PROVE  LET n == histogram'.escalations[c]
                  S == {r \in past : r.of = "escalations" /\ r.class = c}
              IN  n <= Cardinality(S) /\ Cardinality(S) <= n + Cardinality(Late)
  <2>1. histogram'.escalations[c] = Total(Named("escalations", c, h, 0))
    BY ReportIs DEF h
  <2>2. Total(Named("escalations", c, h, 0)) = Cardinality(Finished("escalations", c, h, 0))
    BY <1>1, <1>2, <1>11, <1>12 DEF Accounts
  <2> QED BY <1>1, <1>10, <2>1, <2>2, LateFew
<1>18. DOMAIN histogram'.byClass \subseteq Classes
  BY ReportIs
<1>19. Past' = past
  BY <1>1, <1>2 DEF Past
<1>20. RightOf(Past)'
  <2> SUFFICES /\ \A i \in 0..(NumBuckets - 1) :
                    /\ histogram'.counts[i] = Cardinality(of(i, Classes \cup {NoClass}))
                    /\ \A c \in DOMAIN histogram'.byClass :
                         /\ histogram'.byClass[c][i] <= Cardinality(of(i, {c}))
                         /\ Cardinality(of(i, {c})) <= histogram'.byClass[c][i] + Cardinality(Late)
                    /\ \A c \in Classes \ DOMAIN histogram'.byClass :
                         /\ 0 <= Cardinality(of(i, {c}))
                         /\ Cardinality(of(i, {c})) <= 0 + Cardinality(Late)
               /\ \A k \in Kinds \ {"confidence"} :
                    histogram'.totals[k] = Cardinality({r \in past : r.of = k})
               /\ \A c \in Classes :
                    LET S == {r \in past : r.of = "escalations" /\ r.class = c}
                    IN  /\ histogram'.escalations[c] <= Cardinality(S)
                        /\ Cardinality(S) <= histogram'.escalations[c] + Cardinality(Late)
    BY <1>2, <1>19 DEF RightOf
  <2> QED BY <1>14, <1>15, <1>16, <1>17, <1>18
<1>21. HistogramRight'
  BY <1>20 DEF HistogramRight, RightOf, Past
<1> QED BY <1>3, <1>4, <1>21 DEF ActivityInv

\* The steps of the other parts leave the activity alone.
LEMMA ActivityFrame == [Next]_vars => ActivityNext \/ UNCHANGED activityVars
  BY DEF Next, vars, DeviceStep, ResultStep, ActivityStep, ResourceStep, StatusStep,
         ProfilingStep, StoreStep, BenchmarkStep

\* What is counted is what was recorded, at every point of recording and reporting.
THEOREM ActivityInductive == Spec => []ActivityInv
<1>1. Init => ActivityInv
  <2> SUFFICES ASSUME ActivityInit PROVE ActivityInv
    BY DEF Init
  <2>1. DOMAIN files = {} /\ made = {} /\ hour = 1 /\ histogram.hour = 0
        /\ recorder = [w \in Pids |-> Idle]
    BY DEF ActivityInit
  <2>2. IsFiniteSet({}) /\ Cardinality({}) = 0
    BY FS_EmptySet
  <2>3. Recordings /\ FilesKept
    BY <2>1, <2>2 DEF Recordings, FilesKept
  <2>4. \A k, c, h, i : Named(k, c, h, i) = {} /\ Recorded(k, h, i) = {} /\ Finished(k, c, h, i) = {}
    BY <2>1 DEF Named, Recorded, Finished, OfClass
  <2>5. Points(files, {}) = {}
    BY DEF Points
  <2>6. Accounts
    BY <2>2, <2>4, <2>5 DEF Accounts, Total, SumOver
  <2> QED BY <2>1, <2>3, <2>6 DEF ActivityInv, HistogramRight
<1>2. ASSUME ActivityInv, ActivityNext PROVE ActivityInv'
  <2>1. ASSUME NEW w \in Pids, NEW conf \in Confidences, NEW class \in Classes \cup {NoClass},
               RecordAll(w, "confidence", conf, class)
        PROVE  ActivityInv'
    BY <1>2, <2>1, RecordsAll, ActivityAssumption DEF Kinds
  <2>2. ASSUME NEW w \in Pids, NEW of \in Kinds \ {"confidence"},
               NEW class \in Classes \cup {NoClass}, RecordAll(w, of, 0, class)
        PROVE  ActivityInv'
    BY <1>2, <2>2, RecordsAll
  <2> QED BY <1>2, <2>1, <2>2, RecordsClass, OldFilesLeft, HourPasses, ReportMade DEF ActivityNext
<1>3. ActivityInv /\ UNCHANGED activityVars => ActivityInv'
  <2> SUFFICES ASSUME ActivityInv, UNCHANGED activityVars PROVE ActivityInv'
    OBVIOUS
  <2>1. UNCHANGED <<files, recorder, hour, made, histogram>>
    BY DEF activityVars
  <2>4. FilesKept' /\ Accounts'
    BY <2>1, AccountsStay DEF ActivityInv
  <2>2. Recordings'
    BY <2>1 DEF ActivityInv, Recordings
  <2>3. HistogramRight'
    BY <2>1, RightStays DEF ActivityInv, Past
  <2> QED BY <2>2, <2>3, <2>4 DEF ActivityInv
<1>4. ActivityInv /\ [Next]_vars => ActivityInv'
  BY <1>2, <1>3, ActivityFrame
<1> QED BY <1>1, <1>4, PTL DEF Spec

\* For every number of workers, classes and files left behind, whatever the order in which
\* workers record, hours pass and reports are made.
THEOREM HistogramIsRight == Spec => []HistogramRight
<1>1. ActivityInv => HistogramRight
  BY DEF ActivityInv
<1> QED BY <1>1, ActivityInductive, PTL

-----------------------------------------------------------------------------
(* The benchmark. *)

\* Up to each point of main: what the cleanup will find.
CleanupInv ==
    /\ at \in Nat
    /\ Externals \subseteq cloud
    /\ created \cap Externals = {}
    /\ \A n \in 1..(at - 1) : StageDetectors[n] \in created \cup Externals
    /\ step \in {"check", "snapshot"} => edge = before /\ at = 1 /\ created = {}
    /\ step \notin {"check", "snapshot", "done"} /\ "snapshot" \notin mishap => snapshot = before
    /\ step \in {"delete", "cleaned", "done"} /\ mishap \cap {"skipped", "snapshot", "restore"} = {} =>
          edge = before
    /\ step \in {"cleaned", "done"} /\ mishap \cap {"skipped", "preserved"} = {} =>
          created \cap cloud \subseteq leaked

\* The processes of a run touch nothing that the cleanup looks at.
LEMMA CleanupStays ==
  CleanupInv /\ UNCHANGED <<step, cloudVars, edgeVars, mishap>> => CleanupInv'
  BY DEF CleanupInv, cloudVars, edgeVars

\* Each step of main keeps the account of what is to be put back.
LEMMA CleanupMoves == ASSUME CleanupInv, BenchmarkNext PROVE CleanupInv'
<1> USE DEF cloudVars, edgeVars
<1>1. ASSUME EnsureHostClean PROVE CleanupInv'
  BY <1>1 DEF CleanupInv, EnsureHostClean
<1>2. ASSUME SnapshotEdgeConfig PROVE CleanupInv'
  BY <1>2 DEF CleanupInv, SnapshotEdgeConfig
<1>3. ASSUME Provision PROVE CleanupInv'
  BY <1>3 DEF CleanupInv, Provision, Tracked
<1>4. ASSUME WaitForTraining PROVE CleanupInv'
  BY <1>4 DEF CleanupInv, WaitForTraining
<1>5. ASSUME NEW d \in AllDetectors, Trains(d) PROVE CleanupInv'
  BY <1>5 DEF CleanupInv, Trains
<1>6. ASSUME PushEdgeConfig PROVE CleanupInv'
  BY <1>6 DEF CleanupInv, PushEdgeConfig
<1>7. ASSUME SpawnLensWorkers \/ Sleep \/ JoinWithGrace \/ WriteTopLevel PROVE CleanupInv'
  BY <1>7 DEF CleanupInv, SpawnLensWorkers, Sleep, JoinWithGrace, WriteTopLevel
<1>8. ASSUME NEW w \in Cameras, Frame(w) \/ SubmitBinary(w) \/ WorkerEnds(w) PROVE CleanupInv'
  BY <1>8, CleanupStays DEF Frame, SubmitBinary, WorkerEnds
<1>9. ASSUME Raise PROVE CleanupInv'
  BY <1>9 DEF CleanupInv, Raise
<1>10. ASSUME RestoreEdgeConfig PROVE CleanupInv'
  BY <1>10 DEF CleanupInv, RestoreEdgeConfig
<1>11. ASSUME DeleteAll PROVE CleanupInv'
  BY <1>11 DEF CleanupInv, DeleteAll
<1>12. ASSUME SkipCleanup PROVE CleanupInv'
  BY <1>12 DEF CleanupInv, SkipCleanup
<1>13. ASSUME CleanupEdge PROVE CleanupInv'
  BY <1>13 DEF CleanupInv, CleanupEdge
<1>14. ASSUME Exit PROVE CleanupInv'
  BY <1>14 DEF CleanupInv, Exit
<1> QED BY <1>1, <1>2, <1>3, <1>4, <1>5, <1>6, <1>7, <1>8, <1>9, <1>10, <1>11, <1>12, <1>13, <1>14
        DEF BenchmarkNext

\* The steps of the other parts leave the benchmark alone.
LEMMA BenchmarkFrame == [Next]_vars => BenchmarkNext \/ UNCHANGED benchmarkVars
  BY DEF Next, vars, DeviceStep, ResultStep, ActivityStep, ResourceStep, StatusStep,
         ProfilingStep, StoreStep, BenchmarkStep

\* What the cleanup has to find is there at every point at which main may end.
THEOREM CleanupInductive == Spec => []CleanupInv
<1>1. Init => CleanupInv
  BY DEF Init, BenchmarkInit, CleanupInv
<1>2. CleanupInv /\ [Next]_vars => CleanupInv'
  BY CleanupStays, CleanupMoves, BenchmarkFrame DEF benchmarkVars, cloudVars, edgeVars
<1> QED BY <1>1, <1>2, PTL DEF Spec

\* For every configuration of lenses, copies and cameras: whatever step of main fails, is
\* interrupted or is left out, the atexit handler leaves the edge's configuration and the
\* detectors as the benchmark found them, but for the failures LeavesAsFound names.
THEOREM BenchmarkLeavesAsFound == Spec => []LeavesAsFound
<1>1. CleanupInv => LeavesAsFound
  BY DEF CleanupInv, LeavesAsFound
<1> QED BY <1>1, CleanupInductive, PTL

-----------------------------------------------------------------------------
(* What the benchmark measures. *)

Quiet == {"check", "snapshot", "provision", "loop", "spawn"}
Measuring == {"warmup", "main", "join"}
Event == [stage : {"single", "bbox", "binary"}, counted : BOOLEAN]
\* The frames of a log that a summary counts.
Seen(w) == Cardinality(Frames(eventsOf[w], InWindow(eventsOf[w])))

\* Up to each point of the loop: the edge has what was pushed last, a run that measures has
\* pushed its own detectors, and every frame in the window has been counted once.
MeasureInv ==
    /\ run \in Nat \ {0}
    /\ worker \in [Cameras -> {"none", "alive", "ended", "failed"}]
    /\ eventsOf \in [Cameras -> Seq(Event)]
    /\ measured \in [Cameras -> Nat]
    /\ step \in {"check", "snapshot", "provision"} => pushed = {} /\ summary = NoSummary
    /\ step \in {"loop", "spawn"} \cup Measuring => pushed = {} \/ edge = pushed
    /\ step \in {"spawn"} \cup Measuring => run <= NumRuns /\ pushed = ActiveDetectorsForRun(run)
    /\ step \in Quiet => \A w \in Cameras : worker[w] # "alive"
    /\ step \in Measuring =>
         \A w \in Cameras : /\ worker[w] = "alive" => w \in WorkersForRun(run)
                            /\ Seen(w) = measured[w]
    /\ MeasuredOnOwnDetectors

\* What the configuration says of every lens.
LEMMA LensFacts ==
  ASSUME NEW l \in ToSet(Lenses), NEW f \in {"copies", "cameras", "objects"}
  PROVE  /\ Sweep[l][f] \in Seq(Nat \ {0}) /\ Sweep[l][f] # << >>
         /\ StagesOf[l] \in {<<"single">>, <<"bbox", "binary">>}
         /\ \A t \in SweepLists : Len(Sweep[l][f]) > 1 /\ Len(t) > 1 => Len(Sweep[l][f]) = Len(t)
<1>1. Sweep[l][f] \in SweepLists
  BY DEF SweepLists
<1> QED BY <1>1, ConfigAccepted DEF ValidConfig

\* Every run of the loop finds its value in a sweep list, and no value is beyond the copies
\* and cameras that were provisioned.
LEMMA ForRunFacts ==
  ASSUME NEW l \in ToSet(Lenses), NEW f \in {"copies", "cameras", "objects"},
         NEW i \in Nat \ {0}, i <= NumRuns
  PROVE  /\ ForRun(l, f, i) \in Nat \ {0}
         /\ Max(ToSet(Sweep[l][f])) \in Nat /\ ForRun(l, f, i) <= Max(ToSet(Sweep[l][f]))
<1> DEFINE v == Sweep[l][f]
<1>1. v \in Seq(Nat \ {0}) /\ v # << >> /\ Len(v) \in Nat \ {0} /\ DOMAIN v = 1..Len(v)
  BY LensFacts, EmptySeq, LenProperties
<1>2. Len(v) = 1 \/ i <= Len(v)
  <2>5. Len(v) \in Nat /\ (Len(v) = 1 \/ Len(v) > 1)
    <3> HIDE DEF v
    <3> QED BY <1>1
  <2> SUFFICES ASSUME Len(v) > 1 PROVE i <= Len(v)
    BY <2>5
  <2> DEFINE lengths == {Len(s) : s \in SweepLists}
  <2>1. v \in SweepLists
    BY DEF SweepLists
  <2>2. \A t \in SweepLists : Len(t) \in Nat /\ Len(t) <= Len(v)
    <3> SUFFICES ASSUME NEW k \in ToSet(Lenses), NEW g \in {"copies", "cameras", "objects"}
                 PROVE  Len(Sweep[k][g]) \in Nat /\ Len(Sweep[k][g]) <= Len(v)
      BY DEF SweepLists
    <3>1. Len(Sweep[k][g]) \in Nat
      BY LensFacts, LenProperties
    <3>2. Len(Sweep[k][g]) > 1 => Len(v) = Len(Sweep[k][g])
      <4>1. Sweep[k][g] \in SweepLists
        BY DEF SweepLists
      <4>2. \A t \in SweepLists : Len(v) > 1 /\ Len(t) > 1 => Len(v) = Len(t)
        BY LensFacts
      <4> HIDE DEF v
      <4> QED BY <4>1, <4>2
    <3> QED BY <1>1, <3>1, <3>2
  <2>3. lengths \in SUBSET Nat /\ Len(v) \in lengths /\ \A x \in lengths : x <= Len(v)
    BY <2>1, <2>2
  <2>4. Max(lengths) = Len(v)
    BY <2>3, MaxIsLargest
  <2> QED BY <2>4 DEF NumRuns
<1>3. PICK n \in 1..Len(v) : ForRun(l, f, i) = v[n]
  <2>1. CASE Len(v) = 1
    <3>1. 1 \in 1..Len(v) /\ ForRun(l, f, i) = v[1]
      BY <2>1 DEF ForRun
    <3> QED BY <3>1
  <2>2. CASE Len(v) # 1
    <3>1. i \in 1..Len(v) /\ ForRun(l, f, i) = v[i]
      BY <1>1, <1>2, <2>2 DEF ForRun
    <3> QED BY <3>1
  <2> QED BY <2>1, <2>2
<1>4. Nat \ {0} \in SUBSET Nat
  OBVIOUS
<1>5. Max(ToSet(v)) \in Nat \ {0} /\ v[n] \in Nat \ {0} /\ v[n] <= Max(ToSet(v))
  BY <1>1, <1>3, <1>4, MaxOfSequence
<1> QED BY <1>3, <1>5

\* The cameras of a run ask the detectors of the run, all of them and no other.
LEMMA AskedAreActive ==
  ASSUME NEW i \in Nat \ {0}, i <= NumRuns
  PROVE  UNION {AskedBy(v) : v \in WorkersForRun(i)} = ActiveDetectorsForRun(i)
<1>1. ASSUME NEW v \in WorkersForRun(i), NEW d \in AskedBy(v) PROVE d \in ActiveDetectorsForRun(i)
  BY DEF WorkersForRun, AskedBy, ActiveDetectorsForRun
<1>2. ASSUME NEW d \in ActiveDetectorsForRun(i)
      PROVE  \E v \in WorkersForRun(i) : d \in AskedBy(v)
  <2>1. d \in AllDetectors /\ d.copy < ForRun(d.lens, "copies", i)
    BY DEF ActiveDetectorsForRun
  <2>2. PICK l \in ToSet(Lenses) :
          \E c \in 0..Max(ToSet(Sweep[l].copies)) - 1, s \in ToSet(StagesOf[l]) :
            d = [lens |-> l, copy |-> c, stage |-> s]
    BY <2>1 DEF AllDetectors
  <2>6. PICK c \in 0..Max(ToSet(Sweep[l].copies)) - 1, s \in ToSet(StagesOf[l]) :
          d = [lens |-> l, copy |-> c, stage |-> s]
    BY <2>2
  <2> DEFINE v == [lens |-> l, copy |-> c, camera |-> 0]
  <2>3. ForRun(l, "cameras", i) > 0 /\ 0 \in 0..Max(ToSet(Sweep[l].cameras)) - 1
    BY ForRunFacts
  <2>4. v \in Cameras
    BY <2>6, <2>3 DEF Cameras
  <2>5. v \in WorkersForRun(i) /\ d \in AskedBy(v)
    BY <2>1, <2>6, <2>3, <2>4 DEF WorkersForRun, AskedBy
  <2> QED BY <2>5
<1> QED BY <1>1, <1>2

\* A frame first asks the single or the bounding box detector of its lens.
LEMMA CameraStage ==
  ASSUME NEW w \in Cameras
  PROVE  /\ w.lens \in ToSet(Lenses) /\ w.copy \in 0..Max(ToSet(Sweep[w.lens].copies)) - 1
         /\ StagesOf[w.lens][1] \in {"single", "bbox"} \cap ToSet(StagesOf[w.lens])
<1>1. PICK l \in ToSet(Lenses) :
        \E c \in 0..Max(ToSet(Sweep[l].copies)) - 1, k \in 0..Max(ToSet(Sweep[l].cameras)) - 1 :
          w = [lens |-> l, copy |-> c, camera |-> k]
  BY DEF Cameras
<1>2. w.lens = l /\ w.copy \in 0..Max(ToSet(Sweep[w.lens].copies)) - 1
  BY <1>1
<1>3. StagesOf[l] \in {<<"single">>, <<"bbox", "binary">>}
  BY LensFacts
<1>4. CASE StagesOf[l] = <<"single">>
  BY <1>2, <1>4 DEF ToSet
<1>5. CASE StagesOf[l] = <<"bbox", "binary">>
  BY <1>2, <1>5 DEF ToSet
<1> QED BY <1>3, <1>4, <1>5

\* A camera of a run asks a detector of the run.
LEMMA CameraAsks ==
  ASSUME NEW i, NEW w \in WorkersForRun(i)
  PROVE  StagesOf[w.lens][1] \in {"single", "bbox"} /\ ActiveDetectorsForRun(i) # {}
<1> DEFINE d == [lens |-> w.lens, copy |-> w.copy, stage |-> StagesOf[w.lens][1]]
<1>1. w \in Cameras /\ w.copy < ForRun(w.lens, "copies", i)
  BY DEF WorkersForRun
<1>2. d \in AllDetectors
  <2>1. /\ w.lens \in ToSet(Lenses) /\ w.copy \in 0..Max(ToSet(Sweep[w.lens].copies)) - 1
        /\ StagesOf[w.lens][1] \in ToSet(StagesOf[w.lens])
    BY <1>1, CameraStage
  <2> QED BY <2>1 DEF AllDetectors
<1>3. d \in ActiveDetectorsForRun(i)
  BY <1>1, <1>2 DEF ActiveDetectorsForRun
<1> QED BY <1>1, <1>3, CameraStage

\* Another line in a log: one more frame is seen if it is one in the window.
LEMMA SeenGrows ==
  ASSUME NEW log \in Seq(Event), NEW e \in Event
  PROVE  LET n == Cardinality(Frames(log, InWindow(log)))
             more == Append(log, e)
         IN  /\ n \in Nat
             /\ Cardinality(Frames(more, InWindow(more))) =
                  IF IsFrame(e) /\ e.counted THEN n + 1 ELSE n
<1> DEFINE more == Append(log, e)
           old == Frames(log, InWindow(log))
           new == Frames(more, InWindow(more))
<1>1. /\ Len(log) \in Nat /\ DOMAIN log = 1..Len(log)
      /\ DOMAIN more = 1..(Len(log) + 1) /\ more[Len(log) + 1] = e
      /\ \A j \in 1..Len(log) : more[j] = log[j]
  BY AppendProperties, LenProperties
<1>2. old \subseteq 1..Len(log) /\ IsFiniteSet(old)
  <2>1. old \subseteq 1..Len(log)
    BY <1>1 DEF Frames, InWindow
  <2>2. IsFiniteSet(1..Len(log))
    BY <1>1, FS_Interval
  <2> QED BY <2>1, <2>2, FS_Subset
<1>3. \A j \in 1..Len(log) : j \in new <=> j \in old
  BY <1>1 DEF Frames, InWindow
<1>4. Len(log) + 1 \in new <=> IsFrame(e) /\ e.counted
  BY <1>1 DEF Frames, InWindow, Event
<1>5. new \subseteq 1..(Len(log) + 1)
  BY <1>1 DEF Frames, InWindow
<1>6. new = IF IsFrame(e) /\ e.counted THEN old \cup {Len(log) + 1} ELSE old
  <2> HIDE DEF old, new
  <2>1. \A j \in 1..(Len(log) + 1) : j = Len(log) + 1 \/ j \in 1..Len(log)
    BY <1>1
  <2>2. \A j \in new : j \in old \/ (j = Len(log) + 1 /\ IsFrame(e) /\ e.counted)
    BY <1>3, <1>4, <1>5, <2>1
  <2>3. \A j \in old : j \in new
    BY <1>2, <1>3
  <2> QED BY <1>4, <2>2, <2>3
<1>7. Len(log) + 1 \notin old
  BY <1>1, <1>2
<1> HIDE DEF old, new
<1>8. Cardinality(old) \in Nat /\ Cardinality(old \cup {Len(log) + 1}) = Cardinality(old) + 1
  BY <1>2, <1>7, FS_CardinalityType, FS_AddElement
<1> QED BY <1>6, <1>8 DEF old, new

\* A camera logs a line: its log grows by it, and no other.
LEMMA LogsOne ==
  ASSUME MeasureInv, NEW w \in Cameras, NEW stage \in {"single", "bbox", "binary"}, Logs(w, stage)
  PROVE  /\ eventsOf' \in [Cameras -> Seq(Event)]
         /\ \A v \in Cameras \ {w} : Seen(v)' = Seen(v)
         /\ Seen(w) \in Nat
         /\ Seen(w)' = IF stage # "binary" /\ step = "main" THEN Seen(w) + 1 ELSE Seen(w)
<1> DEFINE e == [stage |-> stage, counted |-> step = "main"]
<1>1. eventsOf \in [Cameras -> Seq(Event)]
  BY DEF MeasureInv
<1>2. eventsOf' = [eventsOf EXCEPT ![w] = Append(eventsOf[w], e)]
  BY <1>1 DEF Logs
<1>3. e \in Event /\ IsFrame(e) = (stage # "binary") /\ e.counted = (step = "main")
  BY DEF Event, IsFrame
<1> HIDE DEF e
<1>4. eventsOf' \in [Cameras -> Seq(Event)] /\ eventsOf'[w] = Append(eventsOf[w], e)
  BY <1>1, <1>2, <1>3, AppendProperties
<1>5. \A v \in Cameras \ {w} : Seen(v)' = Seen(v)
  BY <1>1, <1>2 DEF Seen
<1>6. /\ Seen(w) \in Nat
      /\ Seen(w)' = IF IsFrame(e) /\ e.counted THEN Seen(w) + 1 ELSE Seen(w)
  <2>1. eventsOf[w] \in Seq(Event)
    BY <1>1
  <2> QED BY <1>3, <1>4, <2>1, SeenGrows DEF Seen
<1> QED BY <1>3, <1>4, <1>5, <1>6

\* A camera that is alive during a run finds the edge with the detectors of the run.
LEMMA AliveFacts ==
  ASSUME MeasureInv, NEW w \in Cameras, worker[w] = "alive", step \in Measuring
  PROVE  /\ w \in WorkersForRun(run) /\ StagesOf[w.lens][1] \in {"single", "bbox"}
         /\ edge = UNION {AskedBy(v) : v \in WorkersForRun(run)}
<1>1. w \in WorkersForRun(run) /\ run \in Nat \ {0} /\ run <= NumRuns
      /\ pushed = ActiveDetectorsForRun(run) /\ (pushed = {} \/ edge = pushed)
  BY DEF MeasureInv
<1>2. StagesOf[w.lens][1] \in {"single", "bbox"} /\ ActiveDetectorsForRun(run) # {}
  BY <1>1, CameraAsks
<1> QED BY <1>1, <1>2, AskedAreActive

\* A request of a camera is counted in its log and, for a frame in the window, once more.
LEMMA FrameMeasured ==
  ASSUME MeasureInv, NEW w \in Cameras, Frame(w) \/ SubmitBinary(w)
  PROVE  MeasureInv'
<1> DEFINE stage == IF Frame(w) THEN StagesOf[w.lens][1] ELSE "binary"
<1>1. /\ worker[w] = "alive" /\ UNCHANGED <<step, worker, run, summary, edge, pushed>>
      /\ w \in Cameras
  BY DEF Frame, SubmitBinary, cloudVars, edgeVars, runVars
<1>2. step \notin Quiet
  BY <1>1 DEF MeasureInv
<1>3. CASE step \in Measuring
  <2>1. StagesOf[w.lens][1] \in {"single", "bbox"}
        /\ edge = UNION {AskedBy(v) : v \in WorkersForRun(run)}
    BY <1>1, <1>3, AliveFacts
  <2>2. /\ measured \in [Cameras -> Nat] /\ \A v \in Cameras : Seen(v) = measured[v]
        /\ \A v \in Cameras : worker[v] = "alive" => v \in WorkersForRun(run)
    BY <1>3 DEF MeasureInv
  <2>3. CASE Frame(w)
    <3>1. Logs(w, StagesOf[w.lens][1])
          /\ measured' = [measured EXCEPT ![w] = @ + IF step = "main" THEN 1 ELSE 0]
      BY <2>1, <2>3 DEF Frame
    <3>2. /\ eventsOf' \in [Cameras -> Seq(Event)]
          /\ \A v \in Cameras \ {w} : Seen(v)' = Seen(v)
          /\ Seen(w)' = IF step = "main" THEN Seen(w) + 1 ELSE Seen(w)
      BY <2>1, <3>1, LogsOne
    <3>3. measured' \in [Cameras -> Nat] /\ \A v \in Cameras : Seen(v)' = measured'[v]
      BY <2>2, <3>1, <3>2
    <3> QED BY <1>1, <1>3, <2>2, <3>2, <3>3
            DEF MeasureInv, MeasuredOnOwnDetectors, Quiet, Measuring
  <2>4. CASE SubmitBinary(w)
    <3>1. Logs(w, "binary") /\ measured' = measured
      BY <2>4 DEF SubmitBinary
    <3>2. /\ eventsOf' \in [Cameras -> Seq(Event)]
          /\ \A v \in Cameras \ {w} : Seen(v)' = Seen(v)
          /\ Seen(w)' = Seen(w)
      BY <3>1, LogsOne
    <3>3. measured' \in [Cameras -> Nat] /\ \A v \in Cameras : Seen(v)' = measured'[v]
      BY <2>2, <3>1, <3>2
    <3> QED BY <1>1, <1>3, <2>2, <3>2, <3>3
            DEF MeasureInv, MeasuredOnOwnDetectors, Quiet, Measuring
  <2> QED BY <2>3, <2>4
<1>4. CASE step \notin Measuring
  <2>1. eventsOf' \in [Cameras -> Seq(Event)] /\ measured' \in [Cameras -> Nat]
    <3>1. Logs(w, stage) /\ stage \in {"single", "bbox", "binary"}
      BY <1>1, CameraStage DEF Frame, SubmitBinary
    <3>2. eventsOf' \in [Cameras -> Seq(Event)]
      BY <3>1, LogsOne
    <3>3. measured' \in [Cameras -> Nat]
      BY DEF Frame, SubmitBinary, MeasureInv
    <3> QED BY <3>2, <3>3
  <2> QED BY <1>1, <1>2, <1>4, <2>1 DEF MeasureInv, MeasuredOnOwnDetectors, Quiet, Measuring
<1> QED BY <1>3, <1>4

\* Each step of main and of the cameras keeps the account of what a run measures.
LEMMA MeasureMoves == ASSUME MeasureInv, BenchmarkNext PROVE MeasureInv'
<1> USE DEF cloudVars, edgeVars, runVars, workerVars
<1>1. ASSUME EnsureHostClean \/ WaitForTraining \/ RestoreEdgeConfig \/ DeleteAll \/ SkipCleanup
             \/ CleanupEdge \/ Exit \/ Raise \/ WriteTopLevel
      PROVE  MeasureInv'
  <2>1. UNCHANGED <<run, worker, eventsOf, measured, summary, pushed>>
    BY <1>1 DEF EnsureHostClean, WaitForTraining, RestoreEdgeConfig, DeleteAll, SkipCleanup,
                CleanupEdge, Exit, Raise, WriteTopLevel
  <2>2. \/ step = "check" /\ step' = "snapshot" /\ edge' = edge
        \/ step = "provision" /\ step' = "loop" /\ edge' = edge
        \/ step' \in {"restore", "delete", "cleaned", "done"}
    BY <1>1 DEF EnsureHostClean, WaitForTraining, RestoreEdgeConfig, DeleteAll, SkipCleanup,
                CleanupEdge, Exit, Raise, WriteTopLevel
  <2>3. CASE step = "check" /\ step' = "snapshot" /\ edge' = edge
    BY <2>1, <2>3 DEF MeasureInv, MeasuredOnOwnDetectors, Quiet, Measuring
  <2>4. CASE step = "provision" /\ step' = "loop" /\ edge' = edge
    BY <2>1, <2>4 DEF MeasureInv, MeasuredOnOwnDetectors, Quiet, Measuring
  <2>5. CASE step' \in {"restore", "delete", "cleaned", "done"}
    BY <2>1, <2>5 DEF MeasureInv, MeasuredOnOwnDetectors, Quiet, Measuring
  <2> QED BY <2>2, <2>3, <2>4, <2>5
<1>2. ASSUME SnapshotEdgeConfig PROVE MeasureInv'
  BY <1>2 DEF SnapshotEdgeConfig, MeasureInv, MeasuredOnOwnDetectors, Quiet, Measuring, Seen
<1>3. ASSUME Provision PROVE MeasureInv'
  BY <1>3 DEF Provision, MeasureInv, MeasuredOnOwnDetectors, Quiet, Measuring, Seen
<1>4. ASSUME NEW d \in AllDetectors, Trains(d) PROVE MeasureInv'
  BY <1>4 DEF Trains, MeasureInv, MeasuredOnOwnDetectors, Quiet, Measuring, Seen
<1>5. ASSUME PushEdgeConfig PROVE MeasureInv'
  <2>1. UNCHANGED <<run, worker, eventsOf, measured, summary>> /\ step = "loop"
    BY <1>5 DEF PushEdgeConfig
  <2>2. CASE step' = "spawn"
    <3>1. run <= NumRuns /\ pushed' = ActiveDetectorsForRun(run) /\ (pushed' = {} \/ edge' = pushed')
      BY <1>5, <2>2 DEF PushEdgeConfig, MeasureInv
    <3> QED BY <2>1, <2>2, <3>1 DEF MeasureInv, MeasuredOnOwnDetectors, Quiet, Measuring
  <2>3. CASE step' = "report"
    BY <2>1, <2>3 DEF MeasureInv, MeasuredOnOwnDetectors, Quiet, Measuring
  <2> QED BY <1>5, <2>2, <2>3 DEF PushEdgeConfig
<1>6. ASSUME SpawnLensWorkers PROVE MeasureInv'
  <2>1. /\ step = "spawn" /\ step' = "warmup" /\ UNCHANGED <<run, summary, pushed, edge>>
        /\ worker' = [w \in Cameras |-> IF w \in WorkersForRun(run) THEN "alive" ELSE "none"]
        /\ eventsOf' = [w \in Cameras |-> << >>] /\ measured' = [w \in Cameras |-> 0]
    BY <1>6 DEF SpawnLensWorkers
  <2>2. \A w \in Cameras : Seen(w)' = 0
    <3>1. Frames(<< >>, InWindow(<< >>)) = {}
      BY DEF Frames, InWindow
    <3> QED BY <2>1, <3>1, FS_EmptySet DEF Seen
  <2>3. << >> \in Seq(Event)
    BY EmptySeq
  <2> QED BY <2>1, <2>2, <2>3 DEF MeasureInv, MeasuredOnOwnDetectors, Quiet, Measuring
<1>7. ASSUME Sleep PROVE MeasureInv'
  BY <1>7 DEF Sleep, MeasureInv, MeasuredOnOwnDetectors, Quiet, Measuring, Seen
<1>8. ASSUME NEW w \in Cameras, Frame(w) \/ SubmitBinary(w) PROVE MeasureInv'
  BY <1>8, FrameMeasured
<1>9. ASSUME NEW w \in Cameras, WorkerEnds(w) PROVE MeasureInv'
  <2>1. /\ worker[w] = "alive" /\ UNCHANGED <<step, run, summary, pushed, edge, eventsOf, measured>>
        /\ worker' \in [Cameras -> {"none", "alive", "ended", "failed"}]
        /\ \A v \in Cameras : worker'[v] = "alive" => worker[v] = "alive"
    BY <1>9 DEF WorkerEnds, MeasureInv
  <2> QED BY <2>1 DEF MeasureInv, MeasuredOnOwnDetectors, Quiet, Measuring, Seen
<1>10. ASSUME JoinWithGrace PROVE MeasureInv'
  <2>1. /\ step = "join" /\ step' = "loop" /\ run' = run + 1
        /\ UNCHANGED <<pushed, edge, eventsOf, measured>>
        /\ worker' = [w \in Cameras |-> IF worker[w] = "alive" THEN "failed" ELSE worker[w]]
        /\ summary' = WriteRunArtifacts
    BY <1>10 DEF JoinWithGrace
  <2>2. \A w \in Cameras : Seen(w) = measured[w]
    BY <2>1 DEF MeasureInv, Measuring
  <2>3. ASSUME NEW w \in DOMAIN summary'
        PROVE  summary'[w].frames = measured'[w] /\ (summary'[w].hit = "yes" => measured'[w] >= FramesNeeded)
    <3> DEFINE stats == Summarize(eventsOf[w], InWindow(eventsOf[w]))
    <3>1. w \in Cameras
      BY <2>1, <2>3 DEF WriteRunArtifacts, WorkersForRun
    <3>2. stats.frames = Seen(w) /\ (stats.hit = "yes" => Seen(w) >= FramesNeeded)
      BY DEF Summarize, Seen
    <3>3. summary'[w] = IF stats.noEvents /\ FramesNeeded > 0 THEN [stats EXCEPT !.hit = "no"]
                        ELSE stats
      BY <2>1, <2>3 DEF WriteRunArtifacts
    <3>4. summary'[w].frames = Seen(w) /\ (summary'[w].hit = "yes" => Seen(w) >= FramesNeeded)
      BY <3>2, <3>3 DEF Summarize
    <3> QED BY <2>1, <2>2, <3>1, <3>4
  <2>4. MeasuredOnOwnDetectors'
    BY <2>3 DEF MeasuredOnOwnDetectors
  <2>5. /\ worker' \in [Cameras -> {"none", "alive", "ended", "failed"}]
        /\ \A w \in Cameras : worker'[w] # "alive"
        /\ run' \in Nat \ {0}
    BY <2>1 DEF MeasureInv
  <2> QED BY <2>1, <2>4, <2>5 DEF MeasureInv, Quiet, Measuring
<1> QED BY <1>1, <1>2, <1>3, <1>4, <1>5, <1>6, <1>7, <1>8, <1>9, <1>10 DEF BenchmarkNext

\* In every run that measures, the edge has the detectors of the run and every frame in the
\* window is seen once.
THEOREM MeasureInductive == Spec => []MeasureInv
<1>1. Init => MeasureInv
  <2>1. << >> \in Seq(Event)
    BY EmptySeq
  <2> QED BY <2>1 DEF Init, BenchmarkInit, MeasureInv, MeasuredOnOwnDetectors, Quiet, Measuring
<1>2. MeasureInv /\ UNCHANGED benchmarkVars => MeasureInv'
  BY DEF benchmarkVars, MeasureInv, MeasuredOnOwnDetectors, Quiet, Measuring, Seen
<1>3. MeasureInv /\ [Next]_vars => MeasureInv'
  BY <1>2, MeasureMoves, BenchmarkFrame
<1> QED BY <1>1, <1>3, PTL DEF Spec

\* For every configuration and every order in which processes start, fail and end.
THEOREM RunsMeasureTheirOwn == Spec => []MeasuredOnOwnDetectors
<1>1. MeasureInv => MeasuredOnOwnDetectors
  BY DEF MeasureInv
<1> QED BY <1>1, MeasureInductive, PTL

-----------------------------------------------------------------------------
(* The resources. *)

\* A quantity of memory is a number of bytes.
LEMMA MemoryParsed == ASSUME NEW q \in Quantities \cup {None} PROVE ParseMemory(q) \in Nat
<1>1. /\ Kilo * Kilo \in Nat /\ Kilo * Kilo * Kilo \in Nat /\ Kilo * Kilo * Kilo * Kilo \in Nat
      /\ Kibi * Kibi \in Nat /\ Kibi * Kibi * Kibi \in Nat /\ Kibi * Kibi * Kibi * Kibi \in Nat
      /\ Kilo \in Nat /\ Kibi \in Nat
  BY ResourceAssumption
<1>2. MemoryFactor(q.suffix) \in Nat
  BY <1>1 DEF MemoryFactor
<1>3. CASE q # None
  <2>1. q.tenths \in Nat
    BY <1>3 DEF Quantities
  <2>2. q.tenths * MemoryFactor(q.suffix) \in Nat
    BY <1>2, <2>1
  <2>3. \A n \in Nat : n \div 10 \in Nat
    OBVIOUS
  <2> QED BY <1>3, <2>2, <2>3 DEF ParseMemory
<1> QED BY <1>3 DEF ParseMemory

\* So is what a pod uses of it.
LEMMA RamType == ASSUME NEW p \in Pods PROVE RamOf(p) \in Nat
<1> DEFINE m == MemoryOf[p]
           v == [i \in DOMAIN m |-> ParseMemory(m[i])]
<1>1. m \in Seq(Quantities \cup {None}) /\ Len(m) \in Nat /\ DOMAIN m = 1..Len(m)
  BY ResourceAssumption, LenProperties
<1>2. \A i \in DOMAIN m : m[i] \in Quantities \cup {None}
  BY <1>1
<1>3. \A i \in DOMAIN m : v[i] \in Nat
  BY <1>2, MemoryParsed
<1>4. IsFiniteSet(DOMAIN m)
  BY <1>1, FS_Interval
<1>5. SumOver(v, DOMAIN m) \in Nat
  <2> HIDE DEF v, m
  <2> QED BY <1>3, <1>4, SumType
<1> QED BY <1>5 DEF RamOf

\* The parts of the report that ResourcesAddUp looks at.
LEMMA ReportParts ==
  ASSUME NEW active
  PROVE  LET D == {Owner[p] : p \in active}
             platform == DOMAIN usage \ InferencePods
             reply == ReportOf(active)
         IN  /\ reply.detectors = [d \in D |-> Entry(d, active)]
             /\ reply.devices = GpuSummary.devices
             /\ reply.vram.used = GpuSummary.used /\ reply.vram.total = GpuSummary.total
             /\ reply.ram.parts =
                  [detectors |-> SumOver([d \in D |-> Split(Ram, d, active).total], D),
                   loading |-> SumOver(Ram, InferencePods \ active), edge |-> SumOver(Ram, platform)]
             /\ reply.cpu.parts.detectors = SumOver([d \in D |-> Split(CpuShare, d, active).total], D)
             /\ reply.cpu.parts.edge = Percentage(SumOver(Cpu, platform), node.cpuTotal)
<1> DEFINE D == {Owner[p] : p \in active}
           entries == [d \in D |-> Entry(d, active)]
<1>1. DOMAIN entries = D
  OBVIOUS
<1>2. [d \in DOMAIN entries |-> entries[d]["ram"].total] = [d \in D |-> Split(Ram, d, active).total]
  BY DEF Entry
<1>3. [d \in DOMAIN entries |-> entries[d]["cpu"].total] = [d \in D |-> Split(CpuShare, d, active).total]
  BY DEF Entry
<1> HIDE DEF D
<1> QED BY <1>1, <1>2, <1>3 DEF ReportOf, D

\* What was read, when it was.
Answered == {q \in DOMAIN gpu : gpu[q] # None}
ReadsKept ==
    /\ rpc \in {"idle", "node", "metrics", "gpus", "attribute", "done"}
    /\ rpc # "idle" => DOMAIN listed \subseteq Pods
    /\ rpc \in {"gpus", "attribute", "done"} =>
         DOMAIN usage \subseteq Pods /\ \A p \in DOMAIN usage : usage[p].ram \in Nat
    /\ rpc \in {"attribute", "done"} =>
         DOMAIN gpu \subseteq Pods /\ \A p \in Answered : gpu[p] = GpuOf[p]
ResourceInv == ReadsKept /\ ResourcesAddUp

\* Each active pod is in one slot of one detector, so that the detectors have what the
\* active pods have.
LEMMA DetectorsAddUp ==
  ASSUME InferencePods \subseteq Pods, NEW active \in SUBSET InferencePods,
         NEW v, \A p \in Pods : v[p] \in Nat
  PROVE  LET D == {Owner[p] : p \in active}
         IN  SumOver([d \in D |-> Split(v, d, active).total], D) = SumOver(v, active)
<1> DEFINE D == {Owner[p] : p \in active}
           t == [d \in D |-> Split(v, d, active).total]
           of(d, kind) == Group(d, kind) \cap active
           G == [d \in D |-> {p \in active : Owner[p] = d}]
<1>1. active \subseteq Pods /\ IsFiniteSet(active)
  BY FS_Subset, ClusterAssumption
<1>2. IsFiniteSet(D)
  <2> DEFINE f == [p \in active |-> Owner[p]]
  <2>1. f \in Surjection(active, D)
    BY DEF Surjection
  <2> QED BY <1>1, <2>1, FS_Surjection
<1>3. ASSUME NEW S \in SUBSET active PROVE IsFiniteSet(S) /\ Number(Slot(v, S)) = SumOver(v, S)
  <2>1. IsFiniteSet(S) /\ SumOver(v, S) \in Nat
    BY <1>1, FS_Subset, SumType
  <2>2. CASE S = {}
    <3>1. SumOver(v, S) = 0
      BY <2>2, SumEmpty
    <3> QED BY <2>1, <2>2, <3>1 DEF Number, Slot
  <2>3. CASE S # {}
    BY <2>1, <2>3, ResourceAssumption DEF Number, Slot
  <2> QED BY <2>1, <2>2, <2>3
<1>4. ASSUME NEW d \in D
      PROVE  /\ IsFiniteSet(G[d]) /\ t[d] = SumOver(v, G[d])
             /\ \A p \in G[d] : v[p] \in Nat
             /\ \A e \in D \ {d} : G[d] \cap G[e] = {}
  <2>1. of(d, "primary") \in SUBSET active /\ of(d, "oodd") \in SUBSET active
        /\ of(d, "primary") \cap of(d, "oodd") = {}
    BY DEF Group
  <2>2. G[d] = of(d, "primary") \cup of(d, "oodd")
    <3>1. \A p \in active : Kind[p] \in {"primary", "oodd"}
      BY <1>1, ClusterAssumption DEF InferencePods
    <3> QED BY <3>1 DEF Group
  <2>3. t[d] = Number(Slot(v, of(d, "primary"))) + Number(Slot(v, of(d, "oodd")))
    BY DEF Split
  <2> HIDE DEF of
  <2>4. \A p \in of(d, "primary") \cup of(d, "oodd") : v[p] \in Nat
    BY <1>1, <2>1
  <2>5. SumOver(v, of(d, "primary") \cup of(d, "oodd"))
          = SumOver(v, of(d, "primary")) + SumOver(v, of(d, "oodd"))
    BY <1>3, <2>1, <2>4, SumSplit
  <2>6. t[d] = SumOver(v, G[d])
    BY <1>3, <2>1, <2>2, <2>3, <2>5
  <2>7. G[d] \in SUBSET active /\ \A e \in D \ {d} : G[d] \cap G[e] = {}
    OBVIOUS
  <2> HIDE DEF G, t
  <2> QED BY <1>1, <1>3, <2>6, <2>7
<1>5. UNION {G[d] : d \in D} = active
  <2>1. \A p \in active : Owner[p] \in D /\ p \in G[Owner[p]]
    OBVIOUS
  <2>2. \A d \in D : G[d] \subseteq active
    OBVIOUS
  <2> HIDE DEF D, G
  <2> QED BY <2>1, <2>2
<1> HIDE DEF D, t, G
<1>6. SumOver(t, D) = SumOver(v, UNION {G[d] : d \in D})
  BY <1>2, <1>4, SumOfSums
<1> QED BY <1>5, <1>6 DEF D, t

\* The memory the metrics server told of is all in the report, each pod's in one part of it.
LEMMA RamAddsUp ==
  ASSUME ReadsKept, rpc = "attribute", NEW active \in SUBSET InferencePods
  PROVE  LET parts == ReportOf(active).ram.parts
         IN  parts.detectors + parts.loading + parts.edge
               = SumOver([p \in DOMAIN usage |-> usage[p].ram], DOMAIN usage)
<1> DEFINE I == InferencePods
           L == I \ active
           M == DOMAIN usage
           E == M \ I
           parts == ReportOf(active).ram.parts
<1>1. I \subseteq Pods /\ M \subseteq Pods
  BY DEF ReadsKept, InferencePods
<1>2. \A p \in Pods : Ram[p] \in Nat
  BY DEF Ram, ReadsKept
<1>3. \A S \in SUBSET Pods : IsFiniteSet(S) /\ SumOver(Ram, S) \in Nat
  BY <1>2, FS_Subset, SumType, ClusterAssumption
<1>4. /\ parts.detectors = SumOver(Ram, active) /\ parts.loading = SumOver(Ram, L)
      /\ parts.edge = SumOver(Ram, E)
  <2> DEFINE D == {Owner[p] : p \in active}
             t == [d \in D |-> Split(Ram, d, active).total]
  <2>1. SumOver(t, D) = SumOver(Ram, active)
    BY <1>1, <1>2, DetectorsAddUp
  <2>2. parts = [detectors |-> SumOver(t, D), loading |-> SumOver(Ram, L), edge |-> SumOver(Ram, E)]
    BY ReportParts
  <2> HIDE DEF t, D, parts
  <2> QED BY <2>1, <2>2
<1> HIDE DEF I
<1>5. active \in SUBSET Pods /\ L \in SUBSET Pods /\ E \in SUBSET Pods /\ I \in SUBSET Pods
      /\ I \ M \in SUBSET Pods /\ M \in SUBSET Pods
  BY <1>1 DEF I
<1>6. SumOver(Ram, I) = SumOver(Ram, active) + SumOver(Ram, L)
  <2>1. I = active \cup L /\ active \cap L = {}
    BY DEF I
  <2> QED BY <1>2, <1>3, <1>5, <2>1, SumSplit
<1>7. SumOver(Ram, I \cup M) = SumOver(Ram, I) + SumOver(Ram, E)
  <2>1. I \cup M = I \cup E /\ I \cap E = {}
    OBVIOUS
  <2> HIDE DEF E, M
  <2> QED BY <1>2, <1>3, <1>5, <2>1, SumSplit
<1>8. SumOver(Ram, I \cup M) = SumOver(Ram, M) + SumOver(Ram, I \ M)
  <2> DEFINE J == I \ M
  <2>1. I \cup M = M \cup J /\ M \cap J = {} /\ J \in SUBSET Pods
    BY <1>5
  <2> HIDE DEF J, M
  <2>2. SumOver(Ram, M \cup J) = SumOver(Ram, M) + SumOver(Ram, J)
    BY <1>2, <1>3, <1>5, <2>1, SumSplit
  <2> QED BY <2>1, <2>2 DEF J
<1>9. SumOver(Ram, I \ M) = 0
  <2>1. \A p \in I \ M : Ram[p] = 0
    BY <1>1 DEF Ram, I
  <2> QED BY <2>1, SumZero
<1>10. SumOver([p \in M |-> usage[p].ram], M) = SumOver(Ram, M)
  <2>1. \A p \in M : [q \in M |-> usage[q].ram][p] = Ram[p]
    BY <1>1 DEF Ram
  <2> QED BY <2>1, SumSame
<1>11. /\ SumOver(Ram, active) \in Nat /\ SumOver(Ram, L) \in Nat /\ SumOver(Ram, E) \in Nat
       /\ SumOver(Ram, M) \in Nat /\ SumOver(Ram, I) \in Nat
  BY <1>3, <1>5
<1> QED BY <1>4, <1>6, <1>7, <1>8, <1>9, <1>10, <1>11

\* A slot has the memory of the pod that is active for it.
LEMMA SlotsRight ==
  ASSUME ReadsKept, rpc = "attribute", NEW active \in PickActive,
         NEW d \in Detectors, NEW kind \in {"primary", "oodd"}
  PROVE  LET server == {p \in DOMAIN listed : /\ Owner[p] = d /\ Kind[p] = kind
                                              /\ Ready(listed[p])}
             entries == ReportOf(active).detectors
         IN  IF server = {} THEN d \in DOMAIN entries => entries[d].ram[kind] = None
             ELSE \E p \in Newest(server) : entries[d].ram[kind] = Ram[p]
<1> DEFINE server == {p \in DOMAIN listed : Owner[p] = d /\ Kind[p] = kind /\ Ready(listed[p])}
           entries == ReportOf(active).detectors
           S == Group(d, kind) \cap active
           D == {Owner[p] : p \in active}
<1>1. server = {p \in Group(d, kind) : Ready(listed[p])}
  BY DEF Group, InferencePods, Ready
<1>2. IF server = {} THEN S = {} ELSE \E p \in Newest(server) : S = {p}
  BY <1>1 DEF PickActive
<1>3. entries = [e \in D |-> Entry(e, active)]
  BY ReportParts
<1>4. d \in D => entries[d].ram[kind] = Slot(Ram, S)
  <2>1. d \in D => entries[d].ram = Split(Ram, d, active)
    BY <1>3 DEF Entry
  <2>2. CASE kind = "primary"
    BY <2>1, <2>2 DEF Split
  <2>3. CASE kind = "oodd"
    BY <2>1, <2>3 DEF Split
  <2> QED BY <2>2, <2>3
<1>5. CASE server = {}
  BY <1>2, <1>3, <1>4, <1>5 DEF Slot
<1>6. CASE server # {}
  <2>1. PICK p \in Newest(server) : S = {p}
    BY <1>2, <1>6
  <2>2. p \in active /\ Owner[p] = d /\ p \in Pods
    <3>1. p \in S /\ p \in DOMAIN listed
      BY <2>1 DEF Newest
    <3> QED BY <2>1, <3>1 DEF Newest, ReadsKept
  <2>3. Ram[p] \in Nat
    BY <2>2 DEF Ram, ReadsKept
  <2>4. Slot(Ram, S) = Ram[p]
    BY <2>1, <2>3, SumOne DEF Slot
  <2>5. entries[d].ram[kind] = Ram[p]
    BY <1>4, <2>2, <2>4
  <2> QED BY <1>6, <2>1, <2>5
<1> QED BY <1>5, <1>6

\* No GPU memory is in use beyond what there is, and none is counted twice.
LEMMA GpusRight ==
  ASSUME ReadsKept, rpc = "attribute"
  PROVE  /\ GpuSummary.used <= GpuSummary.total
         /\ \A k \in DOMAIN GpuSummary.devices :
              \A p \in Answered : \A v \in gpu[p].devices :
                v.named /\ v.key = k => GpuSummary.devices[k].total = v.total
<1> DEFINE totals == {SumOver([v \in s |-> v.total], s) : s \in Responses}
           useds == {SumOver([v \in s |-> v.used], s) : s \in Responses}
           named == {v \in UNION Responses : v.named}
           of(k) == {v \in named : v.key = k}
<1>1. /\ Answered \subseteq Pods /\ IsFiniteSet(Answered)
      /\ \A p \in Answered : gpu[p] = GpuOf[p]
  <2>1. Answered \subseteq Pods /\ \A p \in Answered : gpu[p] = GpuOf[p]
    BY DEF ReadsKept, Answered
  <2> QED BY <2>1, FS_Subset, ClusterAssumption
<1>2. Responses = {GpuOf[p].devices : p \in Answered}
  BY <1>1 DEF Responses, Answered
<1>3. ASSUME NEW s \in Responses
      PROVE  /\ SumOver([v \in s |-> v.total], s) \in Nat /\ SumOver([v \in s |-> v.used], s) \in Nat
             /\ SumOver([v \in s |-> v.used], s) <= SumOver([v \in s |-> v.total], s)
  <2> DEFINE t == [v \in s |-> v.total]
             u == [v \in s |-> v.used]
  <2>1. IsFiniteSet(s) /\ \A v \in s : v.total \in Nat /\ v.used \in 0..v.total
    BY <1>1, <1>2, ResourceAssumption
  <2>2. \A v \in s : t[v] \in Nat /\ u[v] \in Nat /\ u[v] <= t[v]
    BY <2>1
  <2> HIDE DEF t, u
  <2>3. SumOver(t, s) \in Nat /\ SumOver(u, s) \in Nat /\ SumOver(u, s) <= SumOver(t, s)
    BY <2>1, <2>2, SumType, SumMonotone
  <2> QED BY <2>3 DEF t, u
<1>4. IsFiniteSet(Responses)
  <2> DEFINE f == [p \in Answered |-> GpuOf[p].devices]
  <2>1. f \in Surjection(Answered, Responses)
    BY <1>2 DEF Surjection
  <2> QED BY <1>1, <2>1, FS_Surjection
<1>5. IsFiniteSet(totals) /\ IsFiniteSet(useds)
  <2> DEFINE f == [s \in Responses |-> SumOver([v \in s |-> v.total], s)]
             g == [s \in Responses |-> SumOver([v \in s |-> v.used], s)]
  <2>1. f \in Surjection(Responses, totals) /\ g \in Surjection(Responses, useds)
    BY DEF Surjection
  <2> QED BY <1>4, <2>1, FS_Surjection
<1>6. totals \in SUBSET Nat /\ useds \in SUBSET Nat
  BY <1>3
<1>7. GpuSummary.used = Most(useds) /\ GpuSummary.total = Most(totals)
  BY DEF GpuSummary
<1>8. Most(useds) <= Most(totals)
  <2>1. CASE Responses = {}
    BY <2>1 DEF Most
  <2>2. CASE Responses # {}
    <3>1. useds # {} /\ totals # {}
      BY <2>2
    <3>2. \A x \in useds : \E y \in totals : x <= y
      BY <1>3
    <3> HIDE DEF useds, totals
    <3>3. Max(useds) \in useds /\ Max(totals) \in totals /\ \A y \in totals : y <= Max(totals)
      BY <1>5, <1>6, <3>1, MaxExists
    <3>4. PICK y \in totals : Max(useds) <= y
      BY <3>2, <3>3
    <3>5. Max(useds) \in Nat /\ y \in Nat /\ Max(totals) \in Nat /\ y <= Max(totals)
      BY <1>6, <3>3
    <3> QED BY <3>1, <3>4, <3>5 DEF Most
  <2> QED BY <2>1, <2>2
<1>9. ASSUME NEW k \in DOMAIN GpuSummary.devices, NEW p \in Answered, NEW v \in gpu[p].devices,
             v.named, v.key = k
      PROVE  GpuSummary.devices[k].total = v.total
  <2> DEFINE T == {u.total : u \in of(k)}
  <2>1. v \in of(k)
    BY <1>1, <1>2, <1>9
  <2>2. k \in {u.key : u \in named}
    BY <2>1
  <2>3. GpuSummary.devices[k].total = Most(T)
    BY <2>2 DEF GpuSummary
  <2>4. \A u \in of(k) : u.total = v.total /\ v.total \in Nat
    <3> SUFFICES ASSUME NEW u \in of(k) PROVE u.total = v.total /\ v.total \in Nat
      OBVIOUS
    <3>1. PICK q \in Answered : u \in GpuOf[q].devices
      BY <1>2
    <3> QED BY <1>1, <1>9, <3>1, ResourceAssumption
  <2>5. T = {v.total} /\ v.total \in Nat
    BY <2>1, <2>4
  <2>6. T \in SUBSET Nat /\ v.total \in T /\ \A x \in T : x <= v.total
    BY <2>5
  <2> HIDE DEF T
  <2>7. Max(T) = v.total
    BY <2>6, MaxIsLargest
  <2> QED BY <2>3, <2>5, <2>7 DEF Most
<1> QED BY <1>7, <1>8, <1>9

\* A node that could not be read gives no share of CPU.
LEMMA NoShares ==
  ASSUME ReadsKept, rpc = "attribute", NEW active \in SUBSET InferencePods, node.cpuTotal = 0
  PROVE  ReportOf(active).cpu.parts.detectors = 0 /\ ReportOf(active).cpu.parts.edge = 0
<1> DEFINE D == {Owner[p] : p \in active}
           t == [d \in D |-> Split(CpuShare, d, active).total]
<1>1. \A x : Percentage(x, node.cpuTotal) = 0
  BY DEF Percentage
<1>2. InferencePods \subseteq Pods /\ \A p \in Pods : CpuShare[p] = 0
  BY <1>1 DEF CpuShare, InferencePods, ReadsKept
<1>3. SumOver(t, D) = SumOver(CpuShare, active)
  BY <1>2, DetectorsAddUp
<1>4. SumOver(CpuShare, active) = 0
  BY <1>2, SumZero
<1>5. /\ ReportOf(active).cpu.parts.detectors = SumOver(t, D)
      /\ ReportOf(active).cpu.parts.edge
           = Percentage(SumOver(Cpu, DOMAIN usage \ InferencePods), node.cpuTotal)
  BY ReportParts
<1> HIDE DEF t, D
<1> QED BY <1>1, <1>3, <1>4, <1>5

\* The report, when it is made of what was read, adds up.
LEMMA Attributes == ASSUME ResourceInv, Attribute PROVE ResourceInv'
<1>1. PICK active \in PickActive : report' = ReportOf(active)
  BY DEF Attribute
<1>2. rpc = "attribute" /\ rpc' = "done" /\ UNCHANGED <<listed, node, usage, gpu>> /\ ReadsKept
  BY DEF Attribute, ResourceInv
<1>3. active \in SUBSET InferencePods
  BY DEF PickActive
<1>4. ReadsKept'
  BY <1>2 DEF ReadsKept, Answered
<1>5. /\ report'.devices = GpuSummary.devices /\ report'.vram.used = GpuSummary.used
      /\ report'.vram.total = GpuSummary.total
  BY <1>1, ReportParts
<1>6. ResourcesAddUp'
  <2> DEFINE parts == report'.ram.parts
             server(d, kind) == {p \in DOMAIN listed : /\ Owner[p] = d /\ Kind[p] = kind
                                                       /\ Ready(listed[p])}
  <2>1. parts.detectors + parts.loading + parts.edge
          = SumOver([p \in DOMAIN usage |-> usage[p].ram], DOMAIN usage)
    BY <1>1, <1>2, <1>3, RamAddsUp
  <2>2. ASSUME NEW d \in Detectors, NEW kind \in {"primary", "oodd"}
        PROVE  IF server(d, kind) = {}
               THEN d \in DOMAIN report'.detectors => report'.detectors[d].ram[kind] = None
               ELSE \E p \in Newest(server(d, kind)) : report'.detectors[d].ram[kind] = Ram[p]
    BY <1>1, <1>2, SlotsRight
  <2>3. /\ report'.vram.used <= report'.vram.total
        /\ \A k \in DOMAIN report'.devices :
             \A p \in {q \in DOMAIN gpu : gpu[q] # None} : \A v \in gpu[p].devices :
               v.named /\ v.key = k => report'.devices[k].total = v.total
    BY <1>2, <1>5, GpusRight DEF Answered
  <2>4. node.cpuTotal = 0 => report'.cpu.parts.detectors = 0 /\ report'.cpu.parts.edge = 0
    BY <1>1, <1>2, <1>3, NoShares
  <2>5. /\ Ram' = Ram /\ listed' = listed /\ usage' = usage /\ gpu' = gpu /\ node' = node
        /\ \A S : Newest(S)' = Newest(S)
    BY <1>2 DEF Ram, Newest
  <2> HIDE DEF parts
  <2>6. report'.ram.parts = parts
    BY DEF parts
  <2> QED BY <2>1, <2>2, <2>3, <2>4, <2>5, <2>6 DEF ResourcesAddUp
<1> QED BY <1>4, <1>6 DEF ResourceInv

\* Each read of collect() keeps what the report is made of.
LEMMA ResourceMoves == ASSUME ResourceInv, ResourceNext PROVE ResourceInv'
<1>1. ASSUME ListPods PROVE ResourceInv'
  BY <1>1 DEF ListPods, ResourceInv, ReadsKept, ResourcesAddUp, Present
<1>2. ASSUME NEW ok \in BOOLEAN, ReadNode(ok) PROVE ResourceInv'
  <2>1. rpc = "node" /\ rpc' = "metrics" /\ UNCHANGED <<listed, usage, gpu, report>>
    BY <1>2 DEF ReadNode
  <2> QED BY <2>1 DEF ResourceInv, ReadsKept, ResourcesAddUp
<1>3. ASSUME NEW ok \in BOOLEAN, ReadMetrics(ok) PROVE ResourceInv'
  <2>1. rpc = "metrics" /\ rpc' = "gpus" /\ UNCHANGED <<listed, node, gpu, report>>
    BY <1>3 DEF ReadMetrics
  <2>2. DOMAIN usage' \subseteq Pods /\ \A p \in DOMAIN usage' : usage'[p].ram \in Nat
    BY <1>3, RamType DEF ReadMetrics, Using
  <2> QED BY <2>1, <2>2 DEF ResourceInv, ReadsKept, ResourcesAddUp
<1>4. ASSUME NEW silent, QueryGpus(silent) PROVE ResourceInv'
  <2>1. rpc = "gpus" /\ rpc' = "attribute" /\ UNCHANGED <<listed, node, usage, report>>
    BY <1>4 DEF QueryGpus
  <2>2. DOMAIN gpu' \subseteq Pods /\ \A p \in DOMAIN gpu' : gpu'[p] = None \/ gpu'[p] = GpuOf[p]
    BY <1>4 DEF QueryGpus, InferencePods, ResourceInv, ReadsKept
  <2> QED BY <2>1, <2>2 DEF ResourceInv, ReadsKept, ResourcesAddUp, Answered
<1> QED BY <1>1, <1>2, <1>3, <1>4, Attributes DEF ResourceNext

\* The steps of the other parts, and of the cluster, leave the report alone.
LEMMA ResourceFrame == [Next]_vars => ResourceNext \/ UNCHANGED resourceVars
  BY DEF Next, vars, DeviceStep, ResultStep, ActivityStep, ResourceStep, StatusStep,
         ProfilingStep, StoreStep, BenchmarkStep

\* What was read of the pods is what the report is made of, and the report adds up.
THEOREM ResourceInductive == Spec => []ResourceInv
<1>1. Init => ResourceInv
  BY DEF Init, ResourceInit, ResourceInv, ReadsKept, ResourcesAddUp
<1>2. ResourceInv /\ UNCHANGED resourceVars => ResourceInv'
  <2> SUFFICES ASSUME ResourceInv, UNCHANGED resourceVars PROVE ResourceInv'
    OBVIOUS
  <2>1. UNCHANGED <<rpc, listed, node, usage, gpu, report>>
    BY DEF resourceVars
  <2>2. Ram' = Ram /\ \A S : Newest(S)' = Newest(S)
    BY <2>1 DEF Ram, Newest
  <2>3. ResourcesAddUp'
    BY <2>1, <2>2 DEF ResourceInv, ResourcesAddUp
  <2> QED BY <2>1, <2>3 DEF ResourceInv, ReadsKept, Answered
<1>3. ResourceInv /\ [Next]_vars => ResourceInv'
  BY <1>2, ResourceMoves, ResourceFrame
<1> QED BY <1>1, <1>3, PTL DEF Spec

\* For every cluster of pods, whatever came, went or failed between the reads.
THEOREM ResourcesAreRight == Spec => []ResourcesAddUp
<1>1. ResourceInv => ResourcesAddUp
  BY DEF ResourceInv
<1> QED BY <1>1, ResourceInductive, PTL

-----------------------------------------------------------------------------
(* The status of the detectors. *)

PodRecord == [phase : Phases, container : Containers, cond : BOOLEAN, created : Nat,
              since : Int, version : Nat]
DepRecord == [version : Nat, status : [total : Nat, updated : Nat, available : Nat]]

\* No pod was created later than now, so that there is always a newest one.
ClusterInv ==
    /\ clock \in Nat
    /\ pods \in [Pods -> PodRecord]
    /\ \A p \in Pods : pods[p].created <= clock
    /\ dep \in [Detectors -> DepRecord]

\* What the deployment controller counts are numbers of pods.
LEMMA Counted ==
  ASSUME NEW ps, NEW d, NEW v
  PROVE  LET live == {p \in PrimariesOf(d) : ps[p].phase \in {"Pending", "Running"}}
         IN  /\ IsFiniteSet(live) /\ IsFiniteSet({p \in live : Ready(ps[p])})
             /\ StatusOf(ps, d, v) \in [total : Nat, updated : Nat, available : Nat]
             /\ StatusOf(ps, d, v).total = Cardinality(live)
             /\ StatusOf(ps, d, v).available = Cardinality({p \in live : Ready(ps[p])})
<1> DEFINE live == {p \in PrimariesOf(d) : ps[p].phase \in {"Pending", "Running"}}
           new == {p \in live : ps[p].version = v}
           ready == {p \in live : Ready(ps[p])}
<1>1. live \subseteq Pods /\ new \subseteq Pods /\ ready \subseteq Pods
  BY DEF PrimariesOf
<1>2. IsFiniteSet(live) /\ IsFiniteSet(new) /\ IsFiniteSet(ready)
  BY <1>1, FS_Subset, ClusterAssumption
<1>3. Cardinality(live) \in Nat /\ Cardinality(new) \in Nat /\ Cardinality(ready) \in Nat
  BY <1>2, FS_CardinalityType
<1>4. StatusOf(ps, d, v) =
        [total |-> Cardinality(live), updated |-> Cardinality(new), available |-> Cardinality(ready)]
  BY DEF StatusOf
<1> HIDE DEF live, new, ready
<1>5. /\ StatusOf(ps, d, v) \in [total : Nat, updated : Nat, available : Nat]
      /\ StatusOf(ps, d, v).total = Cardinality(live)
      /\ StatusOf(ps, d, v).available = Cardinality(ready)
  BY <1>3, <1>4
<1> QED BY <1>2, <1>5 DEF live, ready

\* A pod is found in one of the phases, with one of the container states.
LEMMA ShapeFacts ==
  \A s \in Shapes : s[1] \in Phases /\ s[2] \in Containers /\ s[3] \in BOOLEAN
<1> SUFFICES ASSUME NEW s \in Shapes
             PROVE  s[1] \in Phases /\ s[2] \in Containers /\ s[3] \in BOOLEAN
  OBVIOUS
<1>1. CASE s = <<"absent", "none", FALSE>>
  BY <1>1 DEF Phases, Containers
<1>2. CASE s = <<"Pending", "ContainerCreating", FALSE>>
  BY <1>2 DEF Phases, Containers
<1>3. CASE s = <<"Running", "running", FALSE>>
  BY <1>3 DEF Phases, Containers
<1>4. CASE s = <<"Running", "ready", TRUE>>
  BY <1>4 DEF Phases, Containers
<1>5. CASE s = <<"Running", "CrashLoopBackOff", FALSE>>
  BY <1>5 DEF Phases, Containers
<1>6. CASE s = <<"Failed", "none", FALSE>>
  BY <1>6 DEF Phases, Containers
<1> QED BY <1>1, <1>2, <1>3, <1>4, <1>5, <1>6 DEF Shapes

\* A pod that is not there has a record, too.
LEMMA AbsentFacts == Absent \in PodRecord /\ Absent.created = 0
  BY DEF Absent, PodRecord, Phases, Containers, NoTime

\* Of every snapshot of a cluster the reports may start with.
LEMMA ClusterInitially == Init => ClusterInv
<1> SUFFICES ASSUME Init PROVE ClusterInv
  OBVIOUS
<1>1. clock = 2 /\ DOMAIN pods = Pods /\ \A p \in Pods : pods[p] \in PodRecord /\ pods[p].created <= 2
  <2>1. CASE part \in {"resources", "status"}
    <3>1. ClusterInit
      BY <2>1 DEF Init
    <3>2. PICK shape \in [{p \in Pods : Kind[p] # "platform"} -> Shapes],
              times \in [{p \in Pods : Kind[p] = "primary"} -> 1..2] :
            pods = [p \in Pods |->
                    LET s == IF p \in DOMAIN shape THEN shape[p] ELSE <<"Running", "ready", TRUE>>
                        t == IF p \in DOMAIN times THEN times[p] ELSE 1
                    IN  IF s[1] = "absent" THEN Absent
                        ELSE [phase |-> s[1], container |-> s[2], cond |-> s[3], created |-> t,
                              since |-> IF s[2] = "ready" \/ s[1] = "Failed" THEN t ELSE NoTime,
                              version |-> IF p \in OldPods THEN 1 ELSE 2]]
      BY <3>1 DEF ClusterInit
    <3>3. clock = 2 /\ DOMAIN pods = Pods
      BY <3>1, <3>2 DEF ClusterInit
    <3>4. ASSUME NEW p \in Pods PROVE pods[p] \in PodRecord /\ pods[p].created <= 2
      <4> DEFINE s == IF p \in DOMAIN shape THEN shape[p] ELSE <<"Running", "ready", TRUE>>
                 t == IF p \in DOMAIN times THEN times[p] ELSE 1
                 since == IF s[2] = "ready" \/ s[1] = "Failed" THEN t ELSE NoTime
                 version == IF p \in OldPods THEN 1 ELSE 2
      <4>1. pods[p] = IF s[1] = "absent" THEN Absent
                      ELSE [phase |-> s[1], container |-> s[2], cond |-> s[3], created |-> t,
                            since |-> since, version |-> version]
        BY <3>2
      <4>2. s \in Shapes
        BY DEF Shapes
      <4>3. t \in 1..2
        OBVIOUS
      <4>4. s[1] \in Phases /\ s[2] \in Containers /\ s[3] \in BOOLEAN
        BY <4>2, ShapeFacts
      <4>5. since \in Int /\ version \in Nat
        BY <4>3 DEF NoTime
      <4> HIDE DEF s, t, since, version
      <4> QED BY <4>1, <4>3, <4>4, <4>5 DEF PodRecord, Absent, Phases, Containers, NoTime
    <3> QED BY <3>3, <3>4
  <2>2. CASE part \notin {"resources", "status"}
    <3>1. pods = [p \in Pods |-> Absent] /\ clock = 2
      BY <2>2 DEF Init
    <3> QED BY <3>1, AbsentFacts
  <2> QED BY <2>1, <2>2
<1>2. dep = [d \in Detectors |-> [version |-> 2, status |-> StatusOf(pods, d, 2)]]
  BY DEF Init, ClusterInit
<1>3. \A d \in Detectors : StatusOf(pods, d, 2) \in [total : Nat, updated : Nat, available : Nat]
  BY Counted
<1>4. dep \in [Detectors -> DepRecord]
  BY <1>2, <1>3 DEF DepRecord
<1>5. pods \in [Pods -> PodRecord]
  <2>1. pods = [p \in Pods |-> pods[p]]
    BY DEF Init, ClusterInit
  <2> QED BY <1>1, <2>1
<1> QED BY <1>1, <1>4, <1>5 DEF ClusterInv

\* The cluster's own steps, and the steps of the reports, which only look at it.
LEMMA ClusterFrame == [Next]_vars => ClusterNext \/ UNCHANGED clusterVars
  BY DEF Next, vars, DeviceStep, ResultStep, ActivityStep, ResourceStep, StatusStep,
         ProfilingStep, StoreStep, BenchmarkStep

\* A step that gives one pod another record.
LEMMA OnePodMoves ==
  ASSUME ClusterInv, NEW p \in Pods, NEW r \in PodRecord, r.created <= clock,
         pods' = [pods EXCEPT ![p] = r], UNCHANGED <<dep, clock>>
  PROVE  ClusterInv'
  BY DEF ClusterInv

\* Each change that Kubernetes makes.
LEMMA ClusterMoves == ASSUME ClusterInv, ClusterNext PROVE ClusterInv'
<1>0. \A p \in Pods : pods[p] \in PodRecord /\ pods[p].created <= clock /\ pods[p].created \in Nat
  BY DEF ClusterInv, PodRecord
<1>a. clock \in Nat /\ clock \in Int
  BY DEF ClusterInv
<1>1. ASSUME NEW p \in Pods, CreatePod(p) PROVE ClusterInv'
  <2> DEFINE v == IF Owner[p] = NoDetector THEN 0 ELSE dep[Owner[p]].version
             r == [Absent EXCEPT !.phase = "Pending", !.created = clock, !.version = v]
  <2>1. v \in Nat
    <3>1. Owner[p] \in Detectors \cup {NoDetector}
      BY ClusterAssumption
    <3> QED BY <3>1 DEF ClusterInv, DepRecord
  <2> HIDE DEF v
  <2>2. r \in PodRecord /\ r.created = clock
    BY <2>1, <1>a, AbsentFacts DEF PodRecord, Phases
  <2>3. pods' = [pods EXCEPT ![p] = r] /\ UNCHANGED <<dep, clock>>
    BY <1>1 DEF CreatePod, v
  <2>4. r.created <= clock
    BY <2>2, <1>a
  <2> HIDE DEF r
  <2> QED BY <2>2, <2>3, <2>4, OnePodMoves
<1>2. ASSUME NEW p \in Pods, NEW m \in Moves, MoveContainer(p, m) PROVE ClusterInv'
  <2> DEFINE phase == IF m[2] = "ContainerCreating" THEN "Pending" ELSE "Running"
             since == IF pods[p].cond THEN clock ELSE pods[p].since
             r == [pods[p] EXCEPT !.container = m[2], !.cond = FALSE, !.phase = phase,
                                  !.since = since]
  <2>1. phase \in Phases /\ m[2] \in Containers /\ since \in Int
    <3>1. m[2] \in Containers
      BY DEF Moves, Containers
    <3> QED BY <3>1, <1>0, <1>a DEF Phases, PodRecord
  <2> HIDE DEF phase, since
  <2>2. r \in PodRecord /\ r.created = pods[p].created
    BY <2>1, <1>0 DEF PodRecord
  <2>3. pods' = [pods EXCEPT ![p] = r] /\ UNCHANGED <<dep, clock>>
    BY <1>2 DEF MoveContainer, phase, since
  <2> QED BY <2>2, <2>3, <1>0, OnePodMoves
<1>3. ASSUME NEW p \in Pods, BecomeReady(p) PROVE ClusterInv'
  <2> DEFINE r == [pods[p] EXCEPT !.cond = TRUE, !.since = clock]
  <2>1. r \in PodRecord /\ r.created = pods[p].created
    BY <1>0, <1>a DEF PodRecord
  <2>2. pods' = [pods EXCEPT ![p] = r] /\ UNCHANGED <<dep, clock>>
    BY <1>3 DEF BecomeReady
  <2> QED BY <2>1, <2>2, <1>0, OnePodMoves
<1>4. ASSUME NEW p \in Pods, Evict(p) PROVE ClusterInv'
  <2> DEFINE r == [pods[p] EXCEPT !.phase = "Failed", !.container = "none", !.cond = FALSE,
                                  !.since = clock]
  <2>1. r \in PodRecord /\ r.created = pods[p].created
    BY <1>0, <1>a DEF PodRecord, Phases, Containers
  <2>2. pods' = [pods EXCEPT ![p] = r] /\ UNCHANGED <<dep, clock>>
    BY <1>4 DEF Evict
  <2> QED BY <2>1, <2>2, <1>0, OnePodMoves
<1>5. ASSUME NEW p \in Pods, RemovePod(p) PROVE ClusterInv'
  <2>1. Absent.created <= clock
    BY <1>a, AbsentFacts
  <2> QED BY <1>5, <2>1, AbsentFacts, OnePodMoves DEF RemovePod
<1>6. ASSUME NEW d \in Detectors, PatchTemplate(d) PROVE ClusterInv'
  <2> DEFINE r == [dep[d] EXCEPT !.version = dep[d].version + 1]
  <2>1. dep[d] \in DepRecord
    BY DEF ClusterInv
  <2>2. r \in DepRecord
    BY <2>1 DEF DepRecord
  <2>3. dep' = [dep EXCEPT ![d] = r] /\ UNCHANGED <<pods, clock>>
    BY <1>6 DEF PatchTemplate
  <2> QED BY <2>2, <2>3 DEF ClusterInv
<1>7. ASSUME NEW d \in Detectors, SyncStatus(d) PROVE ClusterInv'
  <2> DEFINE st == StatusOf(pods, d, dep[d].version)
             r == [dep[d] EXCEPT !.status = st]
  <2>1. dep[d] \in DepRecord
    BY DEF ClusterInv
  <2>2. st \in [total : Nat, updated : Nat, available : Nat]
    BY Counted
  <2> HIDE DEF st
  <2>3. r \in DepRecord
    BY <2>1, <2>2 DEF DepRecord
  <2>4. dep' = [dep EXCEPT ![d] = r] /\ UNCHANGED <<pods, clock>>
    BY <1>7 DEF SyncStatus, st
  <2> QED BY <2>3, <2>4 DEF ClusterInv
<1>8. ASSUME Hour PROVE ClusterInv'
  <2>1. clock' = clock + 1 /\ UNCHANGED <<pods, dep>>
    BY <1>8 DEF Hour
  <2>2. \A p \in Pods : pods[p].created <= clock + 1
    BY <1>0, <1>a
  <2> QED BY <2>1, <2>2, <1>a DEF ClusterInv
<1> QED BY <1>1, <1>2, <1>3, <1>4, <1>5, <1>6, <1>7, <1>8 DEF ClusterNext

\* Pods and deployments have the records the reports read, and none is from the future.
THEOREM ClusterInductive == Spec => []ClusterInv
<1>1. ClusterInv /\ [Next]_vars => ClusterInv'
  <2>1. ClusterInv /\ UNCHANGED clusterVars => ClusterInv'
    BY DEF ClusterInv, clusterVars
  <2> QED BY <2>1, ClusterFrame, ClusterMoves
<1> QED BY <1>1, ClusterInitially, PTL DEF Spec

\* Of some pods, one is the newest.
LEMMA NewestExists ==
  ASSUME ClusterInv, NEW S, S \subseteq Pods, S # {}
  PROVE  NewestOf(S) # {}
<1> DEFINE ages == {clock - pods[p].created : p \in S}
<1>0. \A p \in S : pods[p].created <= clock /\ pods[p].created \in Nat /\ clock \in Nat
  BY DEF ClusterInv, PodRecord
<1>1. ages \in SUBSET Nat /\ ages # {}
  BY <1>0
<1> HIDE DEF ages
<1>5. PICK x \in ages : \A y \in ages : x <= y
  BY <1>1, LeastExists
<1>6. PICK p \in S : x = clock - pods[p].created
  BY DEF ages
<1>7. ASSUME NEW q \in S PROVE pods[q].created <= pods[p].created
  <2>1. clock - pods[q].created \in ages
    BY DEF ages
  <2>2. clock - pods[p].created <= clock - pods[q].created
    BY <2>1, <1>5, <1>6
  <2> QED BY <2>2, <1>0
<1> QED BY <1>6, <1>7 DEF NewestOf

\* What StatusMatchesPods says of one detector whose details were shown while nothing
\* changed.
Matches(d, shown) ==
    LET was == shown.of
        live == {p \in PrimariesOf(d) : was[p].phase \in {"Pending", "Running"}}
        serving == {p \in live : Ready(was[p])}
    IN  /\ shown.status = "ready" => serving = live /\ live # {}
        /\ shown.status \in {"updating", "update_failed"} =>
              serving # {} /\ \E p \in PrimariesOf(d) : was[p].phase # "absent" /\ p \notin serving
        /\ shown.status \in {"initializing", "error"} => serving = {}
        /\ serving # {} => \E p \in serving : shown.model.version = was[p].version

\* _derive_detector_status, of deployments and pods that were read with nothing in between.
LEMMA ShownMatches ==
  ASSUME ClusterInv, NEW d \in Detectors, ShowDetails(d), DOMAIN details = Detectors,
         details'[d].steady
  PROVE  Matches(d, details'[d])
<1> DEFINE S == PrimariesOf(d) \cap Present
           live == {p \in PrimariesOf(d) : pods[p].phase \in {"Pending", "Running"}}
           ready == {p \in live : Ready(pods[p])}
           servers == {p \in S : Ready(pods[p])}
           newest == NewestOf(servers)
           versions == IF newest = {} THEN {seen.dep[d].version} ELSE {pods[p].version : p \in newest}
           unready == {p \in S : ~Ready(pods[p])}
           stat == seen.dep[d].status
<1>1. PICK st \in DeriveStatus(d, S), version \in versions :
         details' = [details EXCEPT ![d] =
                       [status |-> st[1], detail |-> st[2],
                        model |-> Enrich(version, newest # {}),
                        config |-> d \in Configured,
                        steady |-> seen = [at |-> changes, dep |-> dep] /\ Settled(d),
                        of |-> pods]]
  BY DEF ShowDetails
<1> DEFINE shown == details'[d]
<1>2. /\ shown.status = st[1] /\ shown.model = Enrich(version, newest # {}) /\ shown.of = pods
      /\ shown.steady = (seen = [at |-> changes, dep |-> dep] /\ Settled(d))
  BY <1>1
<1>3. shown.model.version = version
  BY <1>2 DEF Enrich
<1>4. seen = [at |-> changes, dep |-> dep] /\ Settled(d)
  BY <1>2
<1>5. stat = StatusOf(pods, d, dep[d].version)
  BY <1>4 DEF Settled
<1>6. /\ IsFiniteSet(live) /\ IsFiniteSet(ready)
      /\ stat.total = Cardinality(live) /\ stat.available = Cardinality(ready)
  <2> HIDE DEF live, ready, stat
  <2>1. /\ IsFiniteSet(live) /\ IsFiniteSet(ready)
        /\ StatusOf(pods, d, dep[d].version).total = Cardinality(live)
        /\ StatusOf(pods, d, dep[d].version).available = Cardinality(ready)
    BY Counted DEF live, ready
  <2> QED BY <1>5, <2>1
<1>7. servers = ready /\ ready \subseteq live /\ live \subseteq S /\ S \subseteq Pods
  BY DEF Ready, Present, PrimariesOf
<1>8. stat.available \in Nat /\ (stat.available >= 1 <=> ready # {})
  <2> HIDE DEF ready, stat
  <2>1. Cardinality(ready) \in Nat /\ (Cardinality(ready) = 0 <=> ready = {})
    BY <1>6, FS_CardinalityType, FS_EmptySet
  <2> QED BY <2>1, <1>6
<1>9. stat.total <= 1 /\ ready # {} => ready = live
  <2> SUFFICES ASSUME stat.total <= 1, ready # {} PROVE ready = live
    OBVIOUS
  <2>1. /\ Cardinality(ready) <= Cardinality(live)
        /\ Cardinality(live) = Cardinality(ready) => live = ready
    BY <1>6, <1>7, FS_Subset
  <2>2. Cardinality(live) \in Nat /\ Cardinality(ready) \in Nat
    BY <1>6, FS_CardinalityType
  <2> QED BY <2>1, <2>2, <1>6, <1>8
<1>10. DeriveStatus(d, S) =
         IF stat.available >= 1
         THEN IF (stat.total <= 1 /\ stat.updated >= 1) \/ unready = {} THEN {<<"ready", "None">>}
              ELSE IF \E p \in unready : Progressing(pods[p]) THEN {<<"updating", "None">>}
              ELSE {<<"update_failed", WaitingReason(pods[p])>> : p \in NewestOf(unready)}
         ELSE {IF Progressing(pods[p]) THEN <<"initializing", "None">>
               ELSE <<"error", WaitingReason(pods[p])>> : p \in NewestOf(S)}
              \cup IF S = {} THEN {<<"initializing", "None">>} ELSE {}
  BY DEF DeriveStatus
<1>11. unready = {} => ready = live
  BY <1>7
<1>12. ready # {} => newest # {}
  BY <1>7, NewestExists
<1>13. newest \subseteq ready
  BY <1>7 DEF NewestOf
<1> HIDE DEF S, live, ready, servers, newest, unready, stat
<1>14. CASE stat.available >= 1 /\ ((stat.total <= 1 /\ stat.updated >= 1) \/ unready = {})
  <2>1. st[1] = "ready"
    BY <1>10, <1>14
  <2>2. ready = live /\ live # {}
    BY <1>8, <1>9, <1>11, <1>14
  <2> QED BY <2>1, <2>2, <1>2, <1>3, <1>12, <1>13 DEF Matches, live, ready
<1>15. CASE stat.available >= 1 /\ ~((stat.total <= 1 /\ stat.updated >= 1) \/ unready = {})
  <2>1. st[1] \in {"updating", "update_failed"}
    BY <1>10, <1>15
  <2>2. ready # {} /\ \E p \in unready : TRUE
    BY <1>8, <1>15
  <2>3. \E p \in PrimariesOf(d) : pods[p].phase # "absent" /\ p \notin ready
    BY <2>2 DEF unready, S, Present, ready
  <2> QED BY <2>1, <2>2, <2>3, <1>2, <1>3, <1>12, <1>13 DEF Matches, live, ready
<1>16. CASE ~(stat.available >= 1)
  <2>1. st[1] \in {"initializing", "error"}
    BY <1>10, <1>16
  <2>2. ready = {}
    BY <1>8, <1>16
  <2> QED BY <2>1, <2>2, <1>2 DEF Matches, live, ready
<1> QED BY <1>14, <1>15, <1>16

\* Details, once shown, are not changed.
StatusInv ==
    /\ DOMAIN details = Detectors
    /\ \A d \in Detectors : details[d] # Unknown /\ details[d].steady => Matches(d, details[d])

\* The steps of the other parts leave what is shown alone.
LEMMA StatusFrame == [Next]_vars => StatusNext \/ UNCHANGED statusVars
  BY DEF Next, vars, DeviceStep, ResultStep, ActivityStep, ResourceStep, StatusStep,
         ProfilingStep, StoreStep, BenchmarkStep

\* However the cluster changes between the listing of the deployments and of the pods, and
\* for any number of pods: what get_detector_details derives is right whenever nothing
\* changed in between and the deployment's status was up to date.
THEOREM ShownStatusRight == Spec => []StatusMatchesPods
<1>1. Init => StatusInv
  BY DEF Init, StatusInit, StatusInv
<1>2. ASSUME ClusterInv, StatusInv, [Next]_vars PROVE StatusInv'
  <2>1. CASE UNCHANGED details
    BY <1>2, <2>1 DEF StatusInv, Matches
  <2>2. CASE \E d \in Detectors : ShowDetails(d)
    <3>1. PICK d \in Detectors : ShowDetails(d)
      BY <2>2
    <3>2. DOMAIN details' = Detectors /\ \A e \in Detectors \ {d} : details'[e] = details[e]
      BY <1>2, <3>1 DEF ShowDetails, StatusInv
    <3>3. details'[d].steady => Matches(d, details'[d])
      BY <1>2, <3>1, ShownMatches DEF StatusInv
    <3> QED BY <1>2, <3>2, <3>3 DEF StatusInv, Matches
  <2> QED BY <2>1, <2>2, StatusFrame, <1>2 DEF StatusNext, ListDeployments, RecordPods, statusVars
<1>3. StatusInv => StatusMatchesPods
  BY DEF StatusInv, StatusMatchesPods, Matches
<1> QED BY <1>1, <1>2, <1>3, ClusterInductive, PTL DEF Spec

-----------------------------------------------------------------------------
(* The store of traces. *)

Broken == {Half, Garbled}
Line == Broken \cup [id : Nat \ {0}, by : Processes, start : Nat]
StoredFile == [lines : Seq(Line), mtime : Nat, there : BOOLEAN]
Elements(s) == {s[i] : i \in DOMAIN s}
LineOf(r) == [id |-> r.id, by |-> r.by, start |-> r.start]

StoreTypes ==
    /\ time \in Nat
    /\ store \in Seq(StoredFile)
    /\ appendTo \in [Processes -> [file : Nat, created : Nat]]
    /\ \A p \in Processes : appendTo[p] = NoFile \/ appendTo[p].file \in DOMAIN store
    /\ traces \subseteq [id : Nat \ {0}, by : Processes, start : Nat, whole : BOOLEAN]
    /\ \A r \in traces : r.start <= time

\* A line that can be read is the record of a trace that the disk took whole, and such a
\* record is in a file written to since the trace began, unless the trace is so old that
\* its file may have been cleaned up.
StoreInv ==
    /\ StoreTypes
    /\ \A f \in DOMAIN store : \A x \in Elements(store[f].lines) \ Broken :
          \E r \in traces : r.whole /\ x = LineOf(r)
    /\ \A r \in traces : r.whole =>
          \/ r.start < time - MaxAge
          \/ \E f \in DOMAIN store :
                store[f].there /\ store[f].mtime >= r.start /\ LineOf(r) \in Elements(store[f].lines)

\* No record of a trace looks like a line that cannot be read.
LEMMA BrokenLines ==
  ASSUME NEW x \in [id : Nat \ {0}, by : Processes, start : Nat]
  PROVE  x \notin Broken
<1>1. x.id # 0
  OBVIOUS
<1>2. Half.id = 0 /\ Garbled.id = 0
  BY DEF Half, Garbled, Unreadable
<1> QED BY <1>1, <1>2 DEF Broken

\* All but the last element of a sequence.
LEMMA FrontFacts ==
  ASSUME NEW S, NEW s \in Seq(S), Len(s) > 0
  PROVE  /\ Front(s) \in Seq(S) /\ Len(Front(s)) = Len(s) - 1
         /\ \A i \in 1..(Len(s) - 1) : Front(s)[i] = s[i]
<1> DEFINE n == Len(s) - 1
<1>1. n \in Nat /\ n \in Int /\ 1 \in Int /\ \A i \in 1..n : s[i] \in S
  OBVIOUS
<1>2. ASSUME NEW m \in Nat
      PROVE  m - 1 + 1 = m /\ (IF 1 <= m THEN m - 1 + 1 ELSE 0) = m /\ \A i \in 1..m : 1 + i - 1 = i
  OBVIOUS
<1> HIDE DEF n
<1>3. /\ SubSeq(s, 1, n) \in Seq(S)
      /\ Len(SubSeq(s, 1, n)) = IF 1 <= n THEN n - 1 + 1 ELSE 0
      /\ \A i \in 1..(n - 1 + 1) : SubSeq(s, 1, n)[i] = s[1 + i - 1]
  BY <1>1, SubSeqProperties
<1>4. /\ Len(SubSeq(s, 1, n)) = n /\ \A i \in 1..n : SubSeq(s, 1, n)[i] = s[i]
  BY <1>1, <1>2, <1>3
<1> QED BY <1>3, <1>4 DEF Front, n

\* Of the readable lines none is lost when one is added, and none comes but the new one,
\* which does not unless the line before it ends.
LEMMA AppendLineFacts ==
  ASSUME NEW lines \in Seq(Line), NEW line \in Line
  PROVE  LET new == AppendLine(lines, line)
             glued == lines # <<>> /\ Last(lines) = Half
         IN  /\ new \in Seq(Line)
             /\ Elements(lines) \ Broken \subseteq Elements(new)
             /\ Elements(new) \ Broken \subseteq Elements(lines) \cup (IF glued THEN {} ELSE {line})
             /\ ~glued => line \in Elements(new)
<1> DEFINE new == AppendLine(lines, line)
           glued == lines # <<>> /\ Last(lines) = Half
<1>1. CASE glued
  <2> DEFINE n == Len(lines)
             end == IF line = Half THEN Half ELSE Garbled
             front == Front(lines)
  <2>1. n \in Nat /\ n > 0 /\ lines[n] = Half
    BY <1>1 DEF Last
  <2>2. end \in Broken /\ end \in Line
    BY DEF Broken, Line
  <2>3. front \in Seq(Line) /\ Len(front) = n - 1 /\ \A i \in 1..(n - 1) : front[i] = lines[i]
    BY <2>1, FrontFacts
  <2>4. new = Append(front, end)
    BY <1>1 DEF AppendLine
  <2> HIDE DEF front, end
  <2>5. new \in Seq(Line) /\ Len(new) = n /\ new[n] = end /\ \A i \in 1..(n - 1) : new[i] = lines[i]
    BY <2>1, <2>2, <2>3, <2>4
  <2>6. DOMAIN new = 1..n /\ DOMAIN lines = 1..n
    BY <2>5, <2>1
  <2>7. \A i \in 1..n : i = n \/ i \in 1..(n - 1)
    BY <2>1
  <2> HIDE DEF new, n
  <2>8. Elements(lines) \ Broken \subseteq Elements(new)
    BY <2>1, <2>5, <2>6, <2>7 DEF Elements, Broken
  <2>9. Elements(new) \ Broken \subseteq Elements(lines)
    BY <2>2, <2>5, <2>6, <2>7 DEF Elements
  <2> QED BY <2>5, <2>8, <2>9, <1>1 DEF new
<1>2. CASE ~glued
  <2>1. new = Append(lines, line)
    BY <1>2 DEF AppendLine
  <2>2. /\ new \in Seq(Line) /\ Len(new) = Len(lines) + 1 /\ new[Len(lines) + 1] = line
        /\ \A i \in 1..Len(lines) : new[i] = lines[i]
    BY <2>1
  <2>3. DOMAIN new = 1..(Len(lines) + 1) /\ DOMAIN lines = 1..Len(lines) /\ Len(lines) \in Nat
    BY <2>2
  <2>4. \A i \in 1..(Len(lines) + 1) : i = Len(lines) + 1 \/ i \in 1..Len(lines)
    BY <2>3
  <2>5. 1..Len(lines) \subseteq 1..(Len(lines) + 1) /\ Len(lines) + 1 \in 1..(Len(lines) + 1)
    BY <2>3
  <2> HIDE DEF new
  <2>6. Elements(lines) \subseteq Elements(new) /\ line \in Elements(new)
    BY <2>2, <2>3, <2>5 DEF Elements
  <2>7. Elements(new) \subseteq Elements(lines) \cup {line}
    BY <2>2, <2>3, <2>4 DEF Elements
  <2> QED BY <2>2, <2>6, <2>7, <1>2 DEF new
<1> QED BY <1>1, <1>2

\* record_trace puts one line into one file, a new one or the one it has been using.
LEMMA RecordStep ==
  ASSUME StoreInv, NEW p \in Processes, NEW id \in 1..MaxTraces, NEW start \in 1..time,
         NEW outcome \in {"written", "full", "killed"}, RecordTrace(p, id, start, outcome)
  PROVE  StoreInv'
<1> DEFINE old == appendTo[p]
           rotate == old = NoFile \/ time - old.created >= Rotation
           file == IF rotate THEN Len(store) + 1 ELSE old.file
           record == [id |-> id, by |-> p, start |-> start]
           line == IF outcome = "written" THEN record ELSE Half
           lines == IF rotate THEN <<>> ELSE store[file].lines
           glued == lines # <<>> /\ Last(lines) = Half
           added == AppendLine(lines, line)
           entry == [lines |-> added, mtime |-> time, there |-> TRUE]
           whole == outcome = "written" /\ ~glued
           fresh == [id |-> id, by |-> p, start |-> start, whole |-> whole]
           next == IF outcome = "killed" THEN NoFile
                   ELSE [file |-> file, created |-> IF rotate THEN time ELSE old.created]
<1>1. /\ store' = IF rotate THEN Append(store, entry) ELSE [store EXCEPT ![file] = entry]
      /\ appendTo' = [appendTo EXCEPT ![p] = next]
      /\ traces' = traces \cup {fresh} /\ time' = time
  BY DEF RecordTrace
<1>2. time \in Nat /\ start \in Nat /\ start <= time /\ id \in Nat \ {0}
  BY StoreAssumption DEF StoreInv, StoreTypes
<1>3. store \in Seq(StoredFile) /\ old \in [file : Nat, created : Nat]
  BY DEF StoreInv, StoreTypes
<1>4. ~rotate => file \in DOMAIN store
  BY DEF StoreInv, StoreTypes
<1>5. lines \in Seq(Line)
  <2>1. \A f \in DOMAIN store : store[f].lines \in Seq(Line)
    <3> TAKE f \in DOMAIN store
    <3>1. store[f] \in StoredFile
      BY <1>3
    <3> QED BY <3>1 DEF StoredFile
  <2>2. <<>> \in Seq(Line)
    OBVIOUS
  <2> QED BY <2>1, <2>2, <1>4
<1>6. record \in Line /\ record \notin Broken /\ line \in Line
  <2>1. record \in [id : Nat \ {0}, by : Processes, start : Nat]
    BY <1>2
  <2>2. Half \in Broken
    BY DEF Broken
  <2> QED BY <2>1, <2>2, BrokenLines DEF Line
<1>7. /\ added \in Seq(Line)
      /\ Elements(lines) \ Broken \subseteq Elements(added)
      /\ Elements(added) \ Broken \subseteq Elements(lines) \cup (IF glued THEN {} ELSE {line})
      /\ ~glued => line \in Elements(added)
  <2> HIDE DEF lines, line
  <2> QED BY <1>5, <1>6, AppendLineFacts
<1>8. entry \in StoredFile /\ entry.lines = added /\ entry.mtime = time /\ entry.there
  BY <1>2, <1>7 DEF StoredFile
<1>9. file \in Nat /\ next \in [file : Nat, created : Nat] /\ (next = NoFile \/ next.file = file)
  BY <1>2, <1>3 DEF NoFile
<1>10. /\ fresh \in [id : Nat \ {0}, by : Processes, start : Nat, whole : BOOLEAN]
       /\ fresh.whole = whole /\ fresh.start = start /\ LineOf(fresh) = record
  BY <1>2 DEF LineOf
<1> HIDE DEF entry, added, fresh, next, record, whole
<1>11. /\ store' \in Seq(StoredFile) /\ file \in DOMAIN store' /\ store'[file] = entry
       /\ DOMAIN store \subseteq DOMAIN store'
       /\ \A f \in DOMAIN store' \ {file} : f \in DOMAIN store /\ store'[f] = store[f]
       /\ rotate => file \notin DOMAIN store
  <2>1. CASE rotate
    <3>1. store' = Append(store, entry) /\ file = Len(store) + 1
      BY <1>1, <2>1
    <3>2. /\ store' \in Seq(StoredFile) /\ Len(store') = Len(store) + 1 /\ Len(store) \in Nat
          /\ store'[Len(store) + 1] = entry /\ \A f \in 1..Len(store) : store'[f] = store[f]
      BY <3>1, <1>3, <1>8
    <3>3. DOMAIN store = 1..Len(store) /\ DOMAIN store' = 1..(Len(store) + 1)
      BY <3>2, <1>3
    <3> QED BY <3>1, <3>2, <3>3
  <2>2. CASE ~rotate
    <3>1. store' = [store EXCEPT ![file] = entry] /\ file \in DOMAIN store
      BY <1>1, <1>4, <2>2
    <3> HIDE DEF file, rotate
    <3> QED BY <3>1, <1>3, <1>8, <2>2
  <2> QED BY <2>1, <2>2
<1>12. StoreTypes'
  <2>1. appendTo' \in [Processes -> [file : Nat, created : Nat]]
    BY <1>1, <1>9 DEF StoreInv, StoreTypes
  <2>2. \A q \in Processes : appendTo'[q] = NoFile \/ appendTo'[q].file \in DOMAIN store'
    BY <1>1, <1>9, <1>11 DEF StoreInv, StoreTypes
  <2> QED BY <2>1, <2>2, <1>1, <1>2, <1>10, <1>11 DEF StoreInv, StoreTypes
<1>13. ~rotate => lines = store[file].lines
  OBVIOUS
<1>14. rotate => lines = <<>> /\ Elements(lines) = {}
  BY DEF Elements
<1>15. outcome = "written" => line = record
  OBVIOUS
<1>16. outcome # "written" => line \in Broken
  BY DEF Broken
<1> HIDE DEF rotate, file, lines, line, glued
<1>17. ASSUME NEW f \in DOMAIN store', NEW x \in Elements(store'[f].lines) \ Broken
       PROVE  \E r \in traces' : r.whole /\ x = LineOf(r)
  <2>1. CASE f # file
    BY <2>1, <1>1, <1>11 DEF StoreInv
  <2>2. CASE f = file
    <3>1. x \in Elements(lines) \cup (IF glued THEN {} ELSE {line}) /\ x \notin Broken
      BY <2>2, <1>7, <1>8, <1>11
    <3>2. CASE x \in Elements(lines)
      <4>1. ~rotate /\ file \in DOMAIN store /\ x \in Elements(store[file].lines) \ Broken
        BY <3>1, <3>2, <1>4, <1>13, <1>14
      <4> QED BY <4>1, <1>1 DEF StoreInv
    <3>3. CASE x \notin Elements(lines)
      <4>1. ~glued /\ x = line /\ x = record /\ whole
        BY <3>1, <3>3, <1>15, <1>16 DEF whole
      <4> QED BY <4>1, <1>1, <1>10
    <3> QED BY <3>2, <3>3
  <2> QED BY <2>1, <2>2
<1>18. ASSUME NEW r \in traces', r.whole
       PROVE  \/ r.start < time' - MaxAge
              \/ \E f \in DOMAIN store' : /\ store'[f].there /\ store'[f].mtime >= r.start
                                           /\ LineOf(r) \in Elements(store'[f].lines)
  <2>1. CASE r = fresh
    <3>1. line = record /\ record \in Elements(added)
      BY <2>1, <1>18, <1>7, <1>10, <1>15 DEF whole
    <3>2. entry.mtime >= r.start
      BY <2>1, <1>2, <1>8, <1>10
    <3> QED BY <2>1, <3>1, <3>2, <1>8, <1>10, <1>11
  <2>2. CASE r \in traces /\ ~(r.start < time - MaxAge)
    <3>1. PICK f \in DOMAIN store : /\ store[f].there /\ store[f].mtime >= r.start
                                    /\ LineOf(r) \in Elements(store[f].lines)
      BY <2>2, <1>18 DEF StoreInv
    <3>2. CASE f # file
      BY <3>1, <3>2, <1>11
    <3>3. CASE f = file
      <4>1. ~rotate /\ LineOf(r) \in Elements(lines)
        BY <3>1, <3>3, <1>11, <1>13
      <4>2. LineOf(r) \notin Broken
        <5>1. r \in [id : Nat \ {0}, by : Processes, start : Nat, whole : BOOLEAN]
          BY <2>2 DEF StoreInv, StoreTypes
        <5>2. LineOf(r) \in [id : Nat \ {0}, by : Processes, start : Nat]
          BY <5>1 DEF LineOf
        <5> QED BY <5>2, BrokenLines
      <4>3. LineOf(r) \in Elements(added)
        BY <4>1, <4>2, <1>7
      <4>4. time >= r.start
        BY <2>2 DEF StoreInv, StoreTypes
      <4> QED BY <4>3, <4>4, <1>8, <1>11
    <3> QED BY <3>2, <3>3
  <2> QED BY <2>1, <2>2, <1>1, <1>18
<1> QED BY <1>12, <1>17, <1>18 DEF StoreInv

\* cleanup_old_files takes no line of a trace that is younger than MaxAge.
LEMMA CleanupStep == ASSUME StoreInv, Cleanup PROVE StoreInv'
<1>1. /\ DOMAIN store' = DOMAIN store /\ UNCHANGED <<time, appendTo, traces>>
      /\ \A f \in DOMAIN store :
            store'[f] = IF store[f].mtime < time - MaxAge
                        THEN [store[f] EXCEPT !.there = FALSE, !.lines = <<>>] ELSE store[f]
  BY DEF Cleanup
<1>2. store \in Seq(StoredFile) /\ \A f \in DOMAIN store : store[f] \in StoredFile
  BY DEF StoreInv, StoreTypes
<1>3. <<>> \in Seq(Line) /\ Elements(<<>>) = {}
  BY DEF Elements
<1>4. ASSUME NEW f \in DOMAIN store
      PROVE  /\ store'[f] \in StoredFile
             /\ store'[f] # store[f] => store[f].mtime < time - MaxAge /\ store'[f].lines = <<>>
  <2>1. store[f] \in StoredFile /\ <<>> \in Seq(Line)
    BY <1>2, <1>3
  <2>2. /\ [store[f] EXCEPT !.there = FALSE, !.lines = <<>>] \in StoredFile
        /\ [store[f] EXCEPT !.there = FALSE, !.lines = <<>>].lines = <<>>
    BY <2>1 DEF StoredFile
  <2> QED BY <1>1, <2>1, <2>2
<1>5. store' \in Seq(StoredFile)
  <2>1. store' = [f \in DOMAIN store |-> store'[f]]
    BY DEF Cleanup
  <2>2. DOMAIN store = 1..Len(store) /\ Len(store) \in Nat
    BY <1>2
  <2>3. store' \in [1..Len(store) -> StoredFile]
    BY <2>1, <2>2, <1>4
  <2> QED BY <2>2, <2>3, SeqDef
<1>6. StoreTypes'
  BY <1>1, <1>5 DEF StoreInv, StoreTypes
<1>7. ASSUME NEW f \in DOMAIN store', NEW x \in Elements(store'[f].lines) \ Broken
      PROVE  \E r \in traces' : r.whole /\ x = LineOf(r)
  <2>1. f \in DOMAIN store /\ store'[f] = store[f]
    BY <1>1, <1>3, <1>4, <1>7
  <2> QED BY <2>1, <1>1, <1>7 DEF StoreInv
<1>8. ASSUME NEW r \in traces', r.whole
      PROVE  \/ r.start < time' - MaxAge
             \/ \E f \in DOMAIN store' : /\ store'[f].there /\ store'[f].mtime >= r.start
                                          /\ LineOf(r) \in Elements(store'[f].lines)
  <2> SUFFICES ASSUME ~(r.start < time - MaxAge)
               PROVE  \E f \in DOMAIN store' : /\ store'[f].there /\ store'[f].mtime >= r.start
                                              /\ LineOf(r) \in Elements(store'[f].lines)
    BY <1>1
  <2>1. PICK f \in DOMAIN store : /\ store[f].there /\ store[f].mtime >= r.start
                                  /\ LineOf(r) \in Elements(store[f].lines)
    BY <1>1, <1>8 DEF StoreInv
  <2>2. r.start \in Nat /\ time \in Nat /\ store[f].mtime \in Nat
    <3>1. r \in [id : Nat \ {0}, by : Processes, start : Nat, whole : BOOLEAN] /\ time \in Nat
      BY <1>1 DEF StoreInv, StoreTypes
    <3>2. store[f] \in StoredFile
      BY <1>2
    <3> QED BY <3>1, <3>2 DEF StoredFile
  <2>3. ~(store[f].mtime < time - MaxAge)
    BY <2>1, <2>2, StoreAssumption
  <2> QED BY <2>1, <2>3, <1>1
<1> QED BY <1>6, <1>7, <1>8 DEF StoreInv

\* Time passes, and traces grow old.
LEMMA MinuteStep == ASSUME StoreInv, Minute PROVE StoreInv'
<1>1. time' = time + 1 /\ UNCHANGED <<store, appendTo, traces>> /\ time \in Nat
  BY DEF Minute, StoreInv, StoreTypes
<1>2. \A r \in traces : r.start \in Nat /\ r.start <= time
  BY DEF StoreInv, StoreTypes
<1>3. \A r \in traces : /\ r.start <= time + 1
                        /\ r.start < time - MaxAge => r.start < (time + 1) - MaxAge
  BY <1>1, <1>2, StoreAssumption
<1>4. StoreTypes'
  BY <1>1, <1>3 DEF StoreInv, StoreTypes
<1> QED BY <1>1, <1>3, <1>4 DEF StoreInv

\* The steps of the other parts leave the store alone.
LEMMA StoreFrame == [Next]_vars => StoreNext \/ UNCHANGED storeVars
  BY DEF Next, vars, DeviceStep, ResultStep, ActivityStep, ResourceStep, StatusStep,
         ProfilingStep, StoreStep, BenchmarkStep

\* The readable lines are the records that the disk took whole, as long as they are young.
THEOREM StoreInductive == Spec => []StoreInv
<1>1. Init => StoreInv
  <2> SUFFICES ASSUME Init PROVE StoreInv
    OBVIOUS
  <2>1. time = 1 /\ store = <<>> /\ traces = {} /\ appendTo = [p \in Processes |-> NoFile]
    BY DEF Init, StoreInit
  <2>2. NoFile \in [file : Nat, created : Nat] /\ <<>> \in Seq(StoredFile) /\ DOMAIN <<>> = {}
    BY DEF NoFile
  <2> QED BY <2>1, <2>2 DEF StoreInv, StoreTypes
<1>2. StoreInv /\ [Next]_vars => StoreInv'
  <2>1. StoreInv /\ UNCHANGED storeVars => StoreInv'
    BY DEF StoreInv, StoreTypes, storeVars
  <2> QED BY <2>1, StoreFrame, RecordStep, CleanupStep, MinuteStep DEF StoreNext
<1> QED BY <1>1, <1>2, PTL DEF Spec

\* For any number of processes, files and traces, however record_trace rotates its files and
\* cleanup_old_files deletes them: load_traces finds every record of a trace within the
\* window that the disk took whole, and no other, provided the window is not longer than
\* files are kept.
THEOREM TracesWithinWindowLoaded == Spec => []RecentTracesLoaded
<1> DEFINE recent == {r \in traces : r.whole /\ r.start >= time - Window}
<1>1. ASSUME StoreInv PROVE RecentTracesLoaded
  <2>1. ASSUME NEW x \in LoadTraces PROVE \E r \in recent : x = LineOf(r)
    <3>1. x \in RecentLines /\ x \notin Broken /\ x.start >= time - Window
      BY DEF LoadTraces, Broken
    <3>2. PICK f \in DOMAIN store : x \in Elements(store[f].lines)
      BY <3>1 DEF RecentLines, Elements
    <3>3. PICK r \in traces : r.whole /\ x = LineOf(r)
      BY <1>1, <3>1, <3>2 DEF StoreInv
    <3>4. r.start >= time - Window
      BY <3>1, <3>3 DEF LineOf
    <3> QED BY <3>3, <3>4
  <2>2. ASSUME NEW r \in recent PROVE LineOf(r) \in LoadTraces
    <3>1. /\ r \in [id : Nat \ {0}, by : Processes, start : Nat, whole : BOOLEAN]
          /\ time \in Nat /\ store \in Seq(StoredFile)
      BY <1>1 DEF StoreInv, StoreTypes
    <3>2. r.start \in Nat /\ r.start >= time - Window
      BY <3>1
    <3>3. ~(r.start < time - MaxAge)
      BY <3>1, <3>2, StoreAssumption
    <3>4. PICK f \in DOMAIN store : /\ store[f].there /\ store[f].mtime >= r.start
                                    /\ LineOf(r) \in Elements(store[f].lines)
      BY <1>1, <3>3 DEF StoreInv
    <3>5. store[f].mtime \in Nat
      <4>1. store[f] \in StoredFile
        BY <3>1
      <4> QED BY <4>1 DEF StoredFile
    <3>6. store[f].mtime >= time - Window
      BY <3>1, <3>2, <3>4, <3>5, StoreAssumption
    <3>7. LineOf(r) \in RecentLines
      BY <3>4, <3>6 DEF RecentLines, Elements
    <3>8. LineOf(r) \notin Broken /\ LineOf(r).start = r.start
      <4>1. LineOf(r) \in [id : Nat \ {0}, by : Processes, start : Nat]
        BY <3>1 DEF LineOf
      <4> QED BY <4>1, BrokenLines DEF LineOf
    <3> QED BY <3>2, <3>7, <3>8 DEF LoadTraces, Broken
  <2>3. \A r : LineOf(r).id = r.id /\ LineOf(r).by = r.by
    BY DEF LineOf
  <2> SUFFICES ASSUME NEW id \in 1..MaxTraces
               PROVE  /\ Merged(id).spansOf = {r.by : r \in {q \in recent : q.id = id}}
                      /\ Merged(id).detector = "known" <=> \E r \in recent : r.id = id /\ r.by \notin Servers
    BY DEF RecentTracesLoaded
  <2> HIDE DEF recent
  <2>4. Merged(id).spansOf = {r.by : r \in {q \in LoadTraces : q.id = id}}
    BY DEF Merged
  <2>5. Merged(id).detector = "known" <=>
          \E r \in {q \in LoadTraces : q.id = id} : r.by \notin Servers
    BY DEF Merged
  <2>6. {r.by : r \in {q \in LoadTraces : q.id = id}} = {r.by : r \in {q \in recent : q.id = id}}
    BY <2>1, <2>2, <2>3
  <2>7. (\E r \in {q \in LoadTraces : q.id = id} : r.by \notin Servers)
          <=> \E r \in recent : r.id = id /\ r.by \notin Servers
    BY <2>1, <2>2, <2>3
  <2> QED BY <2>4, <2>5, <2>6, <2>7
<1> QED BY <1>1, StoreInductive, PTL

-----------------------------------------------------------------------------
(* The spans of a request's trace. *)

SpanNames == {"request", "run_inference", "run_in_threadpool"} \cup InferenceCallSpanNames
SpanRecord == [name : SpanNames, parent : Nat, from : Nat, to : Nat]

\* Of a trace up to some time: a span lies within the part of its parent's that is over;
\* the parent of an open span is open.
Nested(trace, i, until) ==
    /\ trace[i].from <= until
    /\ trace[i].to # NoSpan => trace[i].from <= trace[i].to /\ trace[i].to <= until
    /\ trace[i].parent = NoSpan <=> i = Root
    /\ i # Root =>
          /\ trace[i].parent \in 1..(i - 1)
          /\ trace[trace[i].parent].from <= trace[i].from
          /\ trace[trace[i].parent].to # NoSpan =>
                trace[i].to # NoSpan /\ trace[i].to <= trace[trace[i].parent].to
    /\ trace[i].name \in InferenceCallSpanNames => i # Root /\ trace[trace[i].parent].name = "run_inference"

SpanInv ==
    /\ now \in Nat \ {0}
    /\ spans \in Seq(SpanRecord)
    /\ \A i \in DOMAIN spans : Nested(spans, i, now)

StackEntry == [span : Nat, token : Nat]

\* Each span the event loop is in is a child of the one below it on the stack, and of the
\* request the lowest.
LoopInv ==
    /\ stack["loop"] \in Seq(StackEntry)
    /\ current["loop"] = IF stack["loop"] = <<>> THEN NoSpan ELSE Last(stack["loop"]).span
    /\ \A k \in DOMAIN stack["loop"] :
          LET e == stack["loop"][k]
              below == stack["loop"][k - 1].span
          IN  /\ e.span \in DOMAIN spans /\ e.span # Root /\ spans[e.span].to = NoSpan
              /\ e.token = IF k = 1 THEN NoSpan ELSE below
              /\ spans[e.span].parent = IF k = 1 THEN Root ELSE below
    /\ \A k, l \in DOMAIN stack["loop"] : k < l => stack["loop"][k].span < stack["loop"][l].span

\* A worker thread of run_inference is in one call at most, a child of the span that the
\* loop waits in.
WorkerInv ==
    \A w \in Workers :
       /\ forked[w] # "running" => stack[w] = <<>>
       /\ forked[w] = "running" =>
             /\ stack["loop"] # <<>> /\ spans[current["loop"]].name = "run_inference"
             /\ \/ stack[w] = <<>> /\ current[w] = current["loop"]
                \/ /\ stack[w] = <<[span |-> current[w], token |-> current["loop"]]>>
                   /\ current[w] \in DOMAIN spans /\ spans[current[w]].to = NoSpan
                   /\ spans[current[w]].parent = current["loop"]
       /\ \A v \in Workers \ {w} : stack[v] # <<>> /\ stack[w] # <<>> => current[v] # current[w]

\* The span of the request is open until it has been handled; what else is open is on the
\* stack of a thread.
OpenInv ==
    /\ current \in [Threads -> Nat] /\ DOMAIN stack = Threads /\ DOMAIN forked = Workers
    /\ request = "none" => spans = <<>> /\ \A t \in Threads : stack[t] = <<>>
    /\ request = "none" => \A w \in Workers : forked[w] = "no"
    /\ request = "handled" => Root \in DOMAIN spans /\ spans[Root].to = NoSpan
    /\ request = "recorded" => \A t \in Threads : stack[t] = <<>>
    /\ \A i \in DOMAIN spans : spans[i].to = NoSpan =>
          /\ request = "handled"
          /\ \/ i = Root
             \/ \E k \in DOMAIN stack["loop"] : stack["loop"][k].span = i
             \/ \E w \in Workers : stack[w] # <<>> /\ current[w] = i

TraceInv == SpanInv /\ LoopInv /\ WorkerInv /\ OpenInv

\* A child of an open span is opened.
LEMMA SpanOpened ==
  ASSUME SpanInv, NEW q \in DOMAIN spans, spans[q].to = NoSpan, NEW name \in SpanNames,
         name \in InferenceCallSpanNames => spans[q].name = "run_inference",
         spans' = Append(spans, Span(name, q)), now' = now
  PROVE  /\ SpanInv' /\ Len(spans) \in Nat
         /\ DOMAIN spans = 1..Len(spans) /\ DOMAIN spans' = 1..(Len(spans) + 1)
         /\ \A i \in 1..Len(spans) : spans'[i] = spans[i]
         /\ spans'[Len(spans) + 1].to = NoSpan /\ spans'[Len(spans) + 1].parent = q
         /\ spans'[Len(spans) + 1].name = name
<1> DEFINE n == Len(spans)
           new == Span(name, q)
<1>1. spans \in Seq(SpanRecord) /\ n \in Nat /\ DOMAIN spans = 1..n /\ now \in Nat \ {0}
  BY DEF SpanInv
<1>2. q \in 1..n /\ q \in Nat /\ q # 0
  BY <1>1
<1>3. /\ new \in SpanRecord /\ new.to = NoSpan /\ new.parent = q /\ new.name = name /\ new.from = now
  BY <1>1, <1>2 DEF Span, SpanRecord, NoSpan
<1> HIDE DEF new
<1>4. /\ spans' \in Seq(SpanRecord) /\ DOMAIN spans' = 1..(n + 1) /\ spans'[n + 1] = new
      /\ \A i \in 1..n : spans'[i] = spans[i]
  BY <1>1, <1>3 DEF new
<1> HIDE DEF n
<1>5. ASSUME NEW i \in DOMAIN spans' PROVE Nested(spans', i, now)
  <2>1. CASE i \in 1..n
    <3>1. Nested(spans, i, now)
      BY <2>1, <1>1 DEF SpanInv
    <3>2. spans'[i] = spans[i]
      BY <2>1, <1>4
    <3>3. i # Root => spans[i].parent \in 1..n /\ spans'[spans[i].parent] = spans[spans[i].parent]
      BY <2>1, <3>1, <1>1, <1>4 DEF Nested
    <3> QED BY <3>1, <3>2, <3>3 DEF Nested
  <2>2. CASE i = n + 1
    <3>1. spans'[i] = new /\ spans'[q] = spans[q] /\ i # Root /\ q \in 1..(i - 1)
      BY <2>2, <1>1, <1>2, <1>4 DEF Root
    <3>2. spans[q].from <= now
      BY <1>1, <1>2 DEF SpanInv, Nested
    <3>3. now <= now
      BY <1>1
    <3> QED BY <3>1, <3>2, <3>3, <1>2, <1>3 DEF NoSpan, Nested
  <2> QED BY <2>1, <2>2, <1>1, <1>4
<1>6. SpanInv'
  BY <1>1, <1>4, <1>5 DEF SpanInv
<1> QED BY <1>1, <1>3, <1>4, <1>6 DEF n

\* A span whose children are closed is closed.
LEMMA SpanClosed ==
  ASSUME SpanInv, NEW q \in DOMAIN spans, spans[q].to = NoSpan,
         \A i \in DOMAIN spans : spans[i].parent = q => spans[i].to # NoSpan,
         spans' = [spans EXCEPT ![q] = [spans[q] EXCEPT !.to = now]], now' = now
  PROVE  /\ SpanInv' /\ DOMAIN spans' = DOMAIN spans
         /\ \A i \in DOMAIN spans \ {q} : spans'[i] = spans[i]
         /\ spans'[q].to # NoSpan /\ spans'[q].parent = spans[q].parent /\ spans'[q].name = spans[q].name
<1> DEFINE new == [spans[q] EXCEPT !.to = now]
<1>1. spans \in Seq(SpanRecord) /\ now \in Nat \ {0} /\ spans[q] \in SpanRecord
  BY DEF SpanInv
<1>2. /\ new \in SpanRecord /\ new.to = now /\ new.parent = spans[q].parent
      /\ new.name = spans[q].name /\ new.from = spans[q].from
  BY <1>1 DEF SpanRecord
<1> HIDE DEF new
<1>3. /\ spans' \in Seq(SpanRecord) /\ DOMAIN spans' = DOMAIN spans /\ spans'[q] = new
      /\ \A i \in DOMAIN spans \ {q} : spans'[i] = spans[i]
  BY <1>1, <1>2 DEF new
<1>4. ASSUME NEW i \in DOMAIN spans PROVE spans[i].from \in Nat /\ spans[i].to \in Nat /\ i \in Nat
  <2>1. spans[i] \in SpanRecord /\ i \in Nat
    BY <1>1
  <2> QED BY <2>1 DEF SpanRecord
<1>5. ASSUME NEW i \in DOMAIN spans' PROVE Nested(spans', i, now)
  <2> DEFINE p == spans[i].parent
  <2>1. Nested(spans, i, now) /\ i \in DOMAIN spans /\ Nested(spans, q, now)
    BY <1>3 DEF SpanInv
  <2>2. i # Root => p \in DOMAIN spans /\ p # i
    <3>1. i # Root => p \in 1..(i - 1)
      BY <2>1 DEF Nested
    <3>2. DOMAIN spans = 1..Len(spans) /\ Len(spans) \in Nat
      BY <1>1
    <3> QED BY <2>1, <3>1, <3>2
  <2>3. spans'[i].parent = p /\ spans'[i].from = spans[i].from /\ spans'[i].name = spans[i].name
    BY <1>2, <1>3, <2>1
  <2>4. i # Root => spans'[p].from = spans[p].from /\ spans'[p].name = spans[p].name
    BY <1>2, <1>3, <2>2
  <2> HIDE DEF p
  <2>5. CASE i = q
    <3>1. spans'[i].to = now /\ spans[i].to = NoSpan
      BY <2>5, <1>2, <1>3
    <3>2. i # Root => spans'[p] = spans[p] /\ spans[p].to = NoSpan
      BY <2>1, <2>2, <2>5, <1>3 DEF Nested, p
    <3>3. now <= now
      BY <1>1
    <3> QED BY <2>1, <2>3, <2>4, <3>1, <3>2, <3>3 DEF Nested, p
  <2>6. CASE i # q /\ i # Root /\ p = q
    <3>1. spans'[i] = spans[i] /\ spans[i].to # NoSpan /\ spans'[p].to = now
      BY <2>6, <2>1, <1>2, <1>3 DEF p
    <3>2. spans[i].to <= now
      BY <3>1, <2>1 DEF Nested
    <3> QED BY <2>1, <2>3, <2>4, <3>1, <3>2 DEF Nested, p
  <2>7. CASE i # q /\ (i = Root \/ p # q)
    <3>1. spans'[i] = spans[i] /\ (i # Root => spans'[p] = spans[p])
      BY <2>7, <2>1, <2>2, <1>3
    <3> QED BY <2>1, <3>1 DEF Nested, p
  <2> QED BY <2>5, <2>6, <2>7
<1>6. SpanInv'
  BY <1>1, <1>3, <1>5 DEF SpanInv
<1>7. new.to # NoSpan
  BY <1>1, <1>2 DEF NoSpan
<1> QED BY <1>2, <1>3, <1>6, <1>7

\* Time passes within a request.
LEMMA TimeStep == ASSUME TraceInv, Time PROVE TraceInv'
<1>1. now' = now + 1 /\ UNCHANGED <<spans, current, stack, forked, request>>
  BY DEF Time
<1>2. spans \in Seq(SpanRecord) /\ now \in Nat \ {0}
  BY DEF TraceInv, SpanInv
<1>3. ASSUME NEW i \in DOMAIN spans PROVE Nested(spans, i, now + 1)
  <2>1. spans[i] \in SpanRecord
    BY <1>2
  <2>2. spans[i].from \in Nat /\ spans[i].to \in Nat
    BY <2>1 DEF SpanRecord
  <2>3. Nested(spans, i, now)
    BY DEF TraceInv, SpanInv
  <2>4. spans[i].from <= now + 1 /\ (spans[i].to <= now => spans[i].to <= now + 1)
    BY <2>2, <2>3, <1>2 DEF Nested
  <2> QED BY <2>3, <2>4 DEF Nested
<1>4. SpanInv'
  BY <1>1, <1>2, <1>3 DEF SpanInv
<1> QED BY <1>1, <1>4 DEF TraceInv, LoopInv, WorkerInv, OpenInv

\* The middleware starts a trace.
LEMMA StartStep == ASSUME TraceInv, StartTrace PROVE TraceInv'
<1> DEFINE new == Span("request", NoSpan)
<1>1. /\ spans' = <<new>> /\ request = "none" /\ request' = "handled"
      /\ UNCHANGED <<now, current, stack, forked>>
  BY DEF StartTrace
<1>2. now \in Nat \ {0}
  BY DEF TraceInv, SpanInv
<1>3. /\ new \in SpanRecord /\ new.to = NoSpan /\ new.parent = NoSpan /\ new.from = now
      /\ new.name = "request"
  <2>1. new = [name |-> "request", parent |-> 0, from |-> now, to |-> 0]
    BY DEF Span, NoSpan
  <2>2. "request" \in SpanNames /\ now \in Nat
    BY <1>2 DEF SpanNames
  <2> QED BY <2>1, <2>2 DEF SpanRecord, NoSpan
<1> HIDE DEF new
<1>4. spans' \in Seq(SpanRecord) /\ DOMAIN spans' = {Root} /\ spans'[Root] = new
  BY <1>1, <1>3 DEF Root
<1>5. "request" \notin InferenceCallSpanNames /\ now <= now
  BY <1>2 DEF InferenceCallSpanNames
<1>6. SpanInv'
  BY <1>1, <1>2, <1>3, <1>4, <1>5 DEF SpanInv, Nested
<1>7. \A t \in Threads : stack[t] = <<>>
  BY <1>1 DEF TraceInv, OpenInv
<1>8. \A w \in Workers : forked[w] = "no"
  BY <1>1 DEF TraceInv, OpenInv
<1>9. "loop" \in Threads /\ Workers \subseteq Threads /\ DOMAIN <<>> = {}
  BY DEF Threads, Workers
<1>10. LoopInv'
  BY <1>1, <1>7, <1>9 DEF TraceInv, LoopInv
<1>11. WorkerInv'
  BY <1>1, <1>7, <1>8, <1>9 DEF WorkerInv
<1>12. OpenInv'
  BY <1>1, <1>3, <1>4, <1>7 DEF TraceInv, OpenInv
<1> QED BY <1>6, <1>10, <1>11, <1>12 DEF TraceInv

\* run_inference submits its two calls.
LEMMA ForkStep == ASSUME TraceInv, Fork PROVE TraceInv'
<1>1. /\ current' = [t \in Threads |-> current["loop"]] /\ forked' = [w \in Workers |-> "running"]
      /\ \A w \in Workers : forked[w] = "no"
      /\ stack["loop"] # <<>> /\ spans[current["loop"]].name = "run_inference"
      /\ request = "handled" /\ UNCHANGED <<now, spans, stack, request>>
  BY DEF Fork, Running
<1>2. "loop" \in Threads /\ Workers \subseteq Threads
  BY DEF Threads, Workers
<1>3. \A w \in Workers : stack[w] = <<>>
  BY <1>1 DEF TraceInv, WorkerInv
<1>4. \A t \in Threads : current'[t] = current["loop"]
  BY <1>1
<1>5. LoopInv'
  BY <1>1, <1>2, <1>4 DEF TraceInv, LoopInv
<1>6. WorkerInv'
  BY <1>1, <1>2, <1>3, <1>4 DEF WorkerInv
<1>7. OpenInv'
  <2>1. current' \in [Threads -> Nat]
    BY <1>1, <1>2 DEF TraceInv, OpenInv
  <2>2. DOMAIN forked' = Workers
    BY <1>1
  <2> QED BY <1>1, <1>3, <2>1, <2>2 DEF TraceInv, OpenInv
<1> QED BY <1>1, <1>5, <1>6, <1>7 DEF TraceInv, SpanInv

\* The middleware ends the span of the request, the only one still open.
LEMMA FinishStep == ASSUME TraceInv, Finish PROVE TraceInv'
<1>1. /\ request = "handled" /\ \A w \in Workers : forked[w] # "running"
      /\ stack["loop"] = <<>> /\ request' = "recorded"
      /\ spans' = [spans EXCEPT ![Root] = [spans[Root] EXCEPT !.to = now]]
      /\ UNCHANGED <<now, current, stack, forked>>
  BY DEF Finish, Running
<1>2. \A w \in Workers : stack[w] = <<>>
  BY <1>1 DEF TraceInv, WorkerInv
<1>3. Root \in DOMAIN spans /\ spans[Root].to = NoSpan /\ SpanInv
  BY <1>1 DEF TraceInv, OpenInv
<1>4. \A i \in DOMAIN spans : spans[i].to = NoSpan => i = Root
  BY <1>1, <1>2 DEF TraceInv, OpenInv
<1>5. spans[Root].parent # Root
  BY <1>3 DEF SpanInv, Nested, Root, NoSpan
<1>6. \A i \in DOMAIN spans : spans[i].parent = Root => spans[i].to # NoSpan
  BY <1>4, <1>5
<1>7. /\ SpanInv' /\ DOMAIN spans' = DOMAIN spans /\ spans'[Root].to # NoSpan
      /\ \A i \in DOMAIN spans \ {Root} : spans'[i] = spans[i]
  BY <1>1, <1>3, <1>6, SpanClosed
<1>8. LoopInv'
  BY <1>1 DEF TraceInv, LoopInv
<1>9. WorkerInv'
  BY <1>1, <1>2 DEF TraceInv, WorkerInv
<1>10. \A t \in Threads : stack[t] = <<>>
  BY <1>1, <1>2 DEF Threads, Workers
<1>11. OpenInv'
  BY <1>1, <1>4, <1>7, <1>10 DEF TraceInv, OpenInv
<1> QED BY <1>7, <1>8, <1>9, <1>11 DEF TraceInv

\* A call of the event loop: trace_span, or the patched run_in_threadpool.
LEMMA EnterLoopStep ==
  ASSUME TraceInv, NEW name \in {"run_inference", "run_in_threadpool"}, Enter("loop", name)
  PROVE  TraceInv'
<1> DEFINE s == stack["loop"]
           n == Len(s)
           q == IF current["loop"] = NoSpan THEN Root ELSE current["loop"]
           new == Len(spans) + 1
           entry == [span |-> new, token |-> current["loop"]]
<1>1. /\ request = "handled" /\ \A w \in Workers : forked[w] # "running"
      /\ spans' = Append(spans, Span(name, q))
      /\ stack' = [stack EXCEPT !["loop"] = Append(s, entry)]
      /\ current' = [current EXCEPT !["loop"] = new]
      /\ UNCHANGED <<now, forked, request>>
  BY DEF Enter, Running
<1>2. /\ SpanInv /\ s \in Seq(StackEntry) /\ n \in Nat /\ DOMAIN s = 1..n
      /\ current \in [Threads -> Nat] /\ DOMAIN stack = Threads /\ DOMAIN forked = Workers
      /\ Root \in DOMAIN spans /\ spans[Root].to = NoSpan
  BY <1>1 DEF TraceInv, LoopInv, OpenInv
<1>3. "loop" \in Threads /\ "loop" \notin Workers /\ Workers \subseteq Threads
  BY DEF Threads, Workers
<1>4. \A w \in Workers : stack[w] = <<>>
  BY <1>1 DEF TraceInv, WorkerInv
<1>5. q \in DOMAIN spans /\ spans[q].to = NoSpan /\ q = IF n = 0 THEN Root ELSE s[n].span
  <2>1. CASE n = 0
    <3>1. s = <<>>
      BY <2>1, <1>2
    <3>2. current["loop"] = NoSpan
      BY <3>1 DEF TraceInv, LoopInv
    <3> QED BY <2>1, <3>2, <1>2
  <2>2. CASE n # 0
    <3>1. s # <<>> /\ n \in DOMAIN s
      BY <2>2, <1>2
    <3>2. current["loop"] = s[n].span
      BY <3>1 DEF TraceInv, LoopInv, Last
    <3>3. s[n].span \in DOMAIN spans /\ spans[s[n].span].to = NoSpan
      BY <3>1 DEF TraceInv, LoopInv
    <3>4. s[n].span # NoSpan
      BY <3>3, <1>2 DEF SpanInv, NoSpan
    <3> QED BY <2>2, <3>2, <3>3, <3>4
  <2> QED BY <2>1, <2>2
<1>6. name \in SpanNames /\ name \notin InferenceCallSpanNames
  BY DEF InferenceCallSpanNames, SpanNames
<1> HIDE DEF q
<1>7. /\ SpanInv' /\ Len(spans) \in Nat
      /\ DOMAIN spans = 1..Len(spans) /\ DOMAIN spans' = 1..new
      /\ \A i \in 1..Len(spans) : spans'[i] = spans[i]
      /\ spans'[new].to = NoSpan /\ spans'[new].parent = q
  BY <1>1, <1>2, <1>5, <1>6, SpanOpened
<1>8. new \in Nat /\ new > 1 /\ new \in DOMAIN spans' /\ new \notin DOMAIN spans
      /\ \A i \in DOMAIN spans : i \in DOMAIN spans' /\ spans'[i] = spans[i] /\ i < new
  BY <1>2, <1>7 DEF Root
<1>9. entry \in StackEntry /\ entry.span = new /\ entry.token = current["loop"]
  BY <1>2, <1>3, <1>8 DEF StackEntry
<1> HIDE DEF new, entry
<1>10. /\ stack'["loop"] \in Seq(StackEntry) /\ Len(stack'["loop"]) = n + 1
       /\ DOMAIN stack'["loop"] = 1..(n + 1)
       /\ stack'["loop"][n + 1] = entry /\ \A k \in 1..n : stack'["loop"][k] = s[k]
       /\ stack'["loop"] # <<>>
       /\ DOMAIN stack' = Threads /\ \A w \in Workers : stack'[w] = <<>>
  <2>1. /\ stack'["loop"] = Append(s, entry) /\ DOMAIN stack' = Threads
        /\ \A w \in Workers : stack'[w] = stack[w]
    BY <1>1, <1>2, <1>3
  <2> QED BY <2>1, <1>2, <1>4, <1>9
<1>11. current'["loop"] = new /\ current' \in [Threads -> Nat]
  BY <1>1, <1>2, <1>3, <1>8
<1>12. \A k \in 1..n : s[k].span \in DOMAIN spans /\ s[k].span # Root /\ spans[s[k].span].to = NoSpan
  BY <1>2 DEF TraceInv, LoopInv
<1>13. LoopInv'
  <2>1. current'["loop"] = Last(stack'["loop"]).span
    BY <1>9, <1>10, <1>11 DEF Last
  <2>2. ASSUME NEW k \in 1..n
        PROVE  /\ s[k].token = IF k = 1 THEN NoSpan ELSE s[k - 1].span
               /\ spans[s[k].span].parent = IF k = 1 THEN Root ELSE s[k - 1].span
               /\ k # 1 => k - 1 \in 1..n
    BY <1>2 DEF TraceInv, LoopInv
  <2>3. entry.token = IF n = 0 THEN NoSpan ELSE s[n].span
    <3>1. CASE n = 0
      BY <3>1, <1>2, <1>9 DEF TraceInv, LoopInv
    <3>2. CASE n # 0
      BY <3>2, <1>2, <1>9 DEF TraceInv, LoopInv, Last
    <3> QED BY <3>1, <3>2
  <2>4. ASSUME NEW k \in 1..(n + 1)
        PROVE  LET e == stack'["loop"][k]
                   below == stack'["loop"][k - 1].span
               IN  /\ e.span \in DOMAIN spans' /\ e.span # Root /\ spans'[e.span].to = NoSpan
                   /\ e.token = IF k = 1 THEN NoSpan ELSE below
                   /\ spans'[e.span].parent = IF k = 1 THEN Root ELSE below
    <3>1. CASE k \in 1..n
      <4>1. stack'["loop"][k] = s[k] /\ (k # 1 => stack'["loop"][k - 1] = s[k - 1])
        BY <3>1, <2>2, <1>10
      <4>2. /\ s[k].span \in DOMAIN spans' /\ s[k].span # Root
            /\ spans'[s[k].span] = spans[s[k].span] /\ spans[s[k].span].to = NoSpan
        BY <3>1, <1>8, <1>12
      <4> QED BY <3>1, <4>1, <4>2, <2>2
    <3>2. CASE k = n + 1
      <4>1. stack'["loop"][k] = entry /\ (n # 0 => k # 1 /\ stack'["loop"][k - 1] = s[n]) /\ (n = 0 => k = 1)
        BY <3>2, <1>2, <1>10
      <4>2. new # Root
        BY <1>8 DEF Root
      <4> QED BY <4>1, <4>2, <2>3, <1>5, <1>7, <1>8, <1>9
    <3> QED BY <3>1, <3>2, <1>2
  <2>5. ASSUME NEW k \in 1..(n + 1), NEW l \in 1..(n + 1), k < l
        PROVE  stack'["loop"][k].span < stack'["loop"][l].span
    <3>1. k \in 1..n /\ stack'["loop"][k] = s[k]
      BY <2>5, <1>2, <1>10
    <3>2. CASE l \in 1..n
      BY <3>1, <3>2, <2>5, <1>2, <1>10 DEF TraceInv, LoopInv
    <3>3. CASE l = n + 1
      BY <3>1, <3>3, <1>8, <1>9, <1>10, <1>12
    <3> QED BY <3>2, <3>3, <1>2
  <2> HIDE DEF s, n
  <2> QED BY <2>1, <2>4, <2>5, <1>10 DEF LoopInv
<1>14. WorkerInv'
  BY <1>1, <1>10 DEF WorkerInv
<1>15. OpenInv'
  <2>1. Root \in DOMAIN spans' /\ spans'[Root].to = NoSpan
    BY <1>2, <1>8
  <2>2. ASSUME NEW i \in DOMAIN spans', spans'[i].to = NoSpan
        PROVE  i = Root \/ \E k \in DOMAIN stack'["loop"] : stack'["loop"][k].span = i
    <3>1. CASE i = new
      BY <3>1, <1>2, <1>9, <1>10
    <3>2. CASE i # new
      <4>1. i \in DOMAIN spans /\ spans[i].to = NoSpan
        BY <3>2, <2>2, <1>7, <1>8 DEF new
      <4>2. i = Root \/ \E k \in 1..n : s[k].span = i
        BY <4>1, <1>2, <1>4 DEF TraceInv, OpenInv
      <4> QED BY <4>2, <1>2, <1>10
    <3> QED BY <3>1, <3>2
  <2> QED BY <2>1, <2>2, <1>1, <1>2, <1>10, <1>11 DEF OpenInv
<1> QED BY <1>7, <1>13, <1>14, <1>15 DEF TraceInv

\* The loop's side stays when its stack and the spans on it do.
LEMMA LoopKept ==
  ASSUME LoopInv, stack'["loop"] = stack["loop"], current'["loop"] = current["loop"],
         \A k \in DOMAIN stack["loop"] :
            stack["loop"][k].span \in DOMAIN spans' /\ spans'[stack["loop"][k].span] = spans[stack["loop"][k].span]
  PROVE  LoopInv'
  BY DEF LoopInv

\* The loop's current span is the latest on its stack.
LEMMA LoopTop ==
  ASSUME SpanInv, LoopInv, stack["loop"] # <<>>
  PROVE  /\ current["loop"] \in DOMAIN spans /\ spans[current["loop"]].to = NoSpan
         /\ current["loop"] \in Nat /\ current["loop"] # NoSpan /\ current["loop"] # Root
         /\ \A k \in DOMAIN stack["loop"] :
               /\ stack["loop"][k].span \in DOMAIN spans /\ stack["loop"][k].span \in Nat
               /\ stack["loop"][k].span <= current["loop"]
<1> DEFINE s == stack["loop"]
           n == Len(s)
<1>1. s \in Seq(StackEntry) /\ n \in Nat /\ n # 0 /\ DOMAIN s = 1..n /\ n \in 1..n
  BY DEF LoopInv
<1>2. current["loop"] = s[n].span
  BY DEF LoopInv, Last
<1>3. \A k \in 1..n : s[k].span \in DOMAIN spans /\ s[k].span # Root /\ spans[s[k].span].to = NoSpan
  BY <1>1 DEF LoopInv
<1>4. \A i \in DOMAIN spans : i \in Nat /\ i # 0
  BY DEF SpanInv
<1>5. \A k, l \in 1..n : k < l => s[k].span < s[l].span
  BY <1>1 DEF LoopInv
<1> HIDE DEF s, n
<1>6. ASSUME NEW k \in 1..n PROVE s[k].span <= s[n].span
  <2>1. CASE k = n
    BY <2>1, <1>1, <1>3, <1>4
  <2>2. CASE k # n
    BY <2>2, <1>1, <1>3, <1>4, <1>5
  <2> QED BY <2>1, <2>2
<1> QED BY <1>1, <1>2, <1>3, <1>4, <1>6 DEF s, NoSpan

\* A thread of run_inference calls its inference server.
LEMMA SubmitStep ==
  ASSUME TraceInv, NEW w \in Workers, Submit(w)
  PROVE  TraceInv'
<1> DEFINE name == IF w = "primary" THEN "_submit_primary_inference" ELSE "_submit_oodd_inference"
           q == current["loop"]
           new == Len(spans) + 1
           entry == [span |-> new, token |-> q]
<1>0. SpanInv /\ LoopInv /\ WorkerInv /\ OpenInv
  BY DEF TraceInv
<1>1. "loop" \in Threads /\ w # "loop" /\ w \in Threads /\ "loop" \notin Workers /\ Workers \subseteq Threads
  BY DEF Threads, Workers
<1>2. /\ stack[w] = <<>> /\ request = "handled" /\ forked[w] = "running"
      /\ spans' = Append(spans, Span(name, IF current[w] = NoSpan THEN Root ELSE current[w]))
      /\ stack' = [stack EXCEPT ![w] = Append(stack[w], [span |-> new, token |-> current[w]])]
      /\ current' = [current EXCEPT ![w] = new]
      /\ UNCHANGED <<now, forked, request>>
  BY <1>1 DEF Submit, Enter, Running
<1>3. stack["loop"] # <<>> /\ spans[q].name = "run_inference" /\ current[w] = q
  <2>1. \A e : <<e>> # <<>>
    OBVIOUS
  <2> QED BY <2>1, <1>0, <1>2 DEF WorkerInv
<1>4. /\ q \in DOMAIN spans /\ spans[q].to = NoSpan /\ q \in Nat /\ q # NoSpan
      /\ \A k \in DOMAIN stack["loop"] : stack["loop"][k].span \in DOMAIN spans
  BY <1>0, <1>3, LoopTop
<1>5. spans' = Append(spans, Span(name, q))
  BY <1>2, <1>3, <1>4
<1>6. name \in SpanNames
  BY DEF SpanNames, InferenceCallSpanNames
<1> HIDE DEF name, q
<1>7. /\ SpanInv' /\ Len(spans) \in Nat
      /\ DOMAIN spans = 1..Len(spans) /\ DOMAIN spans' = 1..new
      /\ \A i \in 1..Len(spans) : spans'[i] = spans[i]
      /\ spans'[new].to = NoSpan /\ spans'[new].parent = q
  BY <1>0, <1>2, <1>3, <1>4, <1>5, <1>6, SpanOpened
<1>8. /\ new \in Nat /\ new \in DOMAIN spans' /\ new \notin DOMAIN spans
      /\ \A i \in DOMAIN spans : i \in DOMAIN spans' /\ spans'[i] = spans[i]
      /\ \A i \in DOMAIN spans' : i = new \/ i \in DOMAIN spans
  BY <1>7
<1> HIDE DEF new
<1>9. /\ stack'[w] = <<entry>> /\ stack'[w] # <<>> /\ DOMAIN stack' = Threads
      /\ \A t \in Threads \ {w} : stack'[t] = stack[t]
  BY <1>0, <1>1, <1>2, <1>3 DEF OpenInv
<1>10. /\ current'[w] = new /\ current' \in [Threads -> Nat]
       /\ \A t \in Threads \ {w} : current'[t] = current[t]
  BY <1>0, <1>1, <1>2, <1>8 DEF OpenInv
<1>11. LoopInv'
  BY <1>0, <1>1, <1>4, <1>8, <1>9, <1>10, LoopKept
<1>12. WorkerInv'
  <2>1. current'["loop"] = q /\ stack'["loop"] # <<>> /\ spans'[q].name = "run_inference"
    BY <1>1, <1>3, <1>4, <1>8, <1>9, <1>10 DEF q
  <2>2. \A v \in Workers \ {w} : /\ stack'[v] = stack[v] /\ current'[v] = current[v]
                                 /\ stack[v] # <<>> => current[v] \in DOMAIN spans
    BY <1>0, <1>1, <1>9, <1>10 DEF WorkerInv
  <2>3. ASSUME NEW v \in Workers \ {w}
        PROVE  /\ forked'[v] # "running" => stack'[v] = <<>>
               /\ forked'[v] = "running" =>
                     \/ stack'[v] = <<>> /\ current'[v] = current'["loop"]
                     \/ /\ stack'[v] = <<[span |-> current'[v], token |-> current'["loop"]]>>
                        /\ current'[v] \in DOMAIN spans' /\ spans'[current'[v]].to = NoSpan
                        /\ spans'[current'[v]].parent = current'["loop"]
    BY <1>0, <1>2, <1>8, <2>1, <2>2 DEF WorkerInv, q
  <2>4. ASSUME NEW u \in Workers, NEW v \in Workers \ {u}, stack'[v] # <<>>, stack'[u] # <<>>
        PROVE  current'[v] # current'[u]
    <3>1. CASE u = w
      BY <3>1, <2>2, <2>4, <1>8, <1>10
    <3>2. CASE v = w
      BY <3>2, <2>2, <2>4, <1>8, <1>10
    <3>3. CASE u # w /\ v # w
      BY <3>3, <2>2, <2>4, <1>0 DEF WorkerInv
    <3> QED BY <3>1, <3>2, <3>3
  <2> QED BY <2>1, <2>3, <2>4, <1>2, <1>7, <1>8, <1>9, <1>10 DEF WorkerInv, q
<1>13. OpenInv'
  <2>1. Root \in DOMAIN spans' /\ spans'[Root].to = NoSpan
    BY <1>0, <1>2, <1>8 DEF OpenInv
  <2>2. ASSUME NEW i \in DOMAIN spans', spans'[i].to = NoSpan
        PROVE  \/ i = Root
               \/ \E k \in DOMAIN stack'["loop"] : stack'["loop"][k].span = i
               \/ \E v \in Workers : stack'[v] # <<>> /\ current'[v] = i
    <3>1. CASE i = new
      BY <3>1, <1>9, <1>10
    <3>2. CASE i \in DOMAIN spans
      <4>1. \/ i = Root
            \/ \E k \in DOMAIN stack["loop"] : stack["loop"][k].span = i
            \/ \E v \in Workers \ {w} : stack[v] # <<>> /\ current[v] = i
        BY <3>2, <2>2, <1>0, <1>2, <1>8 DEF OpenInv
      <4> QED BY <4>1, <1>1, <1>9, <1>10
    <3> QED BY <3>1, <3>2, <1>8
  <2> QED BY <2>1, <2>2, <1>0, <1>2, <1>9, <1>10 DEF OpenInv
<1> QED BY <1>7, <1>11, <1>12, <1>13 DEF TraceInv

\* A call of the event loop returns or raises.
LEMMA LeaveLoopStep == ASSUME TraceInv, Leave("loop") PROVE TraceInv'
<1> DEFINE s == stack["loop"]
           n == Len(s)
           top == s[n].span
<1>0. SpanInv /\ LoopInv /\ WorkerInv /\ OpenInv
  BY DEF TraceInv
<1>1. "loop" \in Threads /\ "loop" \notin Workers /\ Workers \subseteq Threads
  BY DEF Threads, Workers
<1>2. /\ s # <<>> /\ request = "handled" /\ \A w \in Workers : forked[w] # "running"
      /\ spans' = [spans EXCEPT ![top] = [spans[top] EXCEPT !.to = now]]
      /\ stack' = [stack EXCEPT !["loop"] = Front(s)]
      /\ current' = [current EXCEPT !["loop"] = s[n].token]
      /\ UNCHANGED <<now, forked, request>>
  BY <1>1 DEF Leave, Running, Last
<1>3. \A w \in Workers : stack[w] = <<>>
  BY <1>0, <1>2 DEF WorkerInv
<1>4. s \in Seq(StackEntry) /\ n \in Nat /\ n > 0 /\ DOMAIN s = 1..n /\ n \in 1..n
  BY <1>0, <1>2 DEF LoopInv
<1>5. ASSUME NEW k \in 1..n
      PROVE  /\ s[k].span \in DOMAIN spans /\ s[k].span # Root /\ spans[s[k].span].to = NoSpan
             /\ s[k].token = IF k = 1 THEN NoSpan ELSE s[k - 1].span
             /\ spans[s[k].span].parent = IF k = 1 THEN Root ELSE s[k - 1].span
             /\ k # 1 => k - 1 \in 1..n /\ k - 1 < n
             /\ s[k].token \in Nat /\ s[k].span \in Nat
  <2>1. s[k] \in StackEntry
    BY <1>4
  <2>2. s[k].token \in Nat /\ s[k].span \in Nat
    BY <2>1 DEF StackEntry
  <2> QED BY <2>2, <1>0, <1>4 DEF LoopInv
<1>6. \A k, l \in 1..n : k < l => s[k].span < s[l].span
  BY <1>0, <1>4 DEF LoopInv
<1>7. \A k \in 1..n : k # n => s[k].span # top
  BY <1>4, <1>5, <1>6
<1>8. ASSUME NEW i \in DOMAIN spans, spans[i].to = NoSpan
      PROVE  i = Root \/ \E k \in 1..n : s[k].span = i
  BY <1>0, <1>3, <1>4, <1>8 DEF OpenInv
<1>9. ASSUME NEW i \in DOMAIN spans, spans[i].parent = top PROVE spans[i].to # NoSpan
  <2> SUFFICES ASSUME spans[i].to = NoSpan PROVE FALSE
    OBVIOUS
  <2>1. top # NoSpan /\ top # Root
    <3>1. \A j \in DOMAIN spans : j # 0
      BY <1>0 DEF SpanInv
    <3> QED BY <3>1, <1>4, <1>5 DEF NoSpan
  <2>2. i # Root
    BY <2>1, <1>0, <1>9 DEF SpanInv, Nested
  <2>3. PICK k \in 1..n : s[k].span = i
    BY <2>2, <1>8
  <2>4. k # 1 /\ s[k - 1].span = top
    BY <2>1, <2>3, <1>5, <1>9
  <2>5. k - 1 \in 1..n /\ k - 1 # n
    BY <2>4, <1>4, <1>5
  <2> QED BY <2>4, <2>5, <1>7
<1>10. top \in DOMAIN spans /\ spans[top].to = NoSpan
  BY <1>4, <1>5
<1> HIDE DEF top
<1>11. /\ SpanInv' /\ DOMAIN spans' = DOMAIN spans /\ spans'[top].to # NoSpan
       /\ \A i \in DOMAIN spans \ {top} : spans'[i] = spans[i]
  BY <1>0, <1>2, <1>9, <1>10, SpanClosed
<1> DEFINE f == Front(s)
<1>12. f \in Seq(StackEntry) /\ Len(f) = n - 1 /\ \A k \in 1..(n - 1) : f[k] = s[k]
  BY <1>4, FrontFacts
<1>13. DOMAIN f = 1..(n - 1) /\ (n = 1 => f = <<>>) /\ (n # 1 => f # <<>> /\ n - 1 \in 1..n)
  <2> HIDE DEF f, s, n
  <2>1. Len(f) \in Nat /\ DOMAIN f = 1..Len(f) /\ (f = <<>> <=> Len(f) = 0)
    <3>1. f \in Seq(StackEntry)
      BY <1>12
    <3> QED BY <3>1, EmptySeq
  <2> QED BY <2>1, <1>4, <1>12
<1> HIDE DEF f
<1>14. /\ stack'["loop"] = f /\ DOMAIN stack' = Threads
       /\ \A w \in Workers : stack'[w] = <<>>
  BY <1>0, <1>1, <1>2, <1>3 DEF OpenInv, f
<1>15. current'["loop"] = (IF n = 1 THEN NoSpan ELSE s[n - 1].span) /\ current' \in [Threads -> Nat]
  BY <1>0, <1>1, <1>2, <1>4, <1>5 DEF OpenInv
<1>16. LoopInv'
  <2>1. current'["loop"] = IF f = <<>> THEN NoSpan ELSE Last(f).span
    <3>1. n # 1 => Last(f) = s[n - 1]
      BY <1>4, <1>12, <1>13 DEF Last
    <3> QED BY <3>1, <1>13, <1>15
  <2>2. ASSUME NEW k \in 1..(n - 1)
        PROVE  /\ f[k].span \in DOMAIN spans' /\ f[k].span # Root /\ spans'[f[k].span].to = NoSpan
               /\ f[k].token = IF k = 1 THEN NoSpan ELSE f[k - 1].span
               /\ spans'[f[k].span].parent = IF k = 1 THEN Root ELSE f[k - 1].span
    <3>1. k \in 1..n /\ k # n /\ (k # 1 => k - 1 \in 1..(n - 1))
      BY <1>4
    <3>2. f[k] = s[k] /\ (k # 1 => f[k - 1] = s[k - 1])
      BY <3>1, <1>12
    <3>3. spans'[s[k].span] = spans[s[k].span]
      BY <3>1, <1>5, <1>7, <1>11
    <3> QED BY <3>1, <3>2, <3>3, <1>5, <1>11
  <2>3. \A k, l \in 1..(n - 1) : k < l => f[k].span < f[l].span
    <3>1. \A k \in 1..(n - 1) : k \in 1..n
      BY <1>4
    <3> QED BY <3>1, <1>6, <1>12
  <2> HIDE DEF s, n
  <2> QED BY <2>1, <2>2, <2>3, <1>12, <1>13, <1>14 DEF LoopInv
<1>17. WorkerInv'
  BY <1>2, <1>14 DEF WorkerInv
<1>18. OpenInv'
  <2>1. Root \in DOMAIN spans' /\ spans'[Root].to = NoSpan
    <3>1. Root # top
      BY <1>4, <1>5 DEF top
    <3> QED BY <3>1, <1>0, <1>2, <1>11 DEF OpenInv
  <2>2. ASSUME NEW i \in DOMAIN spans', spans'[i].to = NoSpan
        PROVE  i = Root \/ \E k \in DOMAIN f : f[k].span = i
    <3>1. i \in DOMAIN spans /\ i # top /\ spans[i].to = NoSpan
      BY <2>2, <1>11
    <3>2. CASE i # Root
      <4>1. PICK k \in 1..n : s[k].span = i
        BY <3>1, <3>2, <1>8
      <4>2. k # n
        BY <3>1, <4>1 DEF top
      <4>3. k \in 1..(n - 1)
        BY <4>2, <1>4
      <4> QED BY <4>1, <4>3, <1>12, <1>13
    <3> QED BY <3>2
  <2> QED BY <2>1, <2>2, <1>0, <1>2, <1>14, <1>15 DEF OpenInv
<1> QED BY <1>11, <1>16, <1>17, <1>18 DEF TraceInv

\* The call of a thread of run_inference returns or raises; the thread is done.
LEMMA LeaveWorkerStep == ASSUME TraceInv, NEW w \in Workers, Leave(w) PROVE TraceInv'
<1> DEFINE s == stack["loop"]
           q == current["loop"]
           top == current[w]
<1>0. SpanInv /\ LoopInv /\ WorkerInv /\ OpenInv
  BY DEF TraceInv
<1>1. "loop" \in Threads /\ w # "loop" /\ w \in Threads /\ "loop" \notin Workers /\ Workers \subseteq Threads
  BY DEF Threads, Workers
<1>2. stack[w] # <<>> /\ request = "handled" /\ forked[w] = "running"
  BY <1>1 DEF Leave, Running
<1>3. /\ s # <<>> /\ spans[q].name = "run_inference"
      /\ stack[w] = <<[span |-> top, token |-> q]>>
      /\ top \in DOMAIN spans /\ spans[top].to = NoSpan /\ spans[top].parent = q
  BY <1>0, <1>2 DEF WorkerInv
<1>4. Len(stack[w]) = 1 /\ Last(stack[w]).span = top /\ Last(stack[w]).token = q /\ Front(stack[w]) = <<>>
  <2>1. Len(stack[w]) = 1 /\ stack[w][1] = [span |-> top, token |-> q]
    BY <1>3
  <2>2. Front(stack[w]) = <<>>
    BY <2>1, SubSeqEmpty DEF Front
  <2> QED BY <2>1, <2>2 DEF Last
<1>5. /\ spans' = [spans EXCEPT ![top] = [spans[top] EXCEPT !.to = now]]
      /\ stack' = [stack EXCEPT ![w] = <<>>]
      /\ current' = [current EXCEPT ![w] = q]
      /\ forked' = [forked EXCEPT ![w] = "done"]
      /\ UNCHANGED <<now, request>>
  BY <1>4 DEF Leave
<1>6. /\ q \in DOMAIN spans /\ q \in Nat /\ q # NoSpan /\ q # Root
      /\ \A k \in DOMAIN s : s[k].span \in DOMAIN spans /\ s[k].span \in Nat /\ s[k].span <= q
  BY <1>0, <1>3, LoopTop
<1>7. top # Root /\ top \in Nat /\ q < top
  <2>1. Nested(spans, top, now) /\ top \in Nat
    BY <1>0, <1>3 DEF SpanInv
  <2>2. top # Root
    BY <2>1, <1>3, <1>6 DEF Nested
  <2> QED BY <2>1, <2>2, <1>3, <1>6 DEF Nested
<1>8. \A k \in DOMAIN s : s[k].span # top
  BY <1>6, <1>7
<1>9. ASSUME NEW i \in DOMAIN spans, spans[i].parent = top PROVE spans[i].to # NoSpan
  <2> SUFFICES ASSUME spans[i].to = NoSpan PROVE FALSE
    OBVIOUS
  <2>1. \/ i = Root \/ (\E k \in DOMAIN s : s[k].span = i)
        \/ \E v \in Workers : stack[v] # <<>> /\ current[v] = i
    BY <1>0 DEF OpenInv
  <2>2. CASE i = Root
    <3>1. spans[i].parent = NoSpan
      BY <2>2, <1>0 DEF SpanInv, Nested
    <3> QED BY <3>1, <1>7, <1>6, <1>9 DEF NoSpan
  <2>3. CASE \E k \in DOMAIN s : s[k].span = i
    <3>1. PICK k \in DOMAIN s : s[k].span = i
      BY <2>3
    <3>2. /\ spans[i].parent = IF k = 1 THEN Root ELSE s[k - 1].span
          /\ k # 1 => k - 1 \in DOMAIN s
      BY <3>1, <1>0 DEF LoopInv
    <3> QED BY <3>2, <1>7, <1>8, <1>9
  <2>4. CASE \E v \in Workers : stack[v] # <<>> /\ current[v] = i
    <3>1. spans[i].parent = q
      BY <2>4, <1>0 DEF WorkerInv
    <3> QED BY <3>1, <1>6, <1>7, <1>9
  <2> QED BY <2>1, <2>2, <2>3, <2>4
<1> HIDE DEF q, top
<1>10. /\ SpanInv' /\ DOMAIN spans' = DOMAIN spans /\ spans'[top].to # NoSpan
       /\ \A i \in DOMAIN spans \ {top} : spans'[i] = spans[i]
  BY <1>0, <1>3, <1>5, <1>9, SpanClosed
<1>11. /\ stack'[w] = <<>> /\ DOMAIN stack' = Threads /\ \A t \in Threads \ {w} : stack'[t] = stack[t]
       /\ current'[w] = q /\ current' \in [Threads -> Nat]
       /\ \A t \in Threads \ {w} : current'[t] = current[t]
       /\ forked'[w] = "done" /\ DOMAIN forked' = Workers
       /\ \A v \in Workers \ {w} : forked'[v] = forked[v]
  BY <1>0, <1>1, <1>5, <1>6 DEF OpenInv
<1>12. LoopInv'
  BY <1>0, <1>1, <1>6, <1>8, <1>10, <1>11, LoopKept
<1>13. WorkerInv'
  <2>1. current'["loop"] = q /\ stack'["loop"] # <<>> /\ spans'[q].name = "run_inference"
    <3>1. q # top /\ "loop" \in Threads \ {w}
      BY <1>1, <1>6, <1>7
    <3>2. spans'[q] = spans[q] /\ stack'["loop"] = s /\ current'["loop"] = current["loop"]
      BY <3>1, <1>6, <1>10, <1>11
    <3> QED BY <3>2, <1>3 DEF q
  <2>2. \A v \in Workers \ {w} : /\ stack'[v] = stack[v] /\ current'[v] = current[v]
                                 /\ forked'[v] = forked[v]
                                 /\ stack[v] # <<>> => current[v] # top
    BY <1>0, <1>1, <1>2, <1>11 DEF WorkerInv, top
  <2>3. ASSUME NEW v \in Workers \ {w}
        PROVE  /\ forked'[v] # "running" => stack'[v] = <<>>
               /\ forked'[v] = "running" =>
                     \/ stack'[v] = <<>> /\ current'[v] = current'["loop"]
                     \/ /\ stack'[v] = <<[span |-> current'[v], token |-> current'["loop"]]>>
                        /\ current'[v] \in DOMAIN spans' /\ spans'[current'[v]].to = NoSpan
                        /\ spans'[current'[v]].parent = current'["loop"]
    <3>1. /\ stack'[v] = stack[v] /\ current'[v] = current[v] /\ forked'[v] = forked[v]
          /\ stack[v] # <<>> => current[v] # top
      BY <2>2
    <3>2. current'["loop"] = q
      BY <2>1
    <3>3. /\ forked[v] # "running" => stack[v] = <<>>
          /\ forked[v] = "running" =>
                \/ stack[v] = <<>> /\ current[v] = q
                \/ /\ stack[v] = <<[span |-> current[v], token |-> q]>>
                   /\ current[v] \in DOMAIN spans /\ spans[current[v]].to = NoSpan
                   /\ spans[current[v]].parent = q
      BY <1>0 DEF WorkerInv, q
    <3>4. ASSUME stack[v] = <<[span |-> current[v], token |-> q]>> PROVE stack[v] # <<>>
      BY <3>4
    <3>5. \A i \in DOMAIN spans \ {top} : i \in DOMAIN spans' /\ spans'[i] = spans[i]
      BY <1>10
    <3> QED BY <3>1, <3>2, <3>3, <3>4, <3>5
  <2>4. \A u \in Workers : \A v \in Workers \ {u} :
           stack'[v] # <<>> /\ stack'[u] # <<>> => current'[v] # current'[u]
    <3> TAKE u \in Workers
    <3> TAKE v \in Workers \ {u}
    <3>1. CASE u = w \/ v = w
      BY <3>1, <1>11
    <3>2. CASE u # w /\ v # w
      <4>1. /\ stack'[u] = stack[u] /\ current'[u] = current[u]
            /\ stack'[v] = stack[v] /\ current'[v] = current[v]
        BY <3>2, <2>2
      <4>2. stack[v] # <<>> /\ stack[u] # <<>> => current[v] # current[u]
        BY <1>0 DEF WorkerInv
      <4> QED BY <4>1, <4>2
    <3> QED BY <3>1, <3>2
  <2> QED BY <2>1, <2>3, <2>4, <1>11 DEF WorkerInv
<1>14. OpenInv'
  <2>1. Root \in DOMAIN spans' /\ spans'[Root].to = NoSpan
    BY <1>0, <1>2, <1>7, <1>10 DEF OpenInv
  <2>2. ASSUME NEW i \in DOMAIN spans', spans'[i].to = NoSpan
        PROVE  \/ i = Root
               \/ \E k \in DOMAIN stack'["loop"] : stack'["loop"][k].span = i
               \/ \E v \in Workers : stack'[v] # <<>> /\ current'[v] = i
    <3>1. i \in DOMAIN spans /\ i # top /\ spans[i].to = NoSpan
      BY <2>2, <1>10
    <3>2. \/ i = Root
          \/ \E k \in DOMAIN stack["loop"] : stack["loop"][k].span = i
          \/ \E v \in Workers \ {w} : stack[v] # <<>> /\ current[v] = i
      BY <3>1, <1>0 DEF OpenInv, top
    <3> QED BY <3>2, <1>1, <1>11
  <2> QED BY <2>1, <2>2, <1>2, <1>5, <1>11 DEF OpenInv
<1> QED BY <1>10, <1>12, <1>13, <1>14 DEF TraceInv

\* The steps of the other parts leave the trace alone.
LEMMA ProfilingFrame == [Next]_vars => ProfilingNext \/ UNCHANGED profilingVars
  BY DEF Next, vars, DeviceStep, ResultStep, ActivityStep, ResourceStep, StatusStep,
         ProfilingStep, StoreStep, BenchmarkStep

\* The stacks of the three threads and the spans they hold open.
THEOREM TraceInductive == Spec => []TraceInv
<1>1. Init => TraceInv
  <2> SUFFICES ASSUME Init PROVE TraceInv
    OBVIOUS
  <2>1. /\ now = 1 /\ spans = <<>> /\ request = "none"
        /\ current = [t \in Threads |-> NoSpan] /\ stack = [t \in Threads |-> <<>>]
        /\ forked = [t \in Workers |-> "no"]
    BY DEF Init, ProfilingInit
  <2>2. "loop" \in Threads /\ Workers \subseteq Threads /\ DOMAIN <<>> = {}
    BY DEF Threads, Workers
  <2>3. SpanInv
    BY <2>1, <2>2 DEF SpanInv
  <2>4. LoopInv
    BY <2>1, <2>2 DEF LoopInv
  <2>5. WorkerInv
    BY <2>1, <2>2 DEF WorkerInv
  <2>6. OpenInv
    BY <2>1, <2>2 DEF OpenInv, NoSpan
  <2> QED BY <2>3, <2>4, <2>5, <2>6 DEF TraceInv
<1>2. TraceInv /\ [Next]_vars => TraceInv'
  <2>1. TraceInv /\ UNCHANGED <<now, spans, current, stack, forked, request>> => TraceInv'
    BY DEF TraceInv, SpanInv, LoopInv, WorkerInv, OpenInv
  <2>2. UNCHANGED profilingVars \/ SendResponse => UNCHANGED <<now, spans, current, stack, forked, request>>
    BY DEF profilingVars, SendResponse
  <2>3. \A t \in Threads : t = "loop" \/ t \in Workers
    BY DEF Threads, Workers
  <2> QED BY <2>1, <2>2, <2>3, ProfilingFrame, StartStep, ForkStep, FinishStep, TimeStep,
             EnterLoopStep, SubmitStep, LeaveLoopStep, LeaveWorkerStep DEF ProfilingNext
<1> QED BY <1>1, <1>2, PTL DEF Spec

\* For any number of nested calls and any interleaving of the request's thread with the two
\* that run_inference forks: trace_span's context variables give every span the parent it
\* ran in, and a recorded trace is a tree of finished spans each within its parent's time.
THEOREM RecordedTracesAreTrees == Spec => []TreeOfSpans
<1>1. ASSUME TraceInv PROVE TreeOfSpans
  <2>1. ASSUME NEW t \in Threads, stack[t] # <<>> PROVE current[t] = Last(stack[t]).span
    <3>1. CASE t = "loop"
      BY <1>1, <2>1, <3>1 DEF TraceInv, LoopInv
    <3>2. CASE t \in Workers
      <4>1. stack[t] = <<[span |-> current[t], token |-> current["loop"]]>>
        BY <1>1, <2>1, <3>2 DEF TraceInv, WorkerInv
      <4>2. Len(stack[t]) = 1 /\ stack[t][1].span = current[t]
        BY <4>1
      <4> QED BY <4>2 DEF Last
    <3> QED BY <3>1, <3>2 DEF Threads, Workers
  <2>2. ASSUME request = "recorded", NEW i \in DOMAIN spans
        PROVE  /\ spans[i].to >= spans[i].from
               /\ spans[i].parent = NoSpan <=> i = Root
               /\ i # Root => LET p == spans[spans[i].parent]
                              IN  spans[i].parent < i /\ p.from <= spans[i].from /\ spans[i].to <= p.to
               /\ spans[i].name \in InferenceCallSpanNames => spans[spans[i].parent].name = "run_inference"
    <3>1. spans \in Seq(SpanRecord) /\ Nested(spans, i, now) /\ i \in Nat
      BY <1>1 DEF TraceInv, SpanInv
    <3>2. \A j \in DOMAIN spans : spans[j].to # NoSpan
      BY <1>1, <2>2 DEF TraceInv, OpenInv
    <3>3. spans[i] \in SpanRecord
      BY <3>1
    <3>4. spans[i].to \in Nat /\ spans[i].from \in Nat
      BY <3>3 DEF SpanRecord
    <3>5. i # Root => spans[i].parent \in DOMAIN spans /\ spans[i].parent < i
      <4>1. DOMAIN spans = 1..Len(spans) /\ Len(spans) \in Nat
        BY <3>1
      <4> QED BY <3>1, <4>1 DEF Nested
    <3> QED BY <3>1, <3>2, <3>4, <3>5 DEF Nested
  <2> QED BY <2>1, <2>2 DEF TreeOfSpans
<1> QED BY <1>1, TraceInductive, PTL

-----------------------------------------------------------------------------
(* The time of the edge pod. *)

\* Two intervals joined in order.
LEMMA JoinedOne ==
  ASSUME NEW s, DOMAIN s = 1..1, Len(s) = 1
  PROVE  Joined(s) = [sum |-> 0, from |-> s[1][1], to |-> s[1][2]]
<1> DEFINE first == [sum |-> 0, from |-> s[1][1], to |-> s[1][2]]
           Is(f) == f = [i \in DOMAIN s |-> IF i = 1 THEN first ELSE Join(f[i - 1], s[i])]
           f == CHOOSE f : Is(f)
<1>1. Is([i \in 1..1 |-> first])
  OBVIOUS
<1>2. Is(f)
  BY <1>1
<1>3. Joined(s) = f[1]
  BY DEF Joined
<1> HIDE DEF f
<1>4. f[1] = first
  BY <1>2
<1> QED BY <1>3, <1>4

LEMMA JoinedTwo ==
  ASSUME NEW s, DOMAIN s = 1..2, Len(s) = 2
  PROVE  Joined(s) = Join([sum |-> 0, from |-> s[1][1], to |-> s[1][2]], s[2])
<1> DEFINE first == [sum |-> 0, from |-> s[1][1], to |-> s[1][2]]
           Is(f) == f = [i \in DOMAIN s |-> IF i = 1 THEN first ELSE Join(f[i - 1], s[i])]
           f == CHOOSE f : Is(f)
           g == [i \in 1..2 |-> IF i = 1 THEN first ELSE Join(first, s[i])]
<1>1. Is(g)
  <2> HIDE DEF first
  <2>1. g[1] = first
    OBVIOUS
  <2>2. \A i \in 1..2 : i = 1 \/ (i # 1 /\ i - 1 = 1)
    OBVIOUS
  <2>3. g = [i \in 1..2 |-> IF i = 1 THEN first ELSE Join(g[i - 1], s[i])]
    BY <2>1, <2>2
  <2> QED BY <2>3
<1>2. Is(f)
  BY <1>1
<1>3. Joined(s) = f[2]
  BY DEF Joined
<1> HIDE DEF f, first
<1>4. f[1] = first
  BY <1>2
<1>5. f[2] = Join(f[2 - 1], s[2])
  BY <1>2
<1>6. 2 - 1 = 1
  OBVIOUS
<1> QED BY <1>3, <1>4, <1>5, <1>6 DEF first

\* The numbers from a up to b and the part of them in between.
UpTo(a, b) == a .. (b - 1)

LEMMA UpToSize ==
  ASSUME NEW a \in Nat, NEW b \in Nat, a <= b
  PROVE  IsFiniteSet(UpTo(a, b)) /\ Cardinality(UpTo(a, b)) = b - a
<1>1. a \in Int /\ b - 1 \in Int
  OBVIOUS
<1>2. IsFiniteSet(a .. (b - 1)) /\ Cardinality(a .. (b - 1)) = IF a > b - 1 THEN 0 ELSE (b - 1) - a + 1
  BY <1>1, FS_Interval
<1> QED BY <1>2 DEF UpTo

\* Intervals within f and t.
Interval(iv, f, t) == \E a \in Nat, b \in Nat : iv = <<a, b>> /\ f <= a /\ a < b /\ b <= t

\* The time that one or two intervals take together, as they are joined, is that of the
\* numbers in them.
Covered(ivs, f, t) == {x \in UpTo(f, t) : \E iv \in ivs : iv[1] <= x /\ x < iv[2]}

Together(ivs) ==
    LET all == Joined(InOrder(ivs))
    IN  all.sum + (all.to - all.from)

LEMMA OneTogether ==
  ASSUME NEW f \in Nat, NEW t \in Nat, NEW x, Interval(x, f, t)
  PROVE  IsFiniteSet(Covered({x}, f, t)) /\ Together({x}) = Cardinality(Covered({x}, f, t))
<1>1. PICK a \in Nat, b \in Nat : x = <<a, b>> /\ f <= a /\ a < b /\ b <= t
  BY DEF Interval
<1>2. Covered({x}, f, t) = UpTo(a, b)
  BY <1>1 DEF Covered, UpTo
<1> DEFINE s == InOrder({x})
<1>3. Cardinality({x}) = 1
  BY FS_Singleton
<1>4. \E r \in [1..1 -> {x}] : \A i, j \in DOMAIN r : i < j => Before(r[i], r[j])
  <2>1. [i \in 1..1 |-> x] \in [1..1 -> {x}] /\ \A i, j \in 1..1 : ~(i < j)
    OBVIOUS
  <2> QED BY <2>1
<1>5. s \in [1..1 -> {x}]
  BY <1>3, <1>4 DEF InOrder
<1> HIDE DEF s
<1>6. DOMAIN s = 1..1 /\ Len(s) = 1 /\ s[1] = x
  BY <1>5
<1>7. Joined(s) = [sum |-> 0, from |-> a, to |-> b]
  BY <1>1, <1>6, JoinedOne
<1>8. Together({x}) = b - a
  BY <1>1, <1>7 DEF Together, s
<1> QED BY <1>1, <1>2, <1>8, UpToSize

LEMMA TwoTogether ==
  ASSUME NEW f \in Nat, NEW t \in Nat, NEW x, NEW y, Interval(x, f, t), Interval(y, f, t), Before(x, y)
  PROVE  IsFiniteSet(Covered({x, y}, f, t)) /\ Together({x, y}) = Cardinality(Covered({x, y}, f, t))
<1>1. PICK a \in Nat, b \in Nat : x = <<a, b>> /\ f <= a /\ a < b /\ b <= t
  BY DEF Interval
<1>2. PICK c \in Nat, d \in Nat : y = <<c, d>> /\ f <= c /\ c < d /\ d <= t
  BY DEF Interval
<1>3. /\ a < c \/ (a = c /\ b < d)
      /\ ~Before(y, x) /\ ~Before(x, x) /\ ~Before(y, y) /\ x # y
  BY <1>1, <1>2 DEF Before
<1> DEFINE s == InOrder({x, y})
<1>4. Cardinality({x, y}) = 2
  <2>1. IsFiniteSet({x}) /\ Cardinality({x}) = 1
    BY FS_Singleton
  <2>2. {x, y} = {x} \cup {y} /\ y \notin {x}
    BY <1>3
  <2>3. Cardinality({x} \cup {y}) = Cardinality({x}) + 1
    BY <2>1, <2>2, FS_AddElement
  <2> QED BY <2>1, <2>2, <2>3
<1>5. \E r \in [1..2 -> {x, y}] : \A i, j \in DOMAIN r : i < j => Before(r[i], r[j])
  <2> DEFINE r == [i \in 1..2 |-> IF i = 1 THEN x ELSE y]
  <2>1. r \in [1..2 -> {x, y}] /\ r[1] = x /\ r[2] = y /\ DOMAIN r = 1..2
    OBVIOUS
  <2>2. \A i, j \in 1..2 : i < j => i = 1 /\ j = 2
    OBVIOUS
  <2> HIDE DEF r
  <2>3. \A i, j \in DOMAIN r : i < j => Before(r[i], r[j])
    BY <2>1, <2>2
  <2> QED BY <2>1, <2>3
<1>6. s \in [1..2 -> {x, y}] /\ \A i, j \in DOMAIN s : i < j => Before(s[i], s[j])
  BY <1>4, <1>5 DEF InOrder
<1> HIDE DEF s
<1>7. DOMAIN s = 1..2 /\ Len(s) = 2 /\ s[1] = x /\ s[2] = y
  <2>1. DOMAIN s = 1..2 /\ s[1] \in {x, y} /\ s[2] \in {x, y}
    BY <1>6
  <2>2. Before(s[1], s[2])
    BY <1>6, <2>1
  <2>3. Len(s) = 2
    BY <1>6
  <2> QED BY <1>3, <2>1, <2>2, <2>3
<1>8. Joined(s) = Join([sum |-> 0, from |-> a, to |-> b], y)
  BY <1>1, <1>7, JoinedTwo
<1>9. CASE c <= b
  <2> DEFINE m == IF d > b THEN d ELSE b
  <2>1. m \in Nat /\ a <= m
    BY <1>1, <1>2
  <2>2. Covered({x, y}, f, t) = UpTo(a, m)
    BY <1>1, <1>2, <1>3, <1>9 DEF Covered, UpTo
  <2>3. Joined(s) = [sum |-> 0, from |-> a, to |-> m]
    BY <1>2, <1>8, <1>9 DEF Join
  <2> HIDE DEF m
  <2>4. Together({x, y}) = m - a
    BY <2>1, <2>3 DEF Together, s
  <2> QED BY <2>1, <2>2, <2>4, UpToSize
<1>10. CASE b < c
  <2>1. Covered({x, y}, f, t) = UpTo(a, b) \cup UpTo(c, d)
    BY <1>1, <1>2, <1>10 DEF Covered, UpTo
  <2>2. UpTo(a, b) \cap UpTo(c, d) = {}
    BY <1>1, <1>2, <1>10 DEF UpTo
  <2>3. /\ IsFiniteSet(UpTo(a, b)) /\ Cardinality(UpTo(a, b)) = b - a
        /\ IsFiniteSet(UpTo(c, d)) /\ Cardinality(UpTo(c, d)) = d - c
    BY <1>1, <1>2, UpToSize
  <2>4. /\ IsFiniteSet(UpTo(a, b) \cup UpTo(c, d))
        /\ Cardinality(UpTo(a, b) \cup UpTo(c, d)) = (b - a) + (d - c)
    <3> DEFINE A == UpTo(a, b)
               B == UpTo(c, d)
    <3> HIDE DEF A, B
    <3>1. IsFiniteSet(A) /\ IsFiniteSet(B) /\ A \cap B = {} /\ Cardinality(A) = b - a /\ Cardinality(B) = d - c
      BY <2>2, <2>3 DEF A, B
    <3>2. /\ IsFiniteSet(A \cup B)
          /\ Cardinality(A \cup B) = Cardinality(A) + Cardinality(B) - Cardinality(A \cap B)
      BY <3>1, FS_Union
    <3>3. Cardinality(A \cap B) = 0
      BY <3>1, FS_EmptySet
    <3>4. Cardinality(A \cup B) = (b - a) + (d - c)
      BY <3>1, <3>2, <3>3, <1>1, <1>2
    <3> QED BY <3>2, <3>4 DEF A, B
  <2>5. Joined(s) = [sum |-> 0 + (b - a), from |-> c, to |-> d]
    BY <1>2, <1>8, <1>10, <1>1 DEF Join
  <2>6. Together({x, y}) = (b - a) + (d - c)
    BY <2>5, <1>1, <1>2 DEF Together, s
  <2> QED BY <2>1, <2>4, <2>6
<1> QED BY <1>1, <1>2, <1>9, <1>10

\* At most two intervals of a trace, and what RequestTime leaves of it.
LEMMA Remaining ==
  ASSUME NEW f \in Nat, NEW t \in Nat, f <= t, NEW ivs, ivs # {}, NEW x, NEW y, ivs \subseteq {x, y},
         \A iv \in ivs : Interval(iv, f, t)
  PROVE  /\ Together(ivs) \in Nat /\ Together(ivs) <= t - f
         /\ Cardinality({n \in UpTo(f, t) : \A iv \in ivs : n < iv[1] \/ n >= iv[2]})
               = (t - f) - Together(ivs)
<1>1. IsFiniteSet(Covered(ivs, f, t)) /\ Together(ivs) = Cardinality(Covered(ivs, f, t))
  <2>1. CASE ivs = {x}
    BY <2>1, OneTogether
  <2>2. CASE ivs = {y}
    BY <2>2, OneTogether
  <2>3. CASE ivs = {x, y} /\ x # y
    <3>1. Interval(x, f, t) /\ Interval(y, f, t)
      BY <2>3
    <3>2. Before(x, y) \/ Before(y, x)
      BY <2>3, <3>1 DEF Interval, Before
    <3>3. CASE Before(x, y)
      BY <2>3, <3>1, <3>3, TwoTogether
    <3>4. CASE Before(y, x)
      <4>1. ivs = {y, x}
        BY <2>3
      <4> QED BY <3>1, <3>4, <4>1, TwoTogether
    <3> QED BY <3>2, <3>3, <3>4
  <2> QED BY <2>1, <2>2, <2>3
<1> DEFINE all == UpTo(f, t)
           cov == Covered(ivs, f, t)
           rest == {n \in UpTo(f, t) : \A iv \in ivs : n < iv[1] \/ n >= iv[2]}
<1>2. IsFiniteSet(all) /\ Cardinality(all) = t - f
  BY UpToSize
<1>3. rest = all \ cov
  <2> SUFFICES ASSUME NEW n \in all
               PROVE  (\A iv \in ivs : n < iv[1] \/ n >= iv[2]) <=> n \notin cov
    OBVIOUS
  <2>1. n \in Int
    BY DEF UpTo
  <2>2. ASSUME NEW iv \in ivs PROVE (n < iv[1] \/ n >= iv[2]) <=> ~(iv[1] <= n /\ n < iv[2])
    <3>1. PICK a \in Nat, b \in Nat : iv = <<a, b>>
      BY DEF Interval
    <3> QED BY <2>1, <3>1
  <2> QED BY <2>2 DEF Covered
<1>4. cov \subseteq all /\ all \cap cov = cov
  BY DEF Covered
<1> HIDE DEF all, cov, rest
<1>5. Cardinality(rest) = Cardinality(all) - Cardinality(cov)
  BY <1>2, <1>3, <1>4, FS_Difference
<1>6. Cardinality(cov) \in Nat /\ Cardinality(cov) <= Cardinality(all)
  BY <1>2, <1>4, FS_Subset, FS_CardinalityType
<1> QED BY <1>1, <1>2, <1>5, <1>6 DEF rest, cov

\* The spans of the inference calls: one of each thread of run_inference, none before it
\* runs; the span of the request begins first and ends last.
CallOf(w) == IF w = "primary" THEN "_submit_primary_inference" ELSE "_submit_oodd_inference"
Calls(trace, w) == {i \in DOMAIN trace : trace[i].name = CallOf(w)}

OnceInv ==
    /\ \A w \in Workers : /\ \A i, j \in Calls(spans, w) : i = j
                          /\ forked[w] # "done" /\ stack[w] = <<>> => Calls(spans, w) = {}
    /\ request # "none" => /\ Root \in DOMAIN spans /\ spans[Root].name = "request"
                           /\ \A i \in DOMAIN spans : spans[Root].from <= spans[i].from
    /\ request = "recorded" => spans[Root].to = now

\* A span more.
LEMMA OpenedOnce ==
  ASSUME TraceInv, OnceInv, NEW n \in Nat, DOMAIN spans = 1..n, DOMAIN spans' = 1..(n + 1), n > 0,
         NEW name, NEW q, spans'[n + 1] = Span(name, q), \A i \in 1..n : spans'[i] = spans[i],
         request = "handled", UNCHANGED <<request, now>>
  PROVE  /\ \A w \in Workers : Calls(spans', w) = IF name = CallOf(w) THEN Calls(spans, w) \cup {n + 1}
                                                 ELSE Calls(spans, w)
         /\ Root \in DOMAIN spans' /\ spans'[Root].name = "request"
         /\ \A i \in DOMAIN spans' : spans'[Root].from <= spans'[i].from
<1>1. spans'[n + 1].name = name /\ spans'[n + 1].from = now
  BY DEF Span
<1>2. Root \in 1..n /\ spans'[Root] = spans[Root]
  BY DEF Root
<1>3. spans[Root].from <= now
  BY <1>2 DEF TraceInv, SpanInv, Nested
<1>4. \A i \in 1..(n + 1) : i \in 1..n \/ i = n + 1
  OBVIOUS
<1>5. \A i \in DOMAIN spans' : spans'[Root].from <= spans'[i].from
  BY <1>1, <1>2, <1>3, <1>4 DEF OnceInv
<1>6. ASSUME NEW w \in Workers
      PROVE  Calls(spans', w) = IF name = CallOf(w) THEN Calls(spans, w) \cup {n + 1}
                                ELSE Calls(spans, w)
  BY <1>1, <1>4 DEF Calls
<1> QED BY <1>2, <1>5, <1>6 DEF OnceInv

\* Some spans are closed.
LEMMA ClosedOnce ==
  ASSUME OnceInv, DOMAIN spans' = DOMAIN spans, Root \in DOMAIN spans,
         \A i \in DOMAIN spans : spans'[i].name = spans[i].name /\ spans'[i].from = spans[i].from
  PROVE  /\ \A w \in Workers : Calls(spans', w) = Calls(spans, w)
         /\ request # "none" => /\ Root \in DOMAIN spans' /\ spans'[Root].name = "request"
                                /\ \A i \in DOMAIN spans' : spans'[Root].from <= spans'[i].from
<1>1. \A w \in Workers : Calls(spans', w) = Calls(spans, w)
  BY DEF Calls
<1> QED BY <1>1 DEF OnceInv

\* A call of the event loop.
LEMMA EnterLoopOnce ==
  ASSUME TraceInv, OnceInv, NEW name \in {"run_inference", "run_in_threadpool"}, Enter("loop", name)
  PROVE  OnceInv'
<1> DEFINE n == Len(spans)
           q == IF current["loop"] = NoSpan THEN Root ELSE current["loop"]
<1>1. /\ request = "handled" /\ spans' = Append(spans, Span(name, q))
      /\ \A w \in Workers : stack'[w] = stack[w]
      /\ UNCHANGED <<now, forked, request>>
  BY DEF Enter, Running, TraceInv, OpenInv, Workers, Threads
<1>2. Span(name, q) \in [name : {name}, parent : {q}, from : {now}, to : {NoSpan}] /\ spans \in Seq(SpanRecord)
  BY DEF Span, TraceInv, SpanInv
<1>3. n \in Nat /\ DOMAIN spans = 1..n /\ n > 0
  BY <1>1, <1>2 DEF TraceInv, OpenInv, Root
<1> HIDE DEF q
<1>4. DOMAIN spans' = 1..(n + 1) /\ spans'[n + 1] = Span(name, q) /\ \A i \in 1..n : spans'[i] = spans[i]
  BY <1>1, <1>2, <1>3
<1> HIDE DEF n
<1>5. \A w \in Workers : name # CallOf(w)
  BY DEF CallOf
<1>6. /\ \A w \in Workers : Calls(spans', w) = Calls(spans, w)
      /\ Root \in DOMAIN spans' /\ spans'[Root].name = "request"
      /\ \A i \in DOMAIN spans' : spans'[Root].from <= spans'[i].from
  BY <1>1, <1>3, <1>4, <1>5, OpenedOnce
<1> QED BY <1>1, <1>6 DEF OnceInv

\* A call of a thread of run_inference.
LEMMA SubmitOnce ==
  ASSUME TraceInv, OnceInv, NEW w \in Workers, Submit(w)
  PROVE  OnceInv'
<1> DEFINE n == Len(spans)
           q == IF current[w] = NoSpan THEN Root ELSE current[w]
           name == CallOf(w)
<1>0. w \in Threads /\ w # "loop" /\ \A v \in Workers : v \in Threads
  BY DEF Workers, Threads
<1>1. /\ request = "handled" /\ spans' = Append(spans, Span(name, q))
      /\ forked[w] = "running" /\ stack[w] = <<>>
      /\ stack' = [stack EXCEPT ![w] = Append(stack[w], [span |-> n + 1, token |-> current[w]])]
      /\ UNCHANGED <<now, forked, request>>
  BY <1>0 DEF Submit, Enter, Running, CallOf
<1>2. DOMAIN stack = Threads /\ spans \in Seq(SpanRecord)
  BY DEF TraceInv, SpanInv, OpenInv
<1>3. n \in Nat /\ DOMAIN spans = 1..n /\ n > 0
  BY <1>1, <1>2 DEF TraceInv, OpenInv, Root
<1> HIDE DEF q
<1>4. DOMAIN spans' = 1..(n + 1) /\ spans'[n + 1] = Span(name, q) /\ \A i \in 1..n : spans'[i] = spans[i]
  BY <1>1, <1>2, <1>3
<1>5. /\ \A v \in Workers : v # w => stack'[v] = stack[v]
      /\ stack'[w] = Append(<<>>, [span |-> n + 1, token |-> current[w]])
  BY <1>0, <1>1, <1>2
<1>6. stack'[w] # <<>>
  BY <1>5
<1>7. \A v \in Workers : name = CallOf(v) <=> v = w
  BY DEF CallOf, Workers
<1> HIDE DEF n, name
<1>8. /\ \A v \in Workers : Calls(spans', v) = IF name = CallOf(v) THEN Calls(spans, v) \cup {n + 1}
                                              ELSE Calls(spans, v)
      /\ Root \in DOMAIN spans' /\ spans'[Root].name = "request"
      /\ \A i \in DOMAIN spans' : spans'[Root].from <= spans'[i].from
  BY <1>1, <1>3, <1>4, OpenedOnce
<1>9. Calls(spans, w) = {}
  BY <1>1 DEF OnceInv
<1>10. ASSUME NEW v \in Workers
       PROVE  /\ \A i, j \in Calls(spans', v) : i = j
              /\ forked'[v] # "done" /\ stack'[v] = <<>> => Calls(spans', v) = {}
  <2>1. CASE v = w
    <3>1. Calls(spans', v) = {n + 1}
      BY <2>1, <1>7, <1>8, <1>9
    <3> QED BY <2>1, <3>1, <1>6
  <2>2. CASE v # w
    <3>1. Calls(spans', v) = Calls(spans, v) /\ stack'[v] = stack[v] /\ forked'[v] = forked[v]
      BY <2>2, <1>1, <1>5, <1>7, <1>8
    <3> QED BY <3>1 DEF OnceInv
  <2> QED BY <2>1, <2>2
<1> QED BY <1>1, <1>8, <1>10 DEF OnceInv

\* A call of some thread returns.
LEMMA LeaveOnce ==
  ASSUME TraceInv, OnceInv, NEW t \in Threads, Leave(t)
  PROVE  OnceInv'
<1> DEFINE top == Last(stack[t])
           new == [spans[top.span] EXCEPT !.to = now]
<1>1. /\ request = "handled" /\ UNCHANGED <<now, request>>
      /\ spans' = [spans EXCEPT ![top.span] = new]
      /\ stack' = [stack EXCEPT ![t] = Front(stack[t])]
      /\ forked' = IF t \in Workers /\ Len(stack[t]) = 1 THEN [forked EXCEPT ![t] = "done"] ELSE forked
      /\ stack[t] # <<>> /\ (t \in Workers => forked[t] = "running")
  BY DEF Leave, Running, Workers
<1>2. /\ DOMAIN stack = Threads /\ DOMAIN forked = Workers /\ spans \in Seq(SpanRecord)
      /\ Root \in DOMAIN spans
  BY <1>1 DEF TraceInv, SpanInv, OpenInv
<1>3. DOMAIN spans' = DOMAIN spans
  BY <1>1
<1>4. ASSUME NEW i \in DOMAIN spans PROVE spans'[i].name = spans[i].name /\ spans'[i].from = spans[i].from
  <2>1. spans[i] \in SpanRecord
    BY <1>2
  <2>2. CASE i = top.span
    <3>1. spans'[i] = [spans[i] EXCEPT !.to = now]
      BY <2>2, <1>1, <1>2
    <3> QED BY <2>1, <3>1 DEF SpanRecord
  <2>3. CASE i # top.span
    BY <2>3, <1>1, <1>2
  <2> QED BY <2>2, <2>3
<1> HIDE DEF top, new
<1>5. /\ \A w \in Workers : Calls(spans', w) = Calls(spans, w)
      /\ Root \in DOMAIN spans' /\ spans'[Root].name = "request"
      /\ \A i \in DOMAIN spans' : spans'[Root].from <= spans'[i].from
  BY <1>1, <1>2, <1>3, <1>4, ClosedOnce
<1>6. ASSUME NEW w \in Workers
      PROVE  /\ \A i, j \in Calls(spans', w) : i = j
             /\ forked'[w] # "done" /\ stack'[w] = <<>> => Calls(spans', w) = {}
  <2>1. w \in Threads
    BY DEF Workers, Threads
  <2>2. CASE t = w
    <3>1. Len(stack[t]) = 1
      <4>1. stack[w] = <<[span |-> current[w], token |-> current["loop"]]>>
        BY <2>2, <1>1 DEF TraceInv, WorkerInv
      <4> QED BY <2>2, <4>1
    <3>2. forked'[w] = "done"
      BY <2>2, <3>1, <1>1, <1>2
    <3> QED BY <3>2, <1>5 DEF OnceInv
  <2>3. CASE t # w
    <3>1. stack'[w] = stack[w]
      BY <2>1, <2>3, <1>1, <1>2
    <3>2. forked'[w] = forked[w]
      BY <2>3, <1>1, <1>2
    <3> QED BY <3>1, <3>2, <1>5 DEF OnceInv
  <2> QED BY <2>2, <2>3
<1> QED BY <1>1, <1>5, <1>6 DEF OnceInv

\* The request's span ends.
LEMMA FinishOnce == ASSUME TraceInv, OnceInv, Finish PROVE OnceInv'
<1>1. /\ request = "handled" /\ request' = "recorded" /\ UNCHANGED <<now, stack, forked>>
      /\ spans' = [spans EXCEPT ![Root] = [spans[Root] EXCEPT !.to = now]]
  BY DEF Finish, Running
<1>2. spans \in Seq(SpanRecord) /\ Root \in DOMAIN spans
  BY <1>1 DEF TraceInv, SpanInv, OpenInv
<1>3. DOMAIN spans' = DOMAIN spans
  BY <1>1
<1>4. spans'[Root].to = now
  <2>1. spans[Root] \in SpanRecord
    BY <1>2
  <2> QED BY <2>1, <1>1, <1>2 DEF SpanRecord
<1>5. ASSUME NEW i \in DOMAIN spans PROVE spans'[i].name = spans[i].name /\ spans'[i].from = spans[i].from
  <2>1. spans[i] \in SpanRecord
    BY <1>2
  <2>2. CASE i = Root
    BY <2>1, <2>2, <1>1, <1>2 DEF SpanRecord
  <2>3. CASE i # Root
    BY <2>3, <1>1, <1>2
  <2> QED BY <2>2, <2>3
<1>6. /\ \A w \in Workers : Calls(spans', w) = Calls(spans, w)
      /\ Root \in DOMAIN spans' /\ spans'[Root].name = "request"
      /\ \A i \in DOMAIN spans' : spans'[Root].from <= spans'[i].from
  BY <1>1, <1>2, <1>3, <1>5, ClosedOnce
<1> QED BY <1>1, <1>4, <1>6 DEF OnceInv

\* The other steps of a request.
LEMMA OtherOnce ==
  ASSUME TraceInv, OnceInv, Time \/ StartTrace \/ Fork \/ SendResponse
  PROVE  OnceInv'
<1>1. CASE Time
  BY <1>1 DEF OnceInv, Time
<1>2. CASE StartTrace
  <2>1. /\ spans' = <<Span("request", NoSpan)>> /\ request' = "handled"
        /\ UNCHANGED <<now, stack, forked>>
    BY <1>2 DEF StartTrace
  <2>2. DOMAIN spans' = {Root} /\ spans'[Root].name = "request" /\ spans'[Root].from = now
    BY <2>1 DEF Span, Root
  <2>3. now <= now
    BY DEF TraceInv, SpanInv
  <2>4. \A w \in Workers : Calls(spans', w) = {}
    BY <2>2 DEF Calls, CallOf
  <2> QED BY <2>1, <2>2, <2>3, <2>4 DEF OnceInv
<1>3. CASE Fork
  <2>1. /\ forked' = [w \in Workers |-> "running"] /\ \A w \in Workers : forked[w] = "no"
        /\ UNCHANGED <<now, spans, stack, request>> /\ request = "handled"
    BY <1>3 DEF Fork, Running
  <2> QED BY <2>1 DEF OnceInv
<1>4. CASE SendResponse
  BY <1>4 DEF OnceInv, SendResponse
<1> QED BY <1>1, <1>2, <1>3, <1>4

\* Nothing happens to the trace.
LEMMA OnceStays == OnceInv /\ UNCHANGED profilingVars => OnceInv'
  BY DEF OnceInv, profilingVars

\* The call of each thread of run_inference has one span at most.
THEOREM CallsInductive == Spec => []OnceInv
<1>1. Init => OnceInv
  <2> SUFFICES ASSUME Init PROVE OnceInv
    OBVIOUS
  <2>1. spans = <<>> /\ request = "none"
    BY DEF Init, ProfilingInit
  <2>2. DOMAIN spans = {}
    BY <2>1
  <2> QED BY <2>1, <2>2 DEF OnceInv, Calls
<1>2. TraceInv /\ OnceInv /\ [Next]_vars => OnceInv'
  BY ProfilingFrame, OnceStays, OtherOnce, FinishOnce, LeaveOnce, SubmitOnce, EnterLoopOnce
     DEF ProfilingNext
<1> QED BY <1>1, <1>2, TraceInductive, PTL DEF Spec

\* Of a recorded trace, the inference calls lie within the request and are two at most.
LEMMA CallsWithin ==
  ASSUME TraceInv, OnceInv, request = "recorded"
  PROVE  /\ Root \in DOMAIN spans /\ spans[Root].from \in Nat /\ spans[Root].to \in Nat
         /\ spans[Root].from <= spans[Root].to
         /\ RequestTime(spans) = spans[Root].to - spans[Root].from
         /\ \A iv \in InferenceIntervals(spans) : Interval(iv, spans[Root].from, spans[Root].to)
         /\ \E x, y : InferenceIntervals(spans) \subseteq {x, y}
<1> DEFINE f == spans[Root].from
           t == spans[Root].to
           ivs == InferenceIntervals(spans)
           roots == {i \in DOMAIN spans : spans[i].name = "request" /\ spans[i].parent = NoSpan}
<1>1. /\ spans \in Seq(SpanRecord) /\ now \in Nat /\ \A i \in DOMAIN spans : Nested(spans, i, now)
      /\ \A i \in DOMAIN spans : spans[i].to # NoSpan
      /\ spans[Root].name = "request" /\ t = now /\ \A i \in DOMAIN spans : f <= spans[i].from
  BY DEF TraceInv, SpanInv, OpenInv, OnceInv
<1>2. ASSUME NEW i \in DOMAIN spans
      PROVE  /\ spans[i].from \in Nat /\ spans[i].to \in Nat
             /\ f <= spans[i].from /\ spans[i].to <= now
             /\ spans[i].parent = NoSpan <=> i = Root
  <2>1. spans[i] \in SpanRecord
    BY <1>1
  <2> QED BY <2>1, <1>1 DEF SpanRecord, Nested
<1>3. Root \in DOMAIN spans
  BY DEF OnceInv
<1>4. f \in Nat /\ t \in Nat /\ f <= t
  <2>1. Nested(spans, Root, now) /\ spans[Root].to # NoSpan
    BY <1>1, <1>3
  <2> QED BY <2>1, <1>2, <1>3 DEF Nested
<1>5. RequestTime(spans) = t - f
  <2>1. roots = {Root}
    BY <1>1, <1>2, <1>3
  <2>2. (CHOOSE i \in {Root} : TRUE) = Root
    OBVIOUS
  <2>3. RequestTime(spans) = IF roots = {} THEN 0 ELSE Duration(spans[CHOOSE i \in roots : TRUE])
    BY DEF RequestTime
  <2> HIDE DEF roots
  <2>4. RequestTime(spans) = Duration(spans[Root])
    BY <2>1, <2>2, <2>3
  <2> QED BY <2>4 DEF Duration
<1>6. ASSUME NEW iv \in ivs
      PROVE  \E i \in DOMAIN spans : /\ spans[i].name \in InferenceCallSpanNames
                                     /\ spans[i].to > spans[i].from
                                     /\ iv = <<spans[i].from, spans[i].to>>
  BY DEF InferenceIntervals
<1> HIDE DEF ivs, f, t
<1>7. ASSUME NEW iv \in ivs PROVE Interval(iv, f, t)
  <2>1. PICK i \in DOMAIN spans : /\ spans[i].to > spans[i].from
                                  /\ iv = <<spans[i].from, spans[i].to>>
    BY <1>6
  <2>2. /\ spans[i].from \in Nat /\ spans[i].to \in Nat /\ f <= spans[i].from
        /\ spans[i].from < spans[i].to /\ spans[i].to <= t
    BY <2>1, <1>1, <1>2
  <2> QED BY <2>1, <2>2 DEF Interval
<1>8. \E x, y : ivs \subseteq {x, y}
  <2> DEFINE Of(w) == CHOOSE i \in Calls(spans, w) : TRUE
             x == <<spans[Of("primary")].from, spans[Of("primary")].to>>
             y == <<spans[Of("oodd")].from, spans[Of("oodd")].to>>
  <2>1. ASSUME NEW w \in Workers, NEW i \in Calls(spans, w) PROVE i = Of(w)
    <3>1. Of(w) \in Calls(spans, w)
      OBVIOUS
    <3> QED BY <3>1 DEF OnceInv
  <2>2. ASSUME NEW iv \in ivs PROVE iv = x \/ iv = y
    <3>1. PICK i \in DOMAIN spans : /\ spans[i].name \in InferenceCallSpanNames
                                    /\ iv = <<spans[i].from, spans[i].to>>
      BY <1>6
    <3>2. \E w \in Workers : i \in Calls(spans, w)
      BY <3>1 DEF InferenceCallSpanNames, Calls, CallOf, Workers
    <3>3. PICK w \in Workers : i \in Calls(spans, w)
      BY <3>2
    <3>4. i = Of(w)
      BY <2>1, <3>3
    <3> QED BY <3>1, <3>4 DEF Workers
  <2> HIDE DEF x, y
  <2> QED BY <2>2
<1> QED BY <1>3, <1>4, <1>5, <1>7, <1>8 DEF f, t, ivs

\* For every interleaving of the request with the threads of run_inference and however long
\* each call takes: the dashboard's sum of the joined intervals is right.
THEOREM TracesAddUp == Spec => []TracesAreTrees
<1>1. ASSUME TraceInv, OnceInv, TreeOfSpans PROVE TracesAreTrees
  <2> SUFFICES ASSUME request = "recorded", InferenceIntervals(spans) # {}
               PROVE  EdgePodTime(spans) =
                        Cardinality({t \in spans[Root].from .. (spans[Root].to - 1) :
                           \A iv \in InferenceIntervals(spans) : t < iv[1] \/ t >= iv[2]})
    BY <1>1 DEF TracesAreTrees
  <2> DEFINE f == spans[Root].from
             e == spans[Root].to
             ivs == InferenceIntervals(spans)
  <2>1. /\ f \in Nat /\ e \in Nat /\ f <= e /\ RequestTime(spans) = e - f
        /\ \A iv \in ivs : Interval(iv, f, e)
    BY <1>1, CallsWithin
  <2>2. PICK x, y : ivs \subseteq {x, y}
    BY <1>1, CallsWithin
  <2> HIDE DEF f, e, ivs
  <2>3. ivs # {}
    BY DEF ivs
  <2>4. /\ Together(ivs) \in Nat /\ Together(ivs) <= e - f
        /\ Cardinality({n \in UpTo(f, e) : \A iv \in ivs : n < iv[1] \/ n >= iv[2]})
              = (e - f) - Together(ivs)
    BY <2>1, <2>2, <2>3, Remaining
  <2>5. EdgePodTime(spans) = IF Together(ivs) > RequestTime(spans) THEN 0
                             ELSE RequestTime(spans) - Together(ivs)
    BY DEF EdgePodTime, Together, ivs
  <2>6. EdgePodTime(spans) = (e - f) - Together(ivs)
    BY <2>1, <2>4, <2>5
  <2> QED BY <2>4, <2>6 DEF UpTo, f, e, ivs
<1> QED BY <1>1, TraceInductive, CallsInductive, RecordedTracesAreTrees, PTL

=============================================================================
