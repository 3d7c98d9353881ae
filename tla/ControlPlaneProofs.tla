------------------------- MODULE ControlPlaneProofs -------------------------
(***************************************************************************)
(* Proofs about ControlPlane, for any sets of detectors and workers and    *)
(* any number of configurations, kills, faults, restarts and new models.   *)
(***************************************************************************)
EXTENDS ControlPlane, TLAPS

\* The cached configuration of a worker whose mtime is the file's: it is the file's, or
\* was read in the middle of a save, or the file was saved twice within a tick.
MtimeInv ==
    /\ now >= 1 /\ file.mtime <= now
    /\ (file.state = "absent") <=> (file.mtime = 0)
    /\ \A w \in Workers :
          /\ cached[w].mtime <= file.mtime /\ worker[w].stat <= file.mtime
          /\ file.state # "absent" /\ cached[w].mtime = file.mtime
                => \/ cached[w].config = {} \/ rewritten = file.mtime
                   \/ file.state = "whole" /\ cached[w].config = file.config

\* What a worker is doing: a PUT or a start reconciles, a query only adds records.
TaskOK(s) ==
    /\ s.put => s.pc \in {"diff", "mark", "add", "update", "truncate", "write"}
    /\ s.pc \in {"diff", "mark", "truncate", "write"} => s.put
    /\ ~s.serving => s.pc # "ready" /\ (s.pc \in {"add", "update"} => s.put)
    /\ s.serving => s.pc \notin {"down", "create", "seed", "seedWrite"}

TaskInv == \A w \in Workers : TaskOK(worker[w])

\* A worker in state s is reconciling.
Busy(s) == (~s.serving /\ s.pc # "down") \/ s.put

\* A reconciliation is alone when no other has been under way with it; unless they mixed,
\* each is.
AloneInv ==
    \A w \in Workers :
        Busy(worker[w]) =>
            /\ worker[w].alone => \A v \in Workers \ {w} : ~Busy(worker[v])
            /\ ~mixed => worker[w].alone

\* The progress of a reconciliation that is alone: what it has not still to add has a
\* record or was erased.
Progress(s) ==
    LET done == ActiveIds \cup erased
        waiting == {d \in Detectors : \E k \in Kinds : <<d, k>> \in s.adds}
    IN
    /\ s.pc = "mark" => s.gone \cap s.config = {}
    /\ s.pc \in {"mark", "add", "update"} => s.config \subseteq done \cup waiting
    /\ s.pc \in {"truncate", "write"} => s.config \subseteq done

ProgressInv == \A w \in Workers : worker[w].put /\ worker[w].alone => Progress(worker[w])

\* A detector of which there is a record, or was until a reset.
Known(d) == Records(d) # {} \/ d \in forgot

Checking == {"fetch", "save", "files", "ensure", "patch", "starting", "rolling", "cleanup",
             "complete", "flag"}

\* What the updater works on: detectors it found in the table, one of them at a time; and
\* what it is about to forget has no pods.
UpdaterInv ==
    /\ updater.pc \in {"pick", "changed"} \cup Checking => \A d \in updater.ids : Known(d)
    /\ updater.pc \in Checking => updater.det \in Detectors /\ Known(updater.det)
    /\ updater.pc \in {"save", "files", "ensure", "patch", "flag"} => updater.left \subseteq {updater.det} \X Kinds
    /\ updater.pc \in {"ensure", "patch"} => updater.left \subseteq {updater.det} \X PodKinds
    /\ updater.pc = "forget" => \A d \in updater.ids, k \in PodKinds : FullyDeleted(<<d, k>>)
    /\ updater.pc = "cleanup" =>
          \A k \in PodKinds : LET m == <<updater.det, k>> IN dep[m].pod = "loading" => dep[m].ver = Len(repo[m])

\* Only the kinds that get a deployment ever have pods, and only a deployment has any.
KindInv ==
    \A m \in Models :
        /\ m[2] \notin PodKinds => dep[m] = NoDeployment
        /\ dep[m].pod # "none" => dep[m].present

-----------------------------------------------------------------------------
(* Types. *)

\* A loop goes over the models it has left.
LEMMA NextOfLeft == ASSUME NEW S PROVE NextOf(S) \subseteq S
BY DEF NextOf

\* A worker's record is replaced by another.
LEMMA WorkerMove ==
    ASSUME worker \in [Workers -> WorkerStates], NEW w \in Workers, NEW s \in WorkerStates,
           worker' = [worker EXCEPT ![w] = s]
    PROVE  /\ worker' \in [Workers -> WorkerStates]
           /\ worker'[w] = s
           /\ \A v \in Workers \ {w} : worker'[v] = worker[v]
OBVIOUS

\* What the steps of a worker assign to its record is of its type.
LEMMA WorkerRecords ==
    ASSUME NEW s \in WorkerStates
    PROVE  /\ \A p \in WorkerPCs : [s EXCEPT !.pc = p] \in WorkerStates
           /\ \A p \in WorkerPCs, c \in SUBSET Detectors :
                 [s EXCEPT !.pc = p, !.config = c] \in WorkerStates
           /\ \A p \in WorkerPCs, c \in SUBSET Detectors, b \in BOOLEAN :
                 [s EXCEPT !.pc = p, !.config = c, !.put = b] \in WorkerStates
           /\ \A p \in WorkerPCs, n \in Nat : [s EXCEPT !.pc = p, !.stat = n] \in WorkerStates
           /\ \A p \in WorkerPCs, b \in BOOLEAN, c \in BOOLEAN :
                 [s EXCEPT !.pc = p, !.serving = b, !.put = c] \in WorkerStates
           /\ \A p \in WorkerPCs, g \in SUBSET Detectors, a \in SUBSET Models :
                 [s EXCEPT !.pc = p, !.gone = g, !.adds = a] \in WorkerStates
           /\ \A p \in WorkerPCs, b \in BOOLEAN, g \in SUBSET Detectors, a \in SUBSET Models :
                 [s EXCEPT !.pc = p, !.put = b, !.gone = g, !.adds = a] \in WorkerStates
           /\ \A p \in WorkerPCs, a \in SUBSET Models : [s EXCEPT !.pc = p, !.adds = a] \in WorkerStates
           /\ \A g \in SUBSET Detectors : [s EXCEPT !.gone = g] \in WorkerStates
           /\ \A a \in SUBSET Models : [s EXCEPT !.adds = a] \in WorkerStates
           /\ \A b \in BOOLEAN : [s EXCEPT !.alone = b] \in WorkerStates
BY DEF WorkerStates

\* A worker that is not there.
LEMMA DownTyped == DownWorker \in WorkerStates
BY DEF DownWorker, WorkerStates, WorkerPCs

\* A reconciliation begins: the workers' records are of their type.
LEMMA BeginsTyped ==
    ASSUME TypeOK, NEW w \in Workers, NEW s \in WorkerStates, Begins(w, s)
    PROVE  worker' \in [Workers -> WorkerStates] /\ mixed' \in BOOLEAN
<1>1. \A b \in BOOLEAN : [s EXCEPT !.alone = b] \in WorkerStates
  BY WorkerRecords
<1>2. \A v \in Workers : worker[v] \in WorkerStates /\ [worker[v] EXCEPT !.alone = FALSE] \in WorkerStates
  BY WorkerRecords DEF TypeOK
<1> QED BY <1>1, <1>2 DEF Begins, TypeOK

\* The outcome of a look at the active configuration is of its type.
LEMMA AnsweredTyped ==
    ASSUME TypeOK, NEW w \in Workers, NEW c \in SUBSET Detectors, Answered(w, c)
    PROVE  worker' \in [Workers -> WorkerStates]
<1> DEFINE s == worker[w]
           t == IF s.serving THEN [s EXCEPT !.pc = "ready"]
                ELSE [s EXCEPT !.pc = "diff", !.config = c, !.put = TRUE]
<1>1. s \in WorkerStates
  BY DEF TypeOK
<1>2. t \in WorkerStates
  BY <1>1, WorkerRecords DEF WorkerPCs
<1>3. worker' = [worker EXCEPT ![w] = t]
  BY DEF Answered
<1> QED BY <1>2, <1>3, WorkerMove DEF TypeOK

\* The outcome of a look at the active configuration, part by part.
LEMMA AnsweredMoves ==
    ASSUME TypeOK, NEW w \in Workers, NEW c \in SUBSET Detectors, Answered(w, c)
    PROVE  /\ \A v \in Workers \ {w} : worker'[v] = worker[v]
           /\ worker'[w].stat = worker[w].stat /\ worker'[w].serving = worker[w].serving
           /\ worker'[w].alone = worker[w].alone
           /\ worker[w].serving => worker'[w].pc = "ready" /\ worker'[w].put = worker[w].put
           /\ ~worker[w].serving =>
                 worker'[w].pc = "diff" /\ worker'[w].put /\ worker'[w].config = c
<1> DEFINE s == worker[w]
           t == IF s.serving THEN [s EXCEPT !.pc = "ready"]
                ELSE [s EXCEPT !.pc = "diff", !.config = c, !.put = TRUE]
<1>1. s \in WorkerStates
  BY DEF TypeOK
<1>2. worker' = [worker EXCEPT ![w] = t]
  BY DEF Answered
<1>3. worker'[w] = t /\ \A v \in Workers \ {w} : worker'[v] = worker[v]
  BY <1>2 DEF TypeOK
<1>4. /\ t.stat = s.stat /\ t.serving = s.serving /\ t.alone = s.alone
      /\ s.serving => t.pc = "ready" /\ t.put = s.put
      /\ ~s.serving => t.pc = "diff" /\ t.put /\ t.config = c
  BY <1>1 DEF WorkerStates
<1> HIDE DEF t
<1> QED BY <1>3, <1>4

\* An event is counted.
LEMMA CountTyped ==
    ASSUME count \in [Events -> Nat], NEW x \in Events, Occurs(x)
    PROVE  count' \in [Events -> Nat]
BY DEF Occurs

\* The start of a worker and its look at the configuration keep the types.
LEMMA StartTypes ==
    ASSUME TypeOK, NEW w \in Workers,
           \/ DropTables(w) \/ CreateTables(w) \/ StatConfig(w) \/ LoadConfig(w)
           \/ TruncateConfig(w) \/ WriteConfig(w)
    PROVE  TypeOK'
<1> USE DEF TypeOK, outsideWorker, configVars, dbVars, clusterVars, historyVars
<1> DEFINE s == worker[w]
<1>1. /\ s \in WorkerStates /\ s.config \in SUBSET Detectors /\ s.stat \in Nat
      /\ cached[w].config \in SUBSET Detectors /\ file.mtime \in Nat /\ file.config \in SUBSET Detectors
  BY DEF WorkerStates
<1>2. \A p \in WorkerPCs : WGoto(w, p) => worker' \in [Workers -> WorkerStates]
  <2>1. \A p \in WorkerPCs : [s EXCEPT !.pc = p] \in WorkerStates
    BY <1>1, WorkerRecords
  <2> QED BY <2>1, WorkerMove DEF WGoto
<1>3. CASE DropTables(w)
  <2>1. [DownWorker EXCEPT !.pc = "create"] \in WorkerStates
    BY DownTyped, WorkerRecords DEF WorkerPCs
  <2>2. worker' \in [Workers -> WorkerStates] /\ mixed' \in BOOLEAN
    BY <1>3, <2>1, BeginsTyped DEF DropTables
  <2>3. db' \in [Models -> {"none", "active", "pending"}] /\ created' \in [Models -> BOOLEAN]
        /\ forgot' \in SUBSET Detectors
    BY <1>3 DEF DropTables
  <2> QED BY <1>3, <2>2, <2>3 DEF DropTables
<1>4. CASE CreateTables(w)
  <2> DEFINE seed == IF EnvConfig # NoConfig THEN EnvConfig
                     ELSE IF file.state = "absent" THEN HelmConfig ELSE NoConfig
             t == IF seed = NoConfig THEN [s EXCEPT !.pc = "stat"]
                  ELSE [s EXCEPT !.pc = "seed", !.config = seed]
  <2>1. seed # NoConfig => seed \in SUBSET Detectors
    BY ControlAssumption
  <2>2. worker' = [worker EXCEPT ![w] = t]
    BY <1>4 DEF CreateTables
  <2> HIDE DEF seed
  <2>3. t \in WorkerStates
    BY <1>1, <2>1, WorkerRecords DEF WorkerPCs
  <2>4. worker' \in [Workers -> WorkerStates]
    BY <2>2, <2>3, WorkerMove
  <2> QED BY <1>4, <2>4 DEF CreateTables
<1>5. CASE StatConfig(w)
  <2>1. [s EXCEPT !.pc = "load", !.stat = file.mtime] \in WorkerStates
    BY <1>1, WorkerRecords DEF WorkerPCs
  <2>2. worker' \in [Workers -> WorkerStates]
    BY <1>1, <1>5, <2>1, WorkerMove, AnsweredTyped DEF StatConfig
  <2> QED BY <1>5, <2>2 DEF StatConfig
<1>6. CASE LoadConfig(w)
  <2>1. worker' \in [Workers -> WorkerStates]
    BY <1>1, <1>6, AnsweredTyped DEF LoadConfig
  <2>2. cached' \in [Workers -> [config : SUBSET Detectors, mtime : Nat]]
    <3>1. cached' = cached \/ \E c \in SUBSET Detectors : cached' = [cached EXCEPT ![w] = [config |-> c, mtime |-> s.stat]]
      BY <1>1, <1>6 DEF LoadConfig
    <3>2. \A c \in SUBSET Detectors : [config |-> c, mtime |-> s.stat] \in [config : SUBSET Detectors, mtime : Nat]
      BY <1>1
    <3>3. cached \in [Workers -> [config : SUBSET Detectors, mtime : Nat]]
      OBVIOUS
    <3> DEFINE C == [config : SUBSET Detectors, mtime : Nat]
               D == SUBSET Detectors
               R(c) == [config |-> c, mtime |-> s.stat]
    <3> HIDE DEF TypeOK, C, D, R
    <3>4. \A c \in D : R(c) \in C
      BY <3>2 DEF C, D, R
    <3>5. cached' = cached \/ \E c \in D : cached' = [cached EXCEPT ![w] = R(c)]
      BY <3>1 DEF D, R
    <3>6. cached \in [Workers -> C]
      BY <3>3 DEF C
    <3>7. cached' \in [Workers -> C]
      BY <3>4, <3>5, <3>6
    <3> QED BY <3>7 DEF C
  <2> QED BY <1>6, <2>1, <2>2 DEF LoadConfig
<1>7. CASE TruncateConfig(w)
  <2>1. worker' \in [Workers -> WorkerStates]
    BY <1>2, <1>7 DEF TruncateConfig, WorkerPCs
  <2>2. file' \in [state : {"absent", "torn", "whole"}, config : SUBSET Detectors, mtime : Nat] /\ rewritten' \in Nat
    BY <1>1, <1>7 DEF TruncateConfig
  <2> QED BY <1>7, <2>1, <2>2 DEF TruncateConfig
<1>8. CASE WriteConfig(w)
  <2>1. [s EXCEPT !.pc = "ready", !.serving = TRUE, !.put = FALSE] \in WorkerStates
    BY <1>1, WorkerRecords DEF WorkerPCs
  <2>2. worker' \in [Workers -> WorkerStates]
    BY <1>2, <1>8, <2>1, WorkerMove DEF WriteConfig, WorkerPCs
  <2>3. file' \in [state : {"absent", "torn", "whole"}, config : SUBSET Detectors, mtime : Nat] /\ rewritten' \in Nat
    BY <1>1, <1>8 DEF WriteConfig
  <2>4. mixed' \in BOOLEAN
    BY <1>8, Zenon DEF WriteConfig
  <2> QED BY <1>8, <2>2, <2>3, <2>4 DEF WriteConfig
<1> QED BY <1>3, <1>4, <1>5, <1>6, <1>7, <1>8

\* The steps of a reconciliation keep the types.
LEMMA ReconcileTypes ==
    ASSUME TypeOK, NEW w \in Workers,
           Diff(w) \/ MarkPending(w) \/ AddRecord(w) \/ UpdateRecord(w) \/ DatabaseMissing(w)
    PROVE  TypeOK'
<1> USE DEF TypeOK, outsideWorker, configVars, dbVars, clusterVars, historyVars
<1> DEFINE s == worker[w]
<1>1. /\ s \in WorkerStates /\ s.config \in SUBSET Detectors /\ s.gone \in SUBSET Detectors
      /\ s.adds \in SUBSET Models
  BY DEF WorkerStates
<1>2. \A p \in WorkerPCs : WGoto(w, p) => worker' \in [Workers -> WorkerStates]
  <2>1. \A p \in WorkerPCs : [s EXCEPT !.pc = p] \in WorkerStates
    BY <1>1, WorkerRecords
  <2> QED BY <2>1, WorkerMove DEF WGoto
<1>3. NextOf(s.adds) \subseteq Models
  BY <1>1, NextOfLeft
<1>4. CASE Diff(w)
  <2> DEFINE g == ActiveIds \ s.config
             a == (s.config \ ActiveIds) \X Kinds
  <2>1. g \in SUBSET Detectors /\ a \in SUBSET Models
    BY <1>1 DEF ActiveIds, Models
  <2>2. worker' = [worker EXCEPT ![w] = [s EXCEPT !.pc = "mark", !.gone = g, !.adds = a]]
    BY <1>4 DEF Diff
  <2> HIDE DEF g, a
  <2>3. [s EXCEPT !.pc = "mark", !.gone = g, !.adds = a] \in WorkerStates
    BY <1>1, <2>1, WorkerRecords DEF WorkerPCs
  <2>4. worker' \in [Workers -> WorkerStates]
    BY <2>2, <2>3, WorkerMove
  <2> QED BY <1>4, <2>4 DEF Diff
<1>5. CASE MarkPending(w)
  <2>1. \A d \in s.gone : [s EXCEPT !.gone = s.gone \ {d}] \in WorkerStates
    BY <1>1, WorkerRecords
  <2>2. WGoto(w, "add") \/ \E d \in s.gone : worker' = [worker EXCEPT ![w] = [s EXCEPT !.gone = s.gone \ {d}]]
    BY <1>5 DEF MarkPending
  <2>3. worker' \in [Workers -> WorkerStates]
    BY <1>2, <2>1, <2>2, WorkerMove DEF WorkerPCs
  <2>4. db' \in [Models -> {"none", "active", "pending"}]
    BY <1>5 DEF MarkPending
  <2> QED BY <1>5, <2>3, <2>4 DEF MarkPending
<1>6. CASE AddRecord(w)
  <2>1. \A m \in Models : [s EXCEPT !.adds = s.adds \ {m}] \in WorkerStates
    BY <1>1, WorkerRecords
  <2>2. \/ \E p \in {"update", "truncate", "ready"} : WGoto(w, p)
        \/ \E m \in Models : worker' = [worker EXCEPT ![w] = [s EXCEPT !.adds = s.adds \ {m}]]
    BY <1>3, <1>6 DEF AddRecord
  <2>3. worker' \in [Workers -> WorkerStates]
    BY <1>2, <2>1, <2>2, WorkerMove DEF WorkerPCs
  <2>4. /\ db' = db \/ \E m \in Models : db' = [db EXCEPT ![m] = "active"]
        /\ created' = created \/ \E m \in Models : created' = [created EXCEPT ![m] = FALSE]
        /\ erased' \subseteq erased /\ forgot' \subseteq forgot
    BY <1>3, <1>6 DEF AddRecord
  <2>5. db' \in [Models -> {"none", "active", "pending"}] /\ created' \in [Models -> BOOLEAN]
    BY <2>4
  <2> QED BY <1>6, <2>3, <2>4, <2>5 DEF AddRecord
<1>7. CASE UpdateRecord(w)
  <2>1. PICK m \in Models :
           /\ db' = [db EXCEPT ![m] = IF s.put /\ db[m] # "none" THEN "active" ELSE db[m]]
           /\ created' = [created EXCEPT ![m] = FALSE]
           /\ worker' = [worker EXCEPT ![w] = [s EXCEPT !.pc = "add", !.adds = s.adds \ {m}]]
           /\ erased' = IF db[m] = "none" THEN erased \cup {m[1]} ELSE erased
    BY <1>3, <1>7 DEF UpdateRecord
  <2>2. [s EXCEPT !.pc = "add", !.adds = s.adds \ {m}] \in WorkerStates
    <3> DEFINE a == s.adds \ {m}
    <3>1. a \in SUBSET Models /\ "add" \in WorkerPCs
      BY <1>1 DEF WorkerPCs
    <3> HIDE DEF a, s, TypeOK, outsideWorker, configVars, dbVars, clusterVars, historyVars
    <3>2. [s EXCEPT !.pc = "add", !.adds = a] \in WorkerStates
      BY <1>1, <3>1, WorkerRecords
    <3> QED BY <3>2 DEF a
  <2>3. worker' \in [Workers -> WorkerStates]
    <3>1. worker' = [worker EXCEPT ![w] = [s EXCEPT !.pc = "add", !.adds = s.adds \ {m}]]
      BY <2>1
    <3> QED BY <2>2, <3>1, WorkerMove
  <2>4. db' \in [Models -> {"none", "active", "pending"}] /\ created' \in [Models -> BOOLEAN]
    BY <2>1
  <2>5. erased' \in SUBSET Detectors
    BY <2>1 DEF Models
  <2> QED BY <1>7, <2>3, <2>4, <2>5 DEF UpdateRecord
<1>8. CASE DatabaseMissing(w)
  <2> DEFINE t == IF s.serving THEN [s EXCEPT !.pc = "ready", !.put = FALSE, !.gone = {}, !.adds = {}]
                  ELSE DownWorker
  <2>1. t \in WorkerStates
    BY <1>1, WorkerRecords, DownTyped DEF WorkerPCs
  <2>2. worker' = [worker EXCEPT ![w] = t]
    BY <1>8 DEF DatabaseMissing
  <2>3. worker' \in [Workers -> WorkerStates]
    BY <2>1, <2>2, WorkerMove
  <2>4. mixed' \in BOOLEAN
    BY <1>8, Zenon DEF DatabaseMissing
  <2>5. cached' \in [Workers -> [config : SUBSET Detectors, mtime : Nat]]
    BY <1>8 DEF DatabaseMissing
  <2> QED BY <1>8, <2>3, <2>4, <2>5 DEF DatabaseMissing
<1> QED BY <1>4, <1>5, <1>6, <1>7, <1>8

\* The events that concern a worker keep the types.
LEMMA EventTypes ==
    ASSUME TypeOK, NEW w \in Workers, WorkerEvent(w)
    PROVE  TypeOK'
<1> USE DEF TypeOK, outsideWorker, configVars, dbVars, clusterVars, historyVars
<1> DEFINE s == worker[w]
<1>1. s \in WorkerStates
  OBVIOUS
<1>2. \A x \in Events : Occurs(x) => count' \in [Events -> Nat]
  BY CountTyped
<1>3. CASE Lookup(w)
  <2>1. [s EXCEPT !.pc = "stat"] \in WorkerStates
    BY <1>1, WorkerRecords DEF WorkerPCs
  <2>2. worker' \in [Workers -> WorkerStates]
    BY <1>3, <2>1, WorkerMove DEF Lookup, WGoto
  <2> QED BY <1>2, <1>3, <2>2 DEF Lookup, Events
<1>4. ASSUME NEW c \in SUBSET Detectors, PutConfig(w, c) PROVE TypeOK'
  <2>1. [s EXCEPT !.pc = "diff", !.config = c, !.put = TRUE] \in WorkerStates
    BY <1>1, WorkerRecords DEF WorkerPCs
  <2>2. worker' \in [Workers -> WorkerStates] /\ mixed' \in BOOLEAN
    BY <1>4, <2>1, BeginsTyped DEF PutConfig
  <2> QED BY <1>2, <1>4, <2>2 DEF PutConfig, Events
<1>5. ASSUME NEW d \in Detectors, Provision(w, d) PROVE TypeOK'
  <2>1. {d} \X PodKinds \in SUBSET Models
    BY DEF Models, PodKinds, Kinds
  <2>2. [s EXCEPT !.pc = "add", !.adds = {d} \X PodKinds] \in WorkerStates
    BY <1>1, <2>1, WorkerRecords DEF WorkerPCs
  <2>3. worker' \in [Workers -> WorkerStates]
    BY <1>5, <2>2, WorkerMove DEF Provision
  <2> QED BY <1>2, <1>5, <2>3 DEF Provision, Events
<1>6. CASE KillWorker(w)
  <2>1. worker' \in [Workers -> WorkerStates]
    BY <1>6, DownTyped, WorkerMove DEF KillWorker
  <2>2. mixed' \in BOOLEAN
    BY <1>6, Zenon DEF KillWorker
  <2>3. cached' \in [Workers -> [config : SUBSET Detectors, mtime : Nat]]
    BY <1>6 DEF KillWorker
  <2> QED BY <1>2, <1>6, <2>1, <2>2, <2>3 DEF KillWorker, Events
<1> QED BY <1>3, <1>4, <1>5, <1>6 DEF WorkerEvent

\* What the steps of the updater assign to its record is of its type.
LEMMA UpdaterRecords ==
    ASSUME NEW u \in UpdaterStates
    PROVE  /\ \A p \in UpdaterPCs : [u EXCEPT !.pc = p] \in UpdaterStates
           /\ \A p \in UpdaterPCs, i \in SUBSET Detectors, l \in SUBSET Models :
                 [u EXCEPT !.pc = p, !.ids = i, !.left = l] \in UpdaterStates
           /\ \A p \in UpdaterPCs, l \in SUBSET Models : [u EXCEPT !.left = l, !.pc = p] \in UpdaterStates
           /\ \A p \in UpdaterPCs, l \in SUBSET Models : [u EXCEPT !.pc = p, !.left = l] \in UpdaterStates
           /\ \A p \in UpdaterPCs, i \in SUBSET Detectors : [u EXCEPT !.ids = i, !.pc = p] \in UpdaterStates
           /\ \A p \in UpdaterPCs, i \in SUBSET Detectors : [u EXCEPT !.pc = p, !.ids = i] \in UpdaterStates
           /\ \A p \in UpdaterPCs, b \in SUBSET Detectors : [u EXCEPT !.pc = p, !.base = b] \in UpdaterStates
           /\ \A p \in UpdaterPCs, d \in Detectors, i \in SUBSET Detectors, b \in BOOLEAN :
                 [u EXCEPT !.pc = p, !.det = d, !.ids = i, !.made = b] \in UpdaterStates
           /\ \A p \in UpdaterPCs, f \in [Kinds -> Nat], n \in SUBSET Kinds, l \in SUBSET Models :
                 [u EXCEPT !.pc = p, !.info = f, !.new = n, !.left = l] \in UpdaterStates
           /\ \A l \in SUBSET Models, b \in BOOLEAN : [u EXCEPT !.left = l, !.made = b] \in UpdaterStates
           /\ \A p \in UpdaterPCs, l \in SUBSET Models, b \in BOOLEAN :
                 [u EXCEPT !.pc = p, !.made = b, !.left = l] \in UpdaterStates
BY DEF UpdaterStates

\* An updater that starts.
LEMMA FreshTyped == FreshUpdater \in UpdaterStates
BY DEF FreshUpdater, UpdaterStates, UpdaterPCs

\* One round of a loop over models keeps the types.
LEMMA RoundTyped ==
    ASSUME updater \in UpdaterStates, NEW m, NEW p \in UpdaterPCs, Round(m, p)
    PROVE  updater' \in UpdaterStates
<1>1. updater.left \ {m} \in SUBSET Models /\ updater.pc \in UpdaterPCs
  BY DEF UpdaterStates
<1>2. \A q \in UpdaterPCs : [updater EXCEPT !.left = updater.left \ {m}, !.pc = q] \in UpdaterStates
  BY <1>1, UpdaterRecords
<1> QED BY <1>1, <1>2 DEF Round

\* What is done to a deployment is of its type.
LEMMA DeploymentTyped ==
    ASSUME dep \in [Models -> Deployments], NEW m \in Models,
           CreateDeployment(m) \/ PatchDeployment(m) \/ DeleteDeployment(m)
    PROVE  dep' \in [Models -> Deployments]
<1>1. /\ dep[m] \in Deployments
      /\ [dep[m] EXCEPT !.present = TRUE, !.patched = TRUE] \in Deployments
  BY DEF Deployments
<1>2. [NoDeployment EXCEPT !.old = dep[m].old \/ dep[m].pod # "none"] \in Deployments
  BY DEF Deployments, NoDeployment
<1>3. PICK x \in Deployments : dep' = [dep EXCEPT ![m] = x]
  BY <1>1, <1>2 DEF CreateDeployment, PatchDeployment, DeleteDeployment, Changes
<1> QED BY <1>3

\* What is done to the versions of a model is of its type.
LEMMA RepositoryTyped ==
    ASSUME repo \in [Models -> Seq([model : Nat, files : Stages])], NEW m \in Models, NEW n \in Nat,
           NewVersion(m, n) \/ WriteFile(m)
    PROVE  repo' \in [Models -> Seq([model : Nat, files : Stages])]
<1> DEFINE V == [model : Nat, files : Stages]
<1>1. repo[m] \in Seq(V)
  OBVIOUS
<1>2. CASE NewVersion(m, n)
  <2>1. [model |-> n, files |-> "dir"] \in V
    BY DEF Stages
  <2> DEFINE v == [model |-> n, files |-> "dir"]
  <2>2. repo' = [repo EXCEPT ![m] = Append(repo[m], v)]
    BY <1>2 DEF NewVersion
  <2> HIDE DEF V, v
  <2>3. Append(repo[m], v) \in Seq(V)
    BY <1>1, <2>1 DEF v
  <2>4. repo' \in [Models -> Seq(V)]
    BY <2>2, <2>3 DEF V
  <2> QED BY <2>4 DEF V
<1>3. CASE WriteFile(m)
  <2> DEFINE k == Len(repo[m])
             v == repo[m][k]
             x == [v EXCEPT !.files = NextFile(v)]
             s == [repo[m] EXCEPT ![k] = x]
  <2>1. repo' = [repo EXCEPT ![m] = s]
    BY <1>3 DEF WriteFile
  <2>2. s \in Seq(V)
    <3>1. CASE k = 0
      <4>1. s = repo[m]
        BY <1>1, <3>1
      <4> QED BY <1>1, <4>1
    <3>2. CASE k # 0
      <4>1. v \in V
        <5> HIDE DEF V
        <5>1. k \in 1 .. Len(repo[m])
          BY <1>1, <3>2
        <5> QED BY <1>1, <5>1
      <4>2. NextFile(v) \in Stages
        BY DEF NextFile, Stages
      <4>3. x \in V
        BY <4>1, <4>2
      <4> HIDE DEF V, x
      <4> QED BY <1>1, <3>2, <4>3
    <3> QED BY <3>1, <3>2
  <2> HIDE DEF V, s
  <2>3. repo' \in [Models -> Seq(V)]
    BY <2>1, <2>2 DEF V
  <2> QED BY <2>3 DEF V
<1> QED BY <1>2, <1>3

\* The deletions keep the types.
LEMMA DeletionTypes ==
    ASSUME TypeOK, ReadPending \/ DeleteOne \/ PollGone \/ DeleteRecords
    PROVE  TypeOK'
<1> USE DEF TypeOK, outsideUpdater, outsideCheck, Decides, configVars, UpdaterPCs
<1>1. /\ updater \in UpdaterStates /\ updater.ids \in SUBSET Detectors /\ updater.left \in SUBSET Models
      /\ updater.pc \in UpdaterPCs
  BY DEF UpdaterStates
<1>2. NextOf(updater.left) \subseteq Models /\ PodKinds \subseteq Kinds
  BY <1>1, NextOfLeft DEF PodKinds, Kinds
<1>3. CASE ReadPending
  <2> DEFINE p == IF PendingIds = {} THEN "baseline" ELSE "delete"
             l == PendingIds \X PodKinds
             i == PendingIds
  <2>1. p \in UpdaterPCs /\ i \in SUBSET Detectors /\ l \in SUBSET Models
    BY <1>2 DEF PendingIds, Models
  <2>2. updater' = [updater EXCEPT !.pc = p, !.ids = i, !.left = l]
    BY <1>3 DEF ReadPending
  <2> HIDE DEF p, i, l
  <2>3. updater' \in UpdaterStates
    <3> HIDE DEF TypeOK, outsideUpdater, outsideCheck, Decides, configVars, UpdaterPCs
    <3> QED BY <1>1, <2>1, <2>2, UpdaterRecords
  <2> QED BY <1>3, <2>3 DEF ReadPending
<1>4. CASE DeleteOne
  <2>1. PICK m \in Models : DeleteDeployment(m) /\ Round(m, "poll")
    BY <1>2, <1>4 DEF DeleteOne
  <2>2. dep' \in [Models -> Deployments] /\ updater' \in UpdaterStates
    BY <1>1, <2>1, DeploymentTyped, RoundTyped
  <2> QED BY <1>4, <2>2 DEF DeleteOne
<1>5. CASE PollGone
  <2>1. \E p \in UpdaterPCs : updater' = [updater EXCEPT !.pc = p]
    BY <1>5 DEF PollGone, UGoto
  <2>2. updater' \in UpdaterStates
    <3> HIDE DEF TypeOK, outsideUpdater, outsideCheck, Decides, configVars, UpdaterPCs
    <3> QED BY <1>1, <2>1, UpdaterRecords
  <2> QED BY <1>5, <2>2 DEF PollGone
<1>6. CASE DeleteRecords
  <2>1. PICK d \in updater.ids :
          /\ db' = [m \in Models |-> IF m[1] = d THEN "none" ELSE db[m]]
          /\ created' = [m \in Models |-> IF m[1] = d THEN FALSE ELSE created[m]]
          /\ erased' = IF d \in ActiveIds THEN erased \cup {d} ELSE erased
          /\ updater' = [updater EXCEPT !.ids = updater.ids \ {d},
                                        !.pc = IF updater.ids = {d} THEN "baseline" ELSE updater.pc]
    BY <1>6 DEF DeleteRecords
  <2>2. updater.ids \ {d} \in SUBSET Detectors
    BY <1>1
  <2> DEFINE i == updater.ids \ {d}
             p == IF updater.ids = {d} THEN "baseline" ELSE updater.pc
  <2>3. updater' \in UpdaterStates
    <3>1. updater' = [updater EXCEPT !.ids = i, !.pc = p] /\ p \in UpdaterPCs /\ i \in SUBSET Detectors
      BY <1>1, <2>1
    <3> HIDE DEF i, p
    <3> HIDE DEF TypeOK, outsideUpdater, outsideCheck, Decides, configVars, UpdaterPCs
    <3> QED BY <1>1, <3>1, UpdaterRecords
  <2>4. /\ db' \in [Models -> {"none", "active", "pending"}] /\ created' \in [Models -> BOOLEAN]
        /\ erased' \in SUBSET Detectors
    BY <1>1, <2>1
  <2> QED BY <1>6, <2>3, <2>4 DEF DeleteRecords
<1> QED BY <1>3, <1>4, <1>5, <1>6

\* The check of a detector, up to the rollout, keeps the types.
LEMMA SavingTypes ==
    ASSUME TypeOK, updater.pc \in Checking => updater.det \in Detectors,
           \/ TakeBaseline \/ ListDetectors \/ PickDetector \/ FetchModelInfo
           \/ SaveVersion \/ SaveFile \/ EnsureDeployments \/ PatchDeployments
    PROVE  TypeOK'
<1> USE DEF TypeOK, outsideUpdater, outsideCheck, Decides, configVars, UpdaterPCs
<1>0. "save" \in UpdaterPCs /\ "ensure" \in UpdaterPCs /\ "flag" \in UpdaterPCs /\ "status" \in UpdaterPCs
  OBVIOUS
<1>1. /\ updater \in UpdaterStates /\ updater.ids \in SUBSET Detectors /\ updater.left \in SUBSET Models
      /\ updater.pc \in UpdaterPCs /\ updater.info \in [Kinds -> Nat] /\ updater.made \in BOOLEAN
  BY DEF UpdaterStates
<1>2. NextOf(updater.left) \subseteq Models /\ PodKinds \subseteq Kinds
  BY <1>1, NextOfLeft DEF PodKinds, Kinds
<1>3. ActiveIds \in SUBSET Detectors
  BY DEF ActiveIds
<1>4. \A K \in SUBSET Kinds : updater.pc \in Checking => TargetModels(K) \in SUBSET Models
  BY DEF TargetModels, Target, Models
<1>5. CASE TakeBaseline
  <2>1. updater' \in UpdaterStates
    BY <1>1, <1>3, <1>5, UpdaterRecords DEF TakeBaseline
  <2> QED BY <1>5, <2>1 DEF TakeBaseline
<1>6. CASE ListDetectors
  <2>1. updater' \in UpdaterStates
    <3> DEFINE p == IF ActiveIds = {} THEN "wait" ELSE "pick"
    <3>1. updater' = [updater EXCEPT !.pc = p, !.ids = ActiveIds] /\ p \in UpdaterPCs
      BY <1>6 DEF ListDetectors
    <3> HIDE DEF p
    <3> HIDE DEF TypeOK, outsideUpdater, outsideCheck, Decides, configVars, UpdaterPCs
    <3> QED BY <1>1, <1>3, <3>1, UpdaterRecords
  <2> QED BY <1>6, <2>1 DEF ListDetectors
<1>7. CASE PickDetector
  <2>1. PICK d \in updater.ids :
          updater' = [updater EXCEPT !.pc = "fetch", !.det = d, !.ids = updater.ids \ {d}, !.made = FALSE]
    BY <1>7 DEF PickDetector
  <2>2. d \in Detectors /\ updater.ids \ {d} \in SUBSET Detectors
    BY <1>1
  <2>3. updater' \in UpdaterStates
    <3>1. "fetch" \in UpdaterPCs
      OBVIOUS
    <3> HIDE DEF TypeOK, outsideUpdater, outsideCheck, Decides, configVars, UpdaterPCs
    <3> QED BY <1>1, <2>1, <2>2, <3>1, UpdaterRecords
  <2> QED BY <1>7, <2>3 DEF PickDetector
<1>8. CASE FetchModelInfo
  <2> DEFINE n == {k \in Kinds : ShouldUpdate(TargetModel(k), cloud[TargetModel(k)])}
             p == IF n = {} THEN "ensure" ELSE "save"
             f == [k \in Kinds |-> cloud[TargetModel(k)]]
             l == TargetModels(IF n = {} THEN PodKinds ELSE n)
  <2>1. updater' = [updater EXCEPT !.pc = p, !.info = f, !.new = n, !.left = l]
    BY <1>8 DEF FetchModelInfo
  <2>2. n \in SUBSET Kinds /\ p \in UpdaterPCs
    OBVIOUS
  <2>3. f \in [Kinds -> Nat]
    <3>1. updater.det \in Detectors
      BY <1>8 DEF FetchModelInfo, UAt, Checking
    <3>2. \A k \in Kinds : cloud[TargetModel(k)] \in Nat
      BY <3>1 DEF TargetModel, Models
    <3> QED BY <3>2
  <2>4. l \in SUBSET Models
    BY <1>2, <1>4, <1>8, <2>2 DEF FetchModelInfo, UAt, Checking
  <2> HIDE DEF n, p, f, l
  <2>5. updater' \in UpdaterStates
    <3> HIDE DEF TypeOK, outsideUpdater, outsideCheck, Decides, configVars, UpdaterPCs
    <3> QED BY <1>1, <2>1, <2>2, <2>3, <2>4, UpdaterRecords
  <2> QED BY <1>8, <2>5 DEF FetchModelInfo
<1>9. CASE SaveVersion
  <2>1. PICK m \in Models : NewVersion(m, updater.info[m[2]])
    BY <1>2, <1>9 DEF SaveVersion
  <2>2. updater.info[m[2]] \in Nat
    BY <1>1 DEF Models
  <2>3. repo' \in [Models -> Seq([model : Nat, files : Stages])]
    BY <2>1, <2>2, RepositoryTyped
  <2>4. updater' \in UpdaterStates
    BY <1>1, <1>9, UpdaterRecords DEF SaveVersion, UGoto
  <2> QED BY <1>9, <2>3, <2>4 DEF SaveVersion
<1>10. CASE SaveFile
  <2>1. PICK m \in Models :
          /\ WriteFile(m)
          /\ \/ updater' = updater
             \/ updater' = [updater EXCEPT !.pc = "save", !.left = updater.left \ {m}]
             \/ updater' = [updater EXCEPT !.pc = "ensure", !.left = TargetModels(PodKinds)]
    BY <1>2, <1>10 DEF SaveFile
  <2>2. repo' \in [Models -> Seq([model : Nat, files : Stages])]
    BY <2>1, RepositoryTyped, 0 \in Nat
  <2>3. TargetModels(PodKinds) \in SUBSET Models /\ updater.left \ {m} \in SUBSET Models
    BY <1>1, <1>2, <1>4, <1>10 DEF SaveFile, UAt, Checking
  <2>4. updater' \in UpdaterStates
    <3> HIDE DEF TypeOK, outsideUpdater, outsideCheck, Decides, configVars, UpdaterPCs
    <3> DEFINE r == updater.left \ {m}
               l == TargetModels(PodKinds)
    <3>0. l \in SUBSET Models /\ r \in SUBSET Models
      BY <2>3
    <3>9. \/ updater' = updater
           \/ updater' = [updater EXCEPT !.pc = "save", !.left = r]
           \/ updater' = [updater EXCEPT !.pc = "ensure", !.left = l]
      BY <2>1
    <3> HIDE DEF r, l
    <3>1. [updater EXCEPT !.pc = "save", !.left = r] \in UpdaterStates
      BY <1>0, <1>1, <3>0, UpdaterRecords
    <3>2. [updater EXCEPT !.pc = "ensure", !.left = l] \in UpdaterStates
      BY <1>0, <1>1, <3>0, UpdaterRecords
    <3> QED BY <1>1, <3>9, <3>1, <3>2
  <2> QED BY <1>10, <2>2, <2>4 DEF SaveFile
<1>11. CASE EnsureDeployments
  <2>1. PICK m \in NextOf(updater.left) :
          LET made == updater.made \/ ~dep[m].present
              patch == updater.new # {} /\ ~made
          IN
          /\ CreateDeployment(m)
          /\ updater' =
               IF updater.left # {m} THEN [updater EXCEPT !.left = updater.left \ {m}, !.made = made]
               ELSE [updater EXCEPT !.pc = IF patch THEN "patch" ELSE "complete", !.made = made,
                                    !.left = IF patch THEN TargetModels(PodKinds) ELSE {}]
    BY <1>11 DEF EnsureDeployments
  <2> DEFINE b == updater.made \/ ~dep[m].present
             patch == updater.new # {} /\ ~b
             p == IF patch THEN "patch" ELSE "complete"
             l == IF patch THEN TargetModels(PodKinds) ELSE {}
             r == updater.left \ {m}
  <2>2. \/ updater' = [updater EXCEPT !.left = r, !.made = b]
        \/ updater' = [updater EXCEPT !.pc = p, !.made = b, !.left = l]
    BY <2>1
  <2>3. b \in BOOLEAN
    OBVIOUS
  <2>4. l \in SUBSET Models /\ r \in SUBSET Models /\ p \in UpdaterPCs
    BY <1>1, <1>2, <1>4, <1>11 DEF EnsureDeployments, UAt, Checking
  <2>5. dep' \in [Models -> Deployments]
    BY <1>2, <2>1, DeploymentTyped
  <2> HIDE DEF b, patch, p, l, r
  <2>6. updater' \in UpdaterStates
    <3> HIDE DEF TypeOK, outsideUpdater, outsideCheck, Decides, configVars, UpdaterPCs
    <3>1. [updater EXCEPT !.left = r, !.made = b] \in UpdaterStates
      BY <1>1, <2>3, <2>4, UpdaterRecords
    <3>2. [updater EXCEPT !.pc = p, !.made = b, !.left = l] \in UpdaterStates
      BY <1>1, <2>3, <2>4, UpdaterRecords
    <3> QED BY <2>2, <3>1, <3>2
  <2> QED BY <1>11, <2>5, <2>6 DEF EnsureDeployments
<1>12. CASE PatchDeployments
  <2>1. PICK m \in Models : PatchDeployment(m) /\ Round(m, "starting")
    BY <1>2, <1>12 DEF PatchDeployments
  <2>2. dep' \in [Models -> Deployments] /\ updater' \in UpdaterStates
    BY <1>1, <2>1, DeploymentTyped, RoundTyped
  <2> QED BY <1>12, <2>2 DEF PatchDeployments
<1> QED BY <1>5, <1>6, <1>7, <1>8, <1>9, <1>10, <1>11, <1>12

\* The end of the check of a detector, the wait and the failures keep the types.
LEMMA RolloutTypes ==
    ASSUME TypeOK, updater.pc \in Checking => updater.det \in Detectors,
           \/ AwaitRolloutStart \/ AwaitRollout \/ CleanUp \/ CheckComplete \/ FlagCreated
           \/ CheckChanged \/ EndWait \/ RefreshStatus \/ TablesMissing \/ UpdaterFault
    PROVE  TypeOK'
<1> USE DEF TypeOK, outsideUpdater, outsideCheck, Decides, configVars, UpdaterPCs
<1>0. "save" \in UpdaterPCs /\ "ensure" \in UpdaterPCs /\ "flag" \in UpdaterPCs /\ "status" \in UpdaterPCs
  OBVIOUS
<1>1. /\ updater \in UpdaterStates /\ updater.left \in SUBSET Models
  BY DEF UpdaterStates
<1>2. NextOf(updater.left) \subseteq Models /\ PodKinds \subseteq Kinds
  BY <1>1, NextOfLeft DEF PodKinds, Kinds
<1>3. \A p \in UpdaterPCs : UGoto(p) => updater' \in UpdaterStates
  <2> HIDE DEF TypeOK, outsideUpdater, outsideCheck, Decides, configVars, UpdaterPCs
  <2> QED BY <1>1, UpdaterRecords DEF UGoto
<1>4. \A m \in Models, v \in BOOLEAN : SetFlag(m, v) => created' \in [Models -> BOOLEAN]
  BY DEF SetFlag
<1>5. CASE AwaitRolloutStart
  <2>1. UGoto("changed") \/ UGoto("rolling")
    BY <1>5 DEF AwaitRolloutStart
  <2> QED BY <1>3, <1>5, <2>1 DEF AwaitRolloutStart
<1>6. CASE AwaitRollout
  <2>1. UGoto("changed") \/ UGoto("cleanup")
    BY <1>6 DEF AwaitRollout
  <2> QED BY <1>3, <1>6, <2>1 DEF AwaitRollout
<1>7. CASE CleanUp
  <2>1. low' \in [Models -> Nat]
    <3>1. \A m \in Models : Len(repo[m]) \in Nat /\ low[m] \in Nat
      OBVIOUS
    <3>2. \A m \in Models : Len(repo[m]) - low[m] + 1 > 2 => Len(repo[m]) - 1 \in Nat
      BY <3>1
    <3> HIDE DEF TypeOK
    <3> QED BY <1>7, <3>1, <3>2 DEF CleanUp, DeleteOldVersions
  <2>2. updater' \in UpdaterStates
    BY <1>3, <1>7 DEF CleanUp
  <2> QED BY <1>7, <2>1, <2>2 DEF CleanUp
<1>8. CASE CheckComplete
  <2>1. TargetModels(PodKinds) \in SUBSET Models
    BY <1>2, <1>8 DEF CheckComplete, UAt, Checking, TargetModels, Target, Models
  <2>3. UGoto("changed") => updater' \in UpdaterStates
    BY <1>3
  <2>2. updater' \in UpdaterStates
    <3> HIDE DEF TypeOK, outsideUpdater, outsideCheck, Decides, configVars, UpdaterPCs
    <3> DEFINE l == TargetModels(PodKinds)
    <3>1. updater' = [updater EXCEPT !.pc = "flag", !.left = l] \/ UGoto("changed")
      BY <1>8 DEF CheckComplete
    <3>2. l \in SUBSET Models
      BY <2>1
    <3> HIDE DEF l
    <3>3. [updater EXCEPT !.pc = "flag", !.left = l] \in UpdaterStates
      BY <1>0, <1>1, <3>2, UpdaterRecords
    <3> QED BY <2>3, <3>1, <3>3
  <2> QED BY <1>8, <2>2 DEF CheckComplete
<1>9. CASE FlagCreated
  <2>1. PICK m \in Models : SetFlag(m, TRUE) /\ Round(m, "changed")
    BY <1>2, <1>9 DEF FlagCreated
  <2>2. created' \in [Models -> BOOLEAN] /\ updater' \in UpdaterStates
    BY <1>1, <1>4, <2>1, RoundTyped
  <2> QED BY <1>9, <2>2 DEF FlagCreated
<1>10. CASE CheckChanged
  <2>1. UGoto("wait") \/ UGoto("pick")
    BY <1>10 DEF CheckChanged
  <2> QED BY <1>3, <1>10, <2>1 DEF CheckChanged
<1>11. CASE EndWait
  <2> DEFINE l == {d \in Detectors : Records(d) # {}} \X PodKinds
  <2>1. l \in SUBSET Models
    BY <1>2 DEF Models
  <2>2. updater' = FreshUpdater \/ updater' = [FreshUpdater EXCEPT !.pc = "status", !.left = l]
    BY <1>11 DEF EndWait
  <2> HIDE DEF l
  <2>3. updater' \in UpdaterStates
    <3> HIDE DEF TypeOK, outsideUpdater, outsideCheck, Decides, configVars, UpdaterPCs
    <3>1. [FreshUpdater EXCEPT !.pc = "status", !.left = l] \in UpdaterStates
      BY <1>0, <2>1, FreshTyped, UpdaterRecords
    <3> QED BY <2>2, <3>1, FreshTyped
  <2> QED BY <1>11, <2>3 DEF EndWait
<1>12. CASE RefreshStatus
  <2>1. PICK m \in Models : SetFlag(m, dep[m].present) /\ Round(m, "pending")
    BY <1>2, <1>12 DEF RefreshStatus
  <2>2. dep[m].present \in BOOLEAN
    BY DEF Deployments
  <2>3. created' \in [Models -> BOOLEAN] /\ updater' \in UpdaterStates
    BY <1>1, <1>4, <2>1, <2>2, RoundTyped
  <2> QED BY <1>12, <2>3 DEF RefreshStatus
<1>13. CASE TablesMissing
  <2>1. updater' \in UpdaterStates
    BY <1>1, <1>13, FreshTyped, UpdaterRecords DEF TablesMissing
  <2> QED BY <1>13, <2>1 DEF TablesMissing
<1>14. CASE UpdaterFault
  <2>1. updater' \in UpdaterStates
    BY <1>3, <1>14, FreshTyped DEF UpdaterFault, CheckFails, KillUpdater
  <2>2. count' \in [Events -> Nat]
    BY <1>14, CountTyped DEF UpdaterFault, CheckFails, KillUpdater, Events
  <2> QED BY <1>14, <2>1, <2>2 DEF UpdaterFault, CheckFails, KillUpdater
<1> QED BY <1>5, <1>6, <1>7, <1>8, <1>9, <1>10, <1>11, <1>12, <1>13, <1>14

\* The pods and the cloud keep the types.
LEMMA ClusterTypes ==
    ASSUME TypeOK, NEW m \in Models,
           StartPod(m) \/ PodReady(m) \/ PodCannotLoad(m) \/ PodGone(m) \/ RestartPod(m) \/ Publish(m)
    PROVE  TypeOK'
<1> USE DEF TypeOK, outsideCluster, configVars, dbVars, historyVars
<1>1. dep[m] \in Deployments /\ LatestVersion(m) \in Nat
  BY DEF LatestVersion
<1>2. ASSUME NEW x \in Deployments, dep' = [dep EXCEPT ![m] = x] PROVE dep' \in [Models -> Deployments]
  BY <1>2
<1> DEFINE n == LatestVersion(m)
<1> HIDE DEF n
<1>3. n \in Nat
  BY <1>1 DEF n
<1>4. CASE StartPod(m)
  <2> DEFINE x == [dep[m] EXCEPT !.patched = FALSE, !.pod = "loading", !.ver = n,
                                 !.old = dep[m].old \/ dep[m].pod # "none"]
  <2>1. x \in Deployments /\ dep' = [dep EXCEPT ![m] = x]
    BY <1>1, <1>3, <1>4 DEF StartPod, Changes, Deployments, n
  <2> HIDE DEF x
  <2> QED BY <1>2, <1>4, <2>1 DEF StartPod
<1>5. CASE PodReady(m)
  <2> DEFINE x == [dep[m] EXCEPT !.pod = "ready", !.serves = dep[m].ver]
  <2>1. x \in Deployments /\ dep' = [dep EXCEPT ![m] = x]
    BY <1>1, <1>5 DEF PodReady, Changes, Deployments
  <2> HIDE DEF x
  <2> QED BY <1>2, <1>5, <2>1 DEF PodReady
<1>6. CASE PodCannotLoad(m)
  <2> DEFINE x == [dep[m] EXCEPT !.ver = n]
  <2>1. x \in Deployments /\ dep' = [dep EXCEPT ![m] = x]
    BY <1>1, <1>3, <1>6 DEF PodCannotLoad, Changes, Deployments, n
  <2> HIDE DEF x
  <2> QED BY <1>2, <1>6, <2>1 DEF PodCannotLoad
<1>7. CASE PodGone(m)
  <2> DEFINE x == [dep[m] EXCEPT !.old = FALSE]
  <2>1. x \in Deployments /\ dep' = [dep EXCEPT ![m] = x]
    BY <1>1, <1>7 DEF PodGone, Changes, Deployments
  <2> HIDE DEF x
  <2> QED BY <1>2, <1>7, <2>1 DEF PodGone
<1>8. CASE RestartPod(m)
  <2> DEFINE x == [dep[m] EXCEPT !.pod = "loading", !.ver = n,
                                 !.serves = IF dep[m].pod = "ready" THEN 0 ELSE dep[m].serves]
  <2>1. x \in Deployments /\ dep' = [dep EXCEPT ![m] = x]
    BY <1>1, <1>3, <1>8 DEF RestartPod, Changes, Deployments, n
  <2> HIDE DEF x
  <2>2. count' \in [Events -> Nat]
    BY <1>8, CountTyped DEF RestartPod, Events
  <2> QED BY <1>2, <1>8, <2>1, <2>2 DEF RestartPod
<1>9. CASE Publish(m)
  <2>1. count' \in [Events -> Nat]
    BY <1>9, CountTyped DEF Publish, Events
  <2>2. cloud' \in [Models -> Nat]
    BY <1>9 DEF Publish
  <2> QED BY <1>9, <2>1, <2>2 DEF Publish
<1> QED BY <1>4, <1>5, <1>6, <1>7, <1>8, <1>9

-----------------------------------------------------------------------------
(* What each process leaves alone. *)

\* A step of a worker changes neither the clock nor what the cluster and the updater have.
LEMMA WorkerFrame ==
    ASSUME NEW w \in Workers, WorkerStep(w) \/ WorkerEvent(w)
    PROVE  UNCHANGED <<now, dep, repo, low, cloud, updater>>
BY DEF WorkerStep, WorkerEvent, outsideWorker, clusterVars, DropTables, CreateTables, StatConfig,
       LoadConfig, TruncateConfig, WriteConfig, Diff, MarkPending, AddRecord, UpdateRecord,
       DatabaseMissing, Lookup, PutConfig, Provision, KillWorker

\* A step of the updater changes nothing of the workers.
LEMMA UpdaterFrame ==
    ASSUME UpdaterStep \/ UpdaterFault
    PROVE  UNCHANGED <<now, file, cached, rewritten, worker, tables, mixed, cloud, forgot>>
BY DEF UpdaterStep, UpdaterFault, outsideUpdater, outsideCheck, Decides, configVars, ReadPending,
       DeleteOne, PollGone, DeleteRecords, TakeBaseline, ListDetectors, PickDetector, FetchModelInfo,
       SaveVersion, SaveFile, EnsureDeployments, PatchDeployments, AwaitRolloutStart, AwaitRollout,
       CleanUp, CheckComplete, FlagCreated, CheckChanged, EndWait, RefreshStatus, TablesMissing,
       CheckFails, KillUpdater

\* The pods and the cloud change nothing but themselves.
LEMMA ClusterFrame ==
    ASSUME ClusterStep \/ ClusterEvent
    PROVE  UNCHANGED <<now, file, cached, rewritten, worker, tables, db, created, repo, low, updater,
                       mixed, erased, forgot>>
BY DEF ClusterStep, ClusterEvent, outsideCluster, configVars, dbVars, historyVars, StartPod, PodReady,
       PodCannotLoad, PodGone, RestartPod, Publish

\* The clock changes nothing else.
LEMMA TickFrame ==
    ASSUME Tick
    PROVE  /\ now' = now + 1
           /\ UNCHANGED <<file, cached, rewritten, worker, tables, db, created, dep, repo, low, cloud,
                          updater, mixed, erased, forgot, count>>
BY DEF Tick, configVars, dbVars, clusterVars, historyVars

-----------------------------------------------------------------------------
(* The types, and the detector that is being checked. *)

DetectorKnown == updater.pc \in Checking => updater.det \in Detectors

\* The updater goes on with the detector it picked.
LEMMA DetectorStep ==
    ASSUME TypeOK, DetectorKnown, UpdaterStep \/ UpdaterFault
    PROVE  DetectorKnown'
<1> USE DEF Checking, UAt, UGoto, DetectorKnown
<1>1. updater \in UpdaterStates /\ updater.ids \in SUBSET Detectors
  BY DEF TypeOK, UpdaterStates
<1>2. CASE ReadPending \/ DeleteOne \/ PollGone \/ DeleteRecords
  <2>1. CASE ReadPending \/ DeleteOne
    BY <1>1, <2>1 DEF ReadPending, DeleteOne, Round, UpdaterStates
  <2>2. CASE PollGone \/ DeleteRecords
    BY <1>1, <2>2 DEF PollGone, DeleteRecords, UpdaterStates
  <2> QED BY <1>2, <2>1, <2>2
<1>3. CASE TakeBaseline \/ ListDetectors \/ PickDetector \/ FetchModelInfo \/ SaveVersion
  <2>1. CASE TakeBaseline \/ ListDetectors
    BY <1>1, <2>1 DEF TakeBaseline, ListDetectors, UpdaterStates
  <2>2. CASE PickDetector
    BY <1>1, <2>2 DEF PickDetector, UpdaterStates
  <2>3. CASE FetchModelInfo \/ SaveVersion
    BY <1>1, <2>3 DEF FetchModelInfo, SaveVersion, UpdaterStates
  <2> QED BY <1>3, <2>1, <2>2, <2>3
<1>4. CASE SaveFile
  BY <1>1, <1>4 DEF SaveFile, UpdaterStates
<1>5. CASE EnsureDeployments
  BY <1>1, <1>5 DEF EnsureDeployments, UpdaterStates
<1>6. CASE PatchDeployments \/ AwaitRolloutStart \/ AwaitRollout \/ CleanUp
  BY <1>1, <1>6 DEF PatchDeployments, AwaitRolloutStart, AwaitRollout, CleanUp, Round, UpdaterStates
<1>7. CASE CheckComplete \/ FlagCreated \/ CheckChanged
  BY <1>1, <1>7 DEF CheckComplete, FlagCreated, CheckChanged, Round, UpdaterStates
<1>8. CASE EndWait
  BY <1>1, <1>8 DEF EndWait, FreshUpdater
<1>9. CASE RefreshStatus
  BY <1>1, <1>9 DEF RefreshStatus, Round, UpdaterStates
<1>10. CASE TablesMissing \/ UpdaterFault
  BY <1>1, <1>10 DEF TablesMissing, UpdaterFault, CheckFails, KillUpdater, FreshUpdater, UpdaterStates
<1> QED BY <1>2, <1>3, <1>4, <1>5, <1>6, <1>7, <1>8, <1>9, <1>10 DEF UpdaterStep

\* Every step keeps the types.
LEMMA StepTypes ==
    ASSUME TypeOK, DetectorKnown, [Next]_vars
    PROVE  TypeOK' /\ DetectorKnown'
<1>1. CASE UNCHANGED vars
  BY <1>1 DEF TypeOK, DetectorKnown, vars, configVars, dbVars, clusterVars, historyVars
<1>2. CASE Tick
  <2>1. now' \in Nat
    BY <1>2, TickFrame DEF TypeOK
  <2> QED BY <1>2, <2>1, TickFrame DEF TypeOK, DetectorKnown
<1>3. ASSUME NEW w \in Workers, WorkerStep(w) PROVE TypeOK' /\ DetectorKnown'
  <2>1. TypeOK'
    BY <1>3, StartTypes, ReconcileTypes DEF WorkerStep
  <2> QED BY <1>3, <2>1, WorkerFrame DEF DetectorKnown
<1>4. ASSUME NEW w \in Workers, WorkerEvent(w) PROVE TypeOK' /\ DetectorKnown'
  BY <1>4, EventTypes, WorkerFrame DEF DetectorKnown
<1>5. CASE UpdaterStep
  <2>1. TypeOK'
    BY <1>5, DeletionTypes, SavingTypes, RolloutTypes DEF UpdaterStep, DetectorKnown
  <2> QED BY <1>5, <2>1, DetectorStep
<1>6. CASE UpdaterFault
  BY <1>6, RolloutTypes, DetectorStep DEF DetectorKnown
<1>7. CASE ClusterStep \/ ClusterEvent
  <2>1. TypeOK'
    BY <1>7, ClusterTypes DEF ClusterStep, ClusterEvent
  <2> QED BY <1>7, <2>1, ClusterFrame DEF DetectorKnown
<1> QED BY <1>1, <1>2, <1>3, <1>4, <1>5, <1>6, <1>7 DEF Next

\* The types hold initially.
LEMMA InitTypes == Init => TypeOK /\ DetectorKnown
<1> SUFFICES ASSUME Init PROVE TypeOK /\ DetectorKnown
  OBVIOUS
<1> USE DEF Init
<1>1. worker \in [Workers -> WorkerStates] /\ updater \in UpdaterStates
  BY DownTyped, FreshTyped
<1>2. dep \in [Models -> Deployments]
  BY DEF NoDeployment, Deployments
<1>3. repo \in [Models -> Seq([model : Nat, files : Stages])]
  <2> DEFINE v == [model |-> 1, files |-> IF 1 \in Binary THEN "id" ELSE "metadata"]
             V == [model : Nat, files : Stages]
  <2>1. v \in V
    BY DEF Stages
  <2>2. repo = [m \in Models |-> IF m \in Preloaded THEN <<v>> ELSE <<>>]
    OBVIOUS
  <2> HIDE DEF v, V
  <2>3. <<v>> \in Seq(V) /\ <<>> \in Seq(V)
    BY <2>1
  <2>4. repo \in [Models -> Seq(V)]
    BY <2>2, <2>3
  <2> QED BY <2>4 DEF V
<1>4. DetectorKnown
  BY DEF DetectorKnown, FreshUpdater, Checking
<1> QED BY <1>1, <1>2, <1>3, <1>4 DEF TypeOK, Events

\* The control plane keeps its types, and the updater checks only detectors.
THEOREM ControlTypes == Spec => [](TypeOK /\ DetectorKnown)
<1>1. TypeOK /\ DetectorKnown /\ [Next]_vars => (TypeOK /\ DetectorKnown)'
  BY StepTypes
<1> QED BY <1>1, InitTypes, PTL DEF Spec

-----------------------------------------------------------------------------
(* The cache of the configuration. *)

\* What a step does to the file, the caches and the mtimes the workers remember.
LEMMA FileMoves ==
    ASSUME TypeOK, NEW w \in Workers, WorkerStep(w) \/ WorkerEvent(w)
    PROVE  \/ /\ UNCHANGED <<file, cached, rewritten>>
              /\ \A v \in Workers : worker'[v].stat \in {0, worker[v].stat, file.mtime}
           \/ LoadConfig(w) \/ TruncateConfig(w) \/ WriteConfig(w)
           \/ /\ UNCHANGED <<file, rewritten>>
              /\ cached' = [cached EXCEPT ![w] = [config |-> {}, mtime |-> 0]]
              /\ \A v \in Workers : worker'[v].stat \in {0, worker[v].stat}
<1> USE DEF outsideWorker, configVars, dbVars, historyVars, WGoto
<1>1. \A v \in Workers : worker[v] \in WorkerStates
  BY DEF TypeOK
<1>2. worker \in [Workers -> WorkerStates]
  BY DEF TypeOK
<1>3. CASE DropTables(w)
  BY <1>1, <1>2, <1>3 DEF DropTables, Begins, DownWorker, WorkerStates
<1>4. CASE CreateTables(w)
  BY <1>1, <1>2, <1>4 DEF CreateTables, WorkerStates
<1>5. CASE StatConfig(w)
  <2>1. cached[w].config \in SUBSET Detectors
    BY DEF TypeOK
  <2>2. CASE Answered(w, cached[w].config)
    BY <1>5, <2>1, <2>2, AnsweredMoves DEF StatConfig
  <2>3. CASE worker' = [worker EXCEPT ![w] = [worker[w] EXCEPT !.pc = "load", !.stat = file.mtime]]
    BY <1>1, <1>2, <1>5, <2>3 DEF StatConfig, WorkerStates
  <2> QED BY <1>5, <2>2, <2>3 DEF StatConfig
<1>6. CASE Diff(w)
  BY <1>1, <1>2, <1>6 DEF Diff, WorkerStates
<1>7. CASE MarkPending(w)
  BY <1>1, <1>2, <1>7 DEF MarkPending, WorkerStates
<1>8. CASE AddRecord(w)
  BY <1>1, <1>2, <1>8 DEF AddRecord, WorkerStates
<1>9. CASE UpdateRecord(w)
  BY <1>1, <1>2, <1>9 DEF UpdateRecord, WorkerStates
<1>10. CASE DatabaseMissing(w)
  BY <1>1, <1>2, <1>10 DEF DatabaseMissing, DownWorker, WorkerStates
<1>11. CASE Lookup(w)
  BY <1>1, <1>2, <1>11 DEF Lookup, WorkerStates
<1>12. ASSUME NEW c \in SUBSET Detectors, PutConfig(w, c)
       PROVE  /\ UNCHANGED <<file, cached, rewritten>>
              /\ \A v \in Workers : worker'[v].stat = worker[v].stat
  BY <1>1, <1>2, <1>12 DEF PutConfig, Begins, WorkerStates
<1>13. ASSUME NEW d \in Detectors, Provision(w, d)
       PROVE  /\ UNCHANGED <<file, cached, rewritten>>
              /\ \A v \in Workers : worker'[v].stat = worker[v].stat
  BY <1>1, <1>2, <1>13 DEF Provision, WorkerStates
<1>14. CASE KillWorker(w)
  BY <1>1, <1>2, <1>14 DEF KillWorker, DownWorker, WorkerStates
<1> QED BY <1>3, <1>4, <1>5, <1>6, <1>7, <1>8, <1>9, <1>10, <1>11, <1>12, <1>13, <1>14
        DEF WorkerStep, WorkerEvent

\* Every step keeps the caches and the file's mtimes in step.
LEMMA MtimeStep ==
    ASSUME TypeOK, MtimeInv, [Next]_vars
    PROVE  MtimeInv'
<1>0. /\ now \in Nat /\ file.mtime \in Nat /\ rewritten \in Nat
      /\ cached \in [Workers -> [config : SUBSET Detectors, mtime : Nat]]
      /\ \A v \in Workers : cached[v].mtime \in Nat /\ worker[v].stat \in Nat
  BY DEF TypeOK, WorkerStates
<1>1. CASE UNCHANGED <<now, file, cached, rewritten, worker>>
  BY <1>1 DEF MtimeInv
<1>2. CASE Tick
  BY <1>0, <1>2, TickFrame DEF MtimeInv
<1>3. ASSUME NEW w \in Workers, WorkerStep(w) \/ WorkerEvent(w) PROVE MtimeInv'
  <2>0. now' = now
    BY <1>3, WorkerFrame
  <2>1. CASE /\ UNCHANGED <<file, cached, rewritten>>
             /\ \A v \in Workers : worker'[v].stat \in {0, worker[v].stat, file.mtime}
    BY <1>0, <2>0, <2>1 DEF MtimeInv
  <2>2. CASE /\ UNCHANGED <<file, rewritten>>
             /\ cached' = [cached EXCEPT ![w] = [config |-> {}, mtime |-> 0]]
             /\ \A v \in Workers : worker'[v].stat \in {0, worker[v].stat}
    BY <1>0, <2>0, <2>2 DEF MtimeInv
  <2>3. CASE LoadConfig(w)
    <3>1. UNCHANGED <<file, rewritten>> /\ \A v \in Workers : worker'[v].stat = worker[v].stat
      <4>1. PICK c \in SUBSET Detectors : Answered(w, c)
        BY <2>3 DEF LoadConfig, TypeOK
      <4> QED BY <2>3, <4>1, AnsweredMoves DEF LoadConfig
    <3>2. \/ cached' = cached
          \/ \E c \in SUBSET Detectors :
                /\ c = {} \/ (file.state = "whole" /\ c = file.config)
                /\ cached' = [cached EXCEPT ![w] = [config |-> c, mtime |-> worker[w].stat]]
      BY <2>3 DEF LoadConfig, TypeOK
    <3> QED BY <1>0, <2>0, <3>1, <3>2 DEF MtimeInv
  <2>4. CASE TruncateConfig(w)
    <3>1. /\ file' = [state |-> "torn", config |-> {}, mtime |-> now] /\ cached' = cached
          /\ rewritten' = IF file.state = "whole" THEN file.mtime ELSE rewritten
          /\ \A v \in Workers : worker'[v].stat = worker[v].stat
      BY <2>4 DEF TruncateConfig, WGoto, TypeOK, WorkerStates
    <3> QED BY <1>0, <2>0, <3>1 DEF MtimeInv
  <2>5. CASE WriteConfig(w)
    <3>1. /\ file' = [state |-> "whole", config |-> worker[w].config, mtime |-> now] /\ cached' = cached
          /\ rewritten' = IF file.state = "whole" THEN file.mtime ELSE rewritten
          /\ \A v \in Workers : worker'[v].stat = worker[v].stat
      <4>1. worker \in [Workers -> WorkerStates] /\ worker[w] \in WorkerStates
        BY DEF TypeOK
      <4>2. CASE WGoto(w, "stat")
        BY <2>5, <4>1, <4>2 DEF WriteConfig, WGoto, WorkerStates
      <4>3. CASE worker' = [worker EXCEPT ![w] =
                              [worker[w] EXCEPT !.pc = "ready", !.serving = TRUE, !.put = FALSE]]
        BY <2>5, <4>1, <4>3 DEF WriteConfig, WorkerStates
      <4> QED BY <2>5, <4>2, <4>3 DEF WriteConfig
    <3> QED BY <1>0, <2>0, <3>1 DEF MtimeInv
  <2> QED BY <1>3, <2>1, <2>2, <2>3, <2>4, <2>5, FileMoves
<1>4. CASE UpdaterStep \/ UpdaterFault \/ ClusterStep \/ ClusterEvent
  BY <1>1, <1>4, UpdaterFrame, ClusterFrame
<1>5. CASE UNCHANGED vars
  BY <1>1, <1>5 DEF vars, configVars
<1> QED BY <1>2, <1>3, <1>4, <1>5 DEF Next

\* A worker is stale although its cache looks fresh only when the file was saved twice in a
\* tick or was read half written (EdgeConfigManager.active trusts st_mtime).
THEOREM StaleWithinTick == Spec => []StaleOnlyWithinTick
<1>1. Init => MtimeInv
  BY DEF Init, MtimeInv, DownWorker
<1>2. TypeOK /\ MtimeInv /\ [Next]_vars => MtimeInv'
  BY MtimeStep
<1>3. MtimeInv => StaleOnlyWithinTick
  BY DEF MtimeInv, StaleOnlyWithinTick
<1> QED BY <1>1, <1>2, <1>3, ControlTypes, PTL DEF Spec

-----------------------------------------------------------------------------
(* The table and the pods. *)

\* What a step does to the table and to what a reset dropped from it.
LEMMA TableMoves ==
    ASSUME TypeOK, [Next]_vars
    PROVE  \/ UNCHANGED <<db, forgot>>
           \/ /\ \A m \in Models : db[m] # "none" => db'[m] # "none"
              /\ forgot' = forgot
           \/ \E m \in Models : /\ db' = [db EXCEPT ![m] = "active"]
                                /\ forgot' = forgot \ {m[1]}
           \/ ~tables' /\ forgot' = forgot \cup {d \in Detectors : Records(d) # {}}
           \/ DeleteRecords
<1> USE DEF outsideWorker, configVars, dbVars, historyVars
<1>1. CASE UNCHANGED vars \/ Tick \/ ClusterStep \/ ClusterEvent
  BY <1>1, TickFrame, ClusterFrame DEF vars
<1>2. CASE UpdaterStep \/ UpdaterFault
  <2>1. DeleteRecords \/ db' = db
    BY <1>2 DEF UpdaterStep, UpdaterFault, outsideCheck, Decides, ReadPending,
       DeleteOne, PollGone, TakeBaseline, ListDetectors, PickDetector, FetchModelInfo,
       SaveVersion, SaveFile, EnsureDeployments, PatchDeployments, AwaitRolloutStart, AwaitRollout,
       CleanUp, CheckComplete, FlagCreated, CheckChanged, EndWait, RefreshStatus, TablesMissing,
       CheckFails, KillUpdater
  <2> QED BY <1>2, <2>1, UpdaterFrame
<1>3. ASSUME NEW w \in Workers, WorkerStep(w) \/ WorkerEvent(w)
      PROVE  \/ UNCHANGED <<db, forgot>>
             \/ /\ \A m \in Models : db[m] # "none" => db'[m] # "none"
                /\ forgot' = forgot
             \/ \E m \in Models : /\ db' = [db EXCEPT ![m] = "active"]
                                  /\ forgot' = forgot \ {m[1]}
             \/ ~tables' /\ forgot' = forgot \cup {d \in Detectors : Records(d) # {}}
  <2>1. db \in [Models -> {"none", "active", "pending"}] /\ NextOf(worker[w].adds) \subseteq Models
    BY NextOfLeft DEF TypeOK, WorkerStates
  <2>2. CASE DropTables(w)
    BY <2>2 DEF DropTables
  <2>3. CASE MarkPending(w)
    BY <2>1, <2>3 DEF MarkPending
  <2>4. CASE AddRecord(w)
    BY <2>1, <2>4 DEF AddRecord
  <2>5. CASE UpdateRecord(w)
    <3>1. PICK m \in Models : db' = [db EXCEPT ![m] = IF worker[w].put /\ db[m] # "none" THEN "active" ELSE db[m]]
      BY <2>1, <2>5 DEF UpdateRecord
    <3> QED BY <2>1, <2>5, <3>1 DEF UpdateRecord
  <2>6. CASE \/ CreateTables(w) \/ StatConfig(w) \/ LoadConfig(w) \/ TruncateConfig(w) \/ WriteConfig(w)
             \/ Diff(w) \/ DatabaseMissing(w) \/ WorkerEvent(w)
    BY <2>6 DEF CreateTables, StatConfig, LoadConfig, TruncateConfig, WriteConfig, Diff, DatabaseMissing,
                WorkerEvent, Lookup, PutConfig, Provision, KillWorker
  <2> QED BY <1>3, <2>2, <2>3, <2>4, <2>5, <2>6 DEF WorkerStep
<1> QED BY <1>1, <1>2, <1>3 DEF Next

\* A detector stays known but for the removal of its records by the updater.
LEMMA KnownStep ==
    ASSUME TypeOK, [Next]_vars, NEW d \in Detectors, Known(d)
    PROVE  Known(d)' \/ (DeleteRecords /\ d \in updater.ids)
<1>1. CASE UNCHANGED <<db, forgot>>
  BY <1>1 DEF Known, Records
<1>2. CASE (\A m \in Models : db[m] # "none" => db'[m] # "none") /\ forgot' = forgot
  BY <1>2 DEF Known, Records
<1>3. ASSUME NEW m \in Models, db' = [db EXCEPT ![m] = "active"], forgot' = forgot \ {m[1]}
      PROVE  Known(d)'
  <2>1. \A x \in Models : (db[x] # "none" => db'[x] # "none") /\ db'[m] = "active"
    BY <1>3 DEF TypeOK
  <2> QED BY <1>3, <2>1 DEF Known, Records
<1>4. CASE forgot' = forgot \cup {c \in Detectors : Records(c) # {}}
  BY <1>4 DEF Known
<1>5. CASE DeleteRecords
  <2>1. PICK c \in updater.ids : db' = [m \in Models |-> IF m[1] = c THEN "none" ELSE db[m]]
    BY <1>5 DEF DeleteRecords
  <2>2. forgot' = forgot
    BY <1>5 DEF DeleteRecords
  <2>3. d # c => (\A m \in Models : m[1] = d /\ db[m] # "none" => db'[m] # "none")
    BY <2>1
  <2> QED BY <1>5, <2>2, <2>3 DEF Known, Records
<1> QED BY <1>1, <1>2, <1>3, <1>4, <1>5, TableMoves

\* What a step does to the deployments.
LEMMA DeploymentMoves ==
    ASSUME TypeOK, [Next]_vars
    PROVE  \/ dep' = dep
           \/ \E m \in Models :
                 \/ StartPod(m) \/ PodReady(m) \/ PodCannotLoad(m) \/ PodGone(m) \/ RestartPod(m)
                 \/ UAt("delete") /\ DeleteDeployment(m)
                 \/ /\ UAt("ensure") \/ UAt("patch")
                    /\ m \in updater.left
                    /\ CreateDeployment(m) \/ PatchDeployment(m)
<1>1. CASE UNCHANGED vars \/ Tick \/ \E w \in Workers : WorkerStep(w) \/ WorkerEvent(w)
  BY <1>1, TickFrame, WorkerFrame DEF vars, clusterVars
<1>2. CASE ClusterStep \/ ClusterEvent
  BY <1>2 DEF ClusterStep, ClusterEvent, Publish
<1>3. CASE UpdaterStep \/ UpdaterFault
  <2>1. NextOf(updater.left) \subseteq updater.left /\ updater.left \subseteq Models
    BY NextOfLeft DEF TypeOK, UpdaterStates
  <2>2. CASE DeleteOne
    BY <2>1, <2>2 DEF DeleteOne
  <2>3. CASE EnsureDeployments
    BY <2>1, <2>3 DEF EnsureDeployments
  <2>4. CASE PatchDeployments
    BY <2>1, <2>4 DEF PatchDeployments
  <2>5. CASE ~(DeleteOne \/ EnsureDeployments \/ PatchDeployments)
    <3>1. dep' = dep
      BY <1>3, <2>5 DEF UpdaterStep, UpdaterFault, outsideCheck, Decides, ReadPending,
         PollGone, DeleteRecords, TakeBaseline, ListDetectors, PickDetector, FetchModelInfo,
         SaveVersion, SaveFile, AwaitRolloutStart, AwaitRollout,
         CleanUp, CheckComplete, FlagCreated, CheckChanged, EndWait, RefreshStatus, TablesMissing,
         CheckFails, KillUpdater
    <3> QED BY <3>1
  <2> QED BY <2>2, <2>3, <2>4, <2>5
<1> QED BY <1>1, <1>2, <1>3 DEF Next

\* What becomes of a deployment, case by case.
LEMMA DeploymentEffects ==
    ASSUME TypeOK, [Next]_vars, NEW m \in Models, dep'[m] # dep[m]
    PROVE  \/ /\ dep[m].present /\ dep'[m].present /\ UNCHANGED updater
              /\ dep'[m].pod = "loading" /\ dep'[m].ver = Len(repo[m])
           \/ /\ dep[m].pod # "none" /\ dep'[m].present = dep[m].present /\ dep'[m].old = dep[m].old
              /\ UNCHANGED updater
              /\ dep'[m].pod = "loading" => dep'[m].ver = Len(repo[m])
              /\ dep'[m].pod # "none"
           \/ /\ dep[m].old /\ ~dep'[m].old /\ dep'[m].present = dep[m].present /\ UNCHANGED updater
              /\ dep'[m].pod = dep[m].pod /\ dep'[m].ver = dep[m].ver
           \/ /\ UAt("delete") /\ ~dep'[m].present /\ dep'[m].pod = "none"
              /\ dep[m] = NoDeployment => dep'[m] = NoDeployment
              /\ dep'[m].old => dep[m].old \/ dep[m].pod # "none"
           \/ /\ UAt("ensure") \/ UAt("patch")
              /\ m \in updater.left /\ dep'[m].present
<1>1. dep \in [Models -> Deployments] /\ dep[m] \in Deployments
  BY DEF TypeOK
<1>2. ASSUME NEW x \in Models, NEW r, Changes(x, r) PROVE x = m /\ dep'[m] = r
  BY <1>1, <1>2 DEF Changes
<1>3. ASSUME NEW x \in Models, StartPod(x)
      PROVE  /\ dep[m].present /\ dep'[m].present /\ UNCHANGED updater
             /\ dep'[m].pod = "loading" /\ dep'[m].ver = Len(repo[m])
  <2>1. Changes(x, [dep[x] EXCEPT !.patched = FALSE, !.pod = "loading", !.ver = LatestVersion(x),
                                  !.old = dep[x].old \/ dep[x].pod # "none"])
    BY <1>3 DEF StartPod
  <2>2. x = m /\ dep'[m] = [dep[x] EXCEPT !.patched = FALSE, !.pod = "loading", !.ver = LatestVersion(x),
                                          !.old = dep[x].old \/ dep[x].pod # "none"]
    BY <1>2, <2>1
  <2>3. dep[m].present /\ UNCHANGED updater
    BY <1>3, <2>2 DEF StartPod, outsideCluster
  <2> QED BY <1>1, <2>2, <2>3 DEF Deployments, LatestVersion
<1>4. ASSUME NEW x \in Models, PodReady(x) \/ PodCannotLoad(x) \/ RestartPod(x)
      PROVE   /\ dep[m].pod # "none" /\ dep'[m].present = dep[m].present /\ dep'[m].old = dep[m].old
              /\ UNCHANGED updater
              /\ dep'[m].pod = "loading" => dep'[m].ver = Len(repo[m])
              /\ dep'[m].pod # "none"
  <2>1. CASE PodReady(x)
    <3>1. Changes(x, [dep[x] EXCEPT !.pod = "ready", !.serves = dep[x].ver])
      BY <2>1 DEF PodReady
    <3>2. x = m /\ dep'[m] = [dep[x] EXCEPT !.pod = "ready", !.serves = dep[x].ver]
      BY <1>2, <3>1
    <3> QED BY <1>1, <2>1, <3>2 DEF PodReady, Deployments, outsideCluster
  <2>2. CASE PodCannotLoad(x)
    BY <1>1, <1>2, <2>2 DEF PodCannotLoad, Deployments, LatestVersion, outsideCluster
  <2>3. CASE RestartPod(x)
    <3> DEFINE n == IF dep[x].pod = "ready" THEN 0 ELSE dep[x].serves
    <3>1. Changes(x, [dep[x] EXCEPT !.pod = "loading", !.ver = LatestVersion(x), !.serves = n])
      BY <2>3 DEF RestartPod
    <3> HIDE DEF n
    <3>2. x = m /\ dep'[m] = [dep[x] EXCEPT !.pod = "loading", !.ver = LatestVersion(x), !.serves = n]
      BY <1>2, <3>1
    <3> QED BY <1>1, <2>3, <3>2 DEF RestartPod, Deployments, LatestVersion, outsideCluster
  <2> QED BY <1>4, <2>1, <2>2, <2>3
<1>5. ASSUME NEW x \in Models, PodGone(x)
      PROVE  /\ dep[m].old /\ ~dep'[m].old /\ dep'[m].present = dep[m].present /\ UNCHANGED updater
             /\ dep'[m].pod = dep[m].pod /\ dep'[m].ver = dep[m].ver
  BY <1>1, <1>2, <1>5 DEF PodGone, Deployments, outsideCluster
<1>6. ASSUME NEW x \in Models, DeleteDeployment(x)
      PROVE  /\ ~dep'[m].present /\ dep'[m].pod = "none"
             /\ dep[m] = NoDeployment => dep'[m] = NoDeployment
             /\ dep'[m].old => dep[m].old \/ dep[m].pod # "none"
  <2> DEFINE b == dep[x].old \/ dep[x].pod # "none"
  <2>1. x = m /\ dep'[m] = [NoDeployment EXCEPT !.old = b]
    BY <1>2, <1>6 DEF DeleteDeployment
  <2>2. b \in BOOLEAN /\ (b => dep[m].old \/ dep[m].pod # "none")
    BY <2>1
  <2>3. dep[m] = NoDeployment => b = FALSE
    BY <2>1 DEF NoDeployment
  <2> HIDE DEF b
  <2> QED BY <2>1, <2>2, <2>3 DEF NoDeployment
<1>7. ASSUME NEW x \in Models, CreateDeployment(x) \/ PatchDeployment(x)
      PROVE  x = m /\ dep'[m].present
  <2>1. CASE CreateDeployment(x)
    BY <1>1, <1>2, <2>1 DEF CreateDeployment, Deployments
  <2>2. CASE PatchDeployment(x)
    BY <1>1, <1>2, <2>2 DEF PatchDeployment, Deployments
  <2> QED BY <1>7, <2>1, <2>2
<1> QED BY <1>3, <1>4, <1>5, <1>6, <1>7, DeploymentMoves

\* What a step of the updater does to its own state: the detectors and the models it works on.
UpdaterMove ==
    /\ updater'.pc \in {"pick", "changed"} \cup Checking =>
          \/ updater.pc \in {"pick", "changed"} \cup Checking /\ updater'.ids \subseteq updater.ids
          \/ updater'.ids = ActiveIds
    /\ updater'.pc \in Checking =>
          \/ updater.pc \in Checking /\ updater'.det = updater.det
          \/ updater.pc = "pick" /\ updater'.det \in updater.ids
    /\ updater'.pc \in {"save", "files", "ensure", "patch", "flag"} =>
          \/ updater.pc \in {"save", "files", "ensure", "patch", "flag"} /\ updater'.left \subseteq updater.left
          \/ updater'.left \subseteq {updater'.det} \X Kinds
    /\ updater'.pc \in {"ensure", "patch"} =>
          \/ updater.pc \in {"ensure", "patch"} /\ updater'.left \subseteq updater.left
          \/ updater'.left \subseteq {updater'.det} \X PodKinds
    /\ updater'.pc \in Checking \ {"fetch"} => updater'.det = updater.det
    /\ updater'.pc = "forget" =>
          \/ updater.pc = "poll" /\ updater'.ids = updater.ids /\ AllGone
          \/ updater.pc = "forget" /\ updater'.ids \subseteq updater.ids
    /\ updater'.pc = "cleanup" => updater.pc = "rolling" /\ \A k \in PodKinds : RolloutComplete(TargetModel(k))

\* Every step of the updater is such a move.
LEMMA UpdaterMoves ==
    ASSUME TypeOK, UpdaterStep \/ UpdaterFault
    PROVE  UpdaterMove
<1> USE DEF UAt, UGoto, UpdaterMove, Checking
<1>1. updater \in UpdaterStates /\ PodKinds \subseteq Kinds
  BY DEF TypeOK, PodKinds, Kinds
<1>2. \A p \in UpdaterPCs : UGoto(p) => /\ updater'.pc = p /\ updater'.det = updater.det
                                       /\ updater'.ids = updater.ids /\ updater'.left = updater.left
  BY <1>1 DEF UpdaterStates
<1>3. CASE ReadPending
  BY <1>1, <1>3 DEF ReadPending, UpdaterStates
<1>4. CASE DeleteOne
  BY <1>1, <1>4 DEF DeleteOne, Round, UpdaterStates
<1>5. CASE PollGone
  BY <1>1, <1>5 DEF PollGone, UpdaterStates
<1>6. CASE DeleteRecords
  BY <1>1, <1>6 DEF DeleteRecords, UpdaterStates
<1>7. CASE TakeBaseline
  BY <1>1, <1>7 DEF TakeBaseline, UpdaterStates
<1>8. CASE ListDetectors
  BY <1>1, <1>8 DEF ListDetectors, UpdaterStates
<1>9. CASE PickDetector
  BY <1>1, <1>9 DEF PickDetector, UpdaterStates
<1>10. CASE FetchModelInfo
  BY <1>1, <1>10 DEF FetchModelInfo, TargetModels, Target, UpdaterStates
<1>11. CASE SaveVersion
  BY <1>1, <1>11 DEF SaveVersion, UpdaterStates
<1>12. CASE SaveFile
  BY <1>1, <1>12 DEF SaveFile, TargetModels, Target, UpdaterStates
<1>13. CASE EnsureDeployments
  BY <1>1, <1>13 DEF EnsureDeployments, TargetModels, Target, UpdaterStates
<1>14. CASE PatchDeployments
  BY <1>1, <1>14 DEF PatchDeployments, Round, UpdaterStates
<1>15. CASE AwaitRolloutStart
  BY <1>1, <1>15 DEF AwaitRolloutStart, UpdaterStates
<1>16. CASE AwaitRollout
  BY <1>1, <1>16 DEF AwaitRollout, UpdaterStates
<1>17. CASE CleanUp
  BY <1>1, <1>17 DEF CleanUp, UpdaterStates
<1>18. CASE CheckComplete
  <2>1. \/ updater' = [updater EXCEPT !.pc = "flag", !.left = {updater.det} \X PodKinds]
        \/ updater' = [updater EXCEPT !.pc = "changed"]
    BY <1>18 DEF CheckComplete, TargetModels, Target
  <2>2. updater.pc = "complete" /\ {updater.det} \X PodKinds \subseteq {updater.det} \X Kinds
    BY <1>1, <1>18 DEF CheckComplete
  <2> QED BY <1>1, <2>1, <2>2 DEF UpdaterStates
<1>19. CASE FlagCreated
  BY <1>1, <1>19 DEF FlagCreated, Round, UpdaterStates
<1>20. CASE CheckChanged
  BY <1>1, <1>20 DEF CheckChanged, UpdaterStates
<1>21. CASE EndWait
  BY <1>1, <1>21 DEF EndWait, FreshUpdater, UpdaterStates
<1>22. CASE RefreshStatus
  BY <1>1, <1>22 DEF RefreshStatus, Round, UpdaterStates
<1>23. CASE TablesMissing
  BY <1>1, <1>23 DEF TablesMissing, FreshUpdater, UpdaterStates
<1>24. CASE UpdaterFault
  BY <1>1, <1>24 DEF UpdaterFault, FreshUpdater, CheckFails, KillUpdater, UpdaterStates
<1> QED BY <1>3, <1>4, <1>5, <1>6, <1>7, <1>8, <1>9, <1>10, <1>11, <1>12, <1>13, <1>14, <1>15, <1>16, <1>17, <1>18, <1>19, <1>20, <1>21, <1>22, <1>23, <1>24 DEF UpdaterStep

\* Versions are saved between the look at the cloud and the care for the deployments.
LEMMA RepositoryMoves ==
    ASSUME [Next]_vars
    PROVE  repo' = repo \/ SaveVersion \/ SaveFile
<1>1. CASE UNCHANGED vars \/ Tick \/ (\E w \in Workers : WorkerStep(w) \/ WorkerEvent(w))
           \/ ClusterStep \/ ClusterEvent
  BY <1>1, TickFrame, WorkerFrame, ClusterFrame DEF vars, clusterVars
<1>2. CASE UpdaterStep \/ UpdaterFault
  BY <1>2 DEF UpdaterStep, UpdaterFault, outsideCheck, Decides, ReadPending, DeleteOne,
       PollGone, DeleteRecords, TakeBaseline, ListDetectors, PickDetector, FetchModelInfo,
       EnsureDeployments, PatchDeployments, AwaitRolloutStart, AwaitRollout,
       CleanUp, CheckComplete, FlagCreated, CheckChanged, EndWait, RefreshStatus, TablesMissing,
       CheckFails, KillUpdater
<1> QED BY <1>1, <1>2 DEF Next

\* Every step keeps what the updater works on.
LEMMA UpdaterInvStep ==
    ASSUME TypeOK, UpdaterInv, KindInv, [Next]_vars
    PROVE  UpdaterInv'
<1> USE DEF Checking
<1>1. updater \in UpdaterStates /\ updater.ids \in SUBSET Detectors /\ updater.left \in SUBSET Models
      /\ PodKinds \subseteq Kinds /\ dep \in [Models -> Deployments]
  BY DEF TypeOK, UpdaterStates, PodKinds, Kinds
<1>2. DeleteRecords => updater.pc = "forget" /\ updater'.pc \in {"forget", "baseline"}
  BY <1>1 DEF DeleteRecords, UAt, UpdaterStates
<1>3. ~DeleteRecords => \A d \in Detectors : Known(d) => Known(d)'
  BY KnownStep
<1>4. (UpdaterStep \/ UpdaterFault) \/ UNCHANGED updater
  BY TickFrame, WorkerFrame, ClusterFrame DEF Next, vars
<1>5. UpdaterMove \/ UNCHANGED updater
  BY <1>4, UpdaterMoves
<1>6. \A d \in ActiveIds : Known(d)
  <2> SUFFICES ASSUME NEW d \in Detectors, NEW k \in Kinds, db[<<d, k>>] = "active" PROVE Known(d)
    BY DEF ActiveIds
  <2> DEFINE m == <<d, k>>
  <2>1. m \in Models /\ m[1] = d /\ db[m] # "none"
    BY DEF Models
  <2> QED BY <2>1 DEF Known, Records
<1> HIDE DEF Checking
<1>7. (updater.pc \in {"pick", "changed"} \cup Checking => \A d \in updater.ids : Known(d))'
  <2>1. CASE DeleteRecords
    BY <1>2, <2>1 DEF Checking
  <2>2. CASE ~DeleteRecords /\ UpdaterMove
    <3> SUFFICES ASSUME updater'.pc \in {"pick", "changed"} \cup Checking, NEW d \in updater'.ids
                 PROVE  Known(d)'
      OBVIOUS
    <3>1. Known(d) /\ d \in Detectors
      BY <1>1, <1>6, <2>2 DEF UpdaterMove, UpdaterInv, ActiveIds
    <3> QED BY <1>3, <2>2, <3>1
  <2>3. CASE ~DeleteRecords /\ UNCHANGED updater
    BY <1>1, <1>3, <2>3 DEF UpdaterInv
  <2> QED BY <1>5, <2>1, <2>2, <2>3
<1>8. (updater.pc \in Checking => updater.det \in Detectors /\ Known(updater.det))'
  <2>1. CASE DeleteRecords
    BY <1>2, <2>1 DEF Checking
  <2>2. CASE ~DeleteRecords /\ UpdaterMove
    <3> SUFFICES ASSUME updater'.pc \in Checking
                 PROVE  updater'.det \in Detectors /\ Known(updater.det)'
      OBVIOUS
    <3>1. PICK d \in Detectors : updater'.det = d /\ Known(d)
      BY <1>1, <2>2 DEF UpdaterMove, UpdaterInv, Checking
    <3>2. Known(d)'
      BY <1>3, <2>2, <3>1
    <3> QED BY <3>1, <3>2 DEF Known, Records
  <2>3. CASE ~DeleteRecords /\ UNCHANGED updater
    BY <1>3, <2>3 DEF UpdaterInv, Known, Records
  <2> QED BY <1>5, <2>1, <2>2, <2>3
<1>9. (updater.pc \in {"save", "files", "ensure", "patch", "flag"} => updater.left \subseteq {updater.det} \X Kinds)'
  <2> SUFFICES ASSUME updater'.pc \in {"save", "files", "ensure", "patch", "flag"}
               PROVE  updater'.left \subseteq {updater'.det} \X Kinds
    OBVIOUS
  <2>1. CASE UpdaterMove
    <3>1. updater'.det = updater.det
      BY <2>1 DEF UpdaterMove, Checking
    <3> QED BY <2>1, <3>1 DEF UpdaterMove, UpdaterInv
  <2>2. CASE UNCHANGED updater
    BY <2>2 DEF UpdaterInv
  <2> QED BY <1>5, <2>1, <2>2
<1>10. (updater.pc \in {"ensure", "patch"} => updater.left \subseteq {updater.det} \X PodKinds)'
  <2> SUFFICES ASSUME updater'.pc \in {"ensure", "patch"}
               PROVE  updater'.left \subseteq {updater'.det} \X PodKinds
    BY DEF PodKinds
  <2>1. CASE UpdaterMove
    <3>1. updater'.det = updater.det
      BY <2>1 DEF UpdaterMove, Checking
    <3> QED BY <2>1, <3>1 DEF UpdaterMove, UpdaterInv
  <2>2. CASE UNCHANGED updater
    BY <2>2 DEF UpdaterInv
  <2> QED BY <1>5, <2>1, <2>2
<1>11. (updater.pc = "forget" => \A d \in updater.ids, k \in PodKinds : FullyDeleted(<<d, k>>))'
  <2> SUFFICES ASSUME updater'.pc = "forget", NEW d \in updater'.ids, NEW k \in PodKinds
               PROVE  FullyDeleted(<<d, k>>)'
    BY DEF PodKinds
  <2> DEFINE m == <<d, k>>
  <2>1. CASE UpdaterMove
    <3>1. d \in updater.ids /\ FullyDeleted(m) /\ updater.pc \in {"poll", "forget"}
      BY <2>1 DEF UpdaterMove, UpdaterInv, AllGone
    <3>2. m \in Models
      BY <1>1, <3>1 DEF Models
    <3>3. dep'[m] = dep[m]
      BY <3>1, <3>2, DeploymentEffects DEF KindInv, FullyDeleted, UAt
    <3> QED BY <3>1, <3>3 DEF FullyDeleted
  <2>2. CASE UNCHANGED updater
    <3>1. d \in updater.ids /\ FullyDeleted(m) /\ updater.pc = "forget"
      BY <2>2 DEF UpdaterInv
    <3>2. m \in Models
      BY <1>1, <3>1 DEF Models
    <3>3. dep'[m] = dep[m]
      BY <3>1, <3>2, DeploymentEffects DEF KindInv, FullyDeleted, UAt
    <3> QED BY <3>1, <3>3 DEF FullyDeleted
  <2> QED BY <1>5, <2>1, <2>2
<1>12. (updater.pc = "cleanup" =>
          \A k \in PodKinds : LET m == <<updater.det, k>> IN dep[m].pod = "loading" => dep[m].ver = Len(repo[m]))'
  <2> SUFFICES ASSUME updater'.pc = "cleanup", NEW k \in PodKinds,
                      dep'[<<updater'.det, k>>].pod = "loading"
               PROVE  dep'[<<updater'.det, k>>].ver = Len(repo'[<<updater'.det, k>>])
    BY DEF PodKinds
  <2>1. updater'.det = updater.det
    BY <1>5 DEF UpdaterMove, Checking
  <2> DEFINE m == <<updater.det, k>>
  <2>2. m \in Models
    <3>1. updater'.det \in Detectors
      BY <1>8 DEF Checking
    <3> QED BY <1>1, <2>1, <3>1 DEF Models
  <2>3. repo' = repo
    <3>1. SaveVersion => updater'.pc = "files"
      BY <1>1 DEF SaveVersion, UGoto, UpdaterStates
    <3>2. SaveFile => updater'.pc \in {"files", "save", "ensure"}
      BY <1>1 DEF SaveFile, UAt, UpdaterStates
    <3> QED BY <3>1, <3>2, RepositoryMoves
  <2>4. CASE dep'[m] = dep[m]
    <3>1. CASE UpdaterMove
      BY <2>1, <2>4, <3>1 DEF UpdaterMove, RolloutComplete, TargetModel
    <3>2. CASE UNCHANGED updater
      BY <2>1, <2>3, <2>4, <3>2 DEF UpdaterInv
    <3> QED BY <1>5, <3>1, <3>2
  <2>5. CASE dep'[m] # dep[m]
    <3>1. UAt("delete") \/ UAt("ensure") \/ UAt("patch") => updater'.pc # "cleanup"
      BY <1>5 DEF UpdaterMove, UAt
    <3>2. \/ dep'[m].ver = Len(repo[m])
          \/ dep'[m].pod = dep[m].pod /\ dep'[m].ver = dep[m].ver /\ UNCHANGED updater
      BY <2>1, <2>2, <2>5, <3>1, DeploymentEffects
    <3> QED BY <2>1, <2>3, <3>2 DEF UpdaterInv
  <2> QED BY <2>4, <2>5
<1> QED BY <1>7, <1>8, <1>9, <1>10, <1>11, <1>12 DEF UpdaterInv

\* Every step keeps to the kinds that get a deployment.
LEMMA KindStep ==
    ASSUME TypeOK, UpdaterInv, KindInv, [Next]_vars
    PROVE  KindInv'
<1> SUFFICES ASSUME NEW m \in Models
             PROVE  /\ m[2] \notin PodKinds => dep'[m] = NoDeployment
                    /\ dep'[m].pod # "none" => dep'[m].present
  BY DEF KindInv, PodKinds
<1>1. CASE dep'[m] = dep[m]
  BY <1>1 DEF KindInv
<1>2. CASE dep'[m] # dep[m]
  <2>1. UAt("ensure") \/ UAt("patch") => (m \in updater.left => m[2] \in PodKinds)
    BY DEF UpdaterInv, UAt
  <2> QED BY <1>2, <2>1, DeploymentEffects DEF KindInv, NoDeployment
<1> QED BY <1>1, <1>2

\* Every step keeps the pods accounted for.
LEMMA OrphanStep ==
    ASSUME TypeOK, UpdaterInv, KindInv, OrphanOnlyByReset, [Next]_vars
    PROVE  OrphanOnlyByReset'
<1> SUFFICES ASSUME NEW m \in Models, dep'[m].present \/ dep'[m].old PROVE Known(m[1])'
  BY DEF OrphanOnlyByReset, Known
<1>1. m[1] \in Detectors
  BY DEF Models
<1>2. Known(m[1])
  <2>1. CASE dep[m].present \/ dep[m].old
    BY <2>1 DEF OrphanOnlyByReset, Known
  <2>2. CASE ~dep[m].present /\ ~dep[m].old
    <3>1. (UAt("ensure") \/ UAt("patch")) /\ m \in updater.left
      BY <2>2, DeploymentEffects DEF KindInv
    <3> QED BY <3>1 DEF UpdaterInv, UAt, Checking
  <2> QED BY <2>1, <2>2
<1>3. CASE DeleteRecords /\ m[1] \in updater.ids
  <2>1. UAt("forget") /\ dep' = dep
    BY <1>3 DEF DeleteRecords
  <2>2. m[2] \in PodKinds => FullyDeleted(<<m[1], m[2]>>)
    BY <1>3, <2>1 DEF UpdaterInv, UAt
  <2>3. m[2] \in PodKinds => FullyDeleted(m)
    BY <2>2 DEF Models
  <2>4. dep[m] = NoDeployment => FullyDeleted(m)
    BY DEF NoDeployment, FullyDeleted
  <2> QED BY <2>1, <2>3, <2>4 DEF KindInv, FullyDeleted
<1> QED BY <1>1, <1>2, <1>3, KnownStep

DeploymentInv == UpdaterInv /\ KindInv /\ OrphanOnlyByReset

\* What the updater works on stays known, and the pods stay accounted for.
THEOREM DeploymentsInductive == Spec => []DeploymentInv
<1>1. Init => DeploymentInv
  BY DEF Init, DeploymentInv, UpdaterInv, KindInv, OrphanOnlyByReset, FreshUpdater, NoDeployment, Checking
<1>2. TypeOK /\ DeploymentInv /\ [Next]_vars => DeploymentInv'
  BY UpdaterInvStep, KindStep, OrphanStep DEF DeploymentInv
<1> QED BY <1>1, <1>2, ControlTypes, PTL DEF Spec

\* Only the reset of the database by a worker that starts leaves pods that no record
\* accounts for (startup_event, reset_database), which nothing will delete.
THEOREM OrphansOnlyByReset == Spec => []OrphanOnlyByReset
<1>1. DeploymentInv => OrphanOnlyByReset
  BY DEF DeploymentInv
<1> QED BY <1>1, DeploymentsInductive, PTL

\* The records of a detector go only when none of its pods is left, whatever timed out,
\* failed or was killed on the way (manage_update_models, delete_inference_deployment_records).
THEOREM RecordsOutlivePods == Spec => RecordOutlivesPods
<1> DEFINE Forgets ==
        \A d \in Detectors :
          tables /\ tables' /\ Records(d) # {} /\ Records(d)' = {}
             => \A k \in PodKinds : FullyDeleted(<<d, k>>)
<1>1. TypeOK /\ DeploymentInv /\ [Next]_vars => [Forgets]_vars
  <2> SUFFICES ASSUME TypeOK, DeploymentInv, [Next]_vars, NEW d \in Detectors,
                      tables', Records(d) # {}, Records(d)' = {}
               PROVE  \A k \in PodKinds : FullyDeleted(<<d, k>>)
    OBVIOUS
  <2>1. \E m \in Models : m[1] = d /\ db[m] # "none" /\ db'[m] = "none"
    BY DEF Records
  <2>2. DeleteRecords
    BY <2>1, TableMoves DEF TypeOK
  <2>3. UAt("forget") /\ d \in updater.ids
    BY <2>1, <2>2 DEF DeleteRecords
  <2> QED BY <2>3 DEF DeploymentInv, UpdaterInv, UAt
<1> QED BY <1>1, ControlTypes, DeploymentsInductive, PTL DEF Spec, RecordOutlivesPods

\* The clean-up deletes no version that a pod is loading (delete_old_model_versions after
\* a rollout that completed), also when pods restart or the updater was killed in a save.
THEOREM LoadingVersionsKept == Spec => LoadingVersionKept
<1> DEFINE Keeps ==
        \A m \in Models :
          low'[m] # low[m] /\ dep[m].pod = "loading" /\ dep[m].ver # 0
             => dep[m].ver >= low'[m]
<1>1. TypeOK /\ DeploymentInv /\ [Next]_vars => [Keeps]_vars
  <2> SUFFICES ASSUME TypeOK, DeploymentInv, [Next]_vars, NEW m \in Models,
                      low'[m] # low[m], dep[m].pod = "loading", dep[m].ver # 0
               PROVE  dep[m].ver >= low'[m]
    OBVIOUS
  <2>1. CleanUp
    <3>1. CASE UNCHANGED vars \/ Tick \/ (\E w \in Workers : WorkerStep(w) \/ WorkerEvent(w))
               \/ ClusterStep \/ ClusterEvent
      BY <3>1, TickFrame, WorkerFrame, ClusterFrame DEF vars, clusterVars
    <3>2. CASE UpdaterStep \/ UpdaterFault
      BY <3>2 DEF UpdaterStep, UpdaterFault, outsideCheck, Decides, ReadPending, DeleteOne,
         PollGone, DeleteRecords, TakeBaseline, ListDetectors, PickDetector, FetchModelInfo, SaveVersion,
         SaveFile, EnsureDeployments, PatchDeployments, AwaitRolloutStart, AwaitRollout,
         CheckComplete, FlagCreated, CheckChanged, EndWait, RefreshStatus, TablesMissing,
         CheckFails, KillUpdater
    <3> QED BY <3>1, <3>2 DEF Next
  <2>2. low' = [x \in Models |-> IF x[1] = updater.det /\ Len(repo[x]) - low[x] + 1 > 2
                                 THEN Len(repo[x]) - 1 ELSE low[x]]
    BY <2>1 DEF CleanUp, DeleteOldVersions, Target
  <2>3. m[1] = updater.det /\ low'[m] = Len(repo[m]) - 1
    BY <2>2
  <2>4. m = <<updater.det, m[2]>> /\ m[2] \in Kinds
    BY <2>3 DEF Models
  <2>5. m[2] \in PodKinds
    BY DEF DeploymentInv, KindInv, NoDeployment
  <2>6. dep[m].ver = Len(repo[m]) /\ Len(repo[m]) \in Nat
    BY <2>1, <2>4, <2>5 DEF DeploymentInv, UpdaterInv, CleanUp, UAt, TypeOK
  <2> QED BY <2>3, <2>6
<1> QED BY <1>1, ControlTypes, DeploymentsInductive, PTL DEF Spec, LoadingVersionKept

-----------------------------------------------------------------------------
(* The reconciliations. *)

\* What a worker that begins a reconciliation does to the workers.
LEMMA BeginsMoves ==
    ASSUME TypeOK, NEW w \in Workers, NEW s \in WorkerStates, Begins(w, s)
    PROVE  /\ \A v \in Workers \ {w} :
                 /\ Busy(worker[v]) => ~worker'[v].alone /\ mixed'
                 /\ ~Busy(worker[v]) => worker'[v] = worker[v]
                 /\ worker'[v].pc = worker[v].pc /\ worker'[v].serving = worker[v].serving
                 /\ worker'[v].put = worker[v].put
           /\ worker'[w].pc = s.pc /\ worker'[w].serving = s.serving /\ worker'[w].put = s.put
           /\ worker'[w].alone = (\A v \in Workers \ {w} : ~Busy(worker[v]))
           /\ ~worker'[w].alone => mixed'
           /\ mixed => mixed'
<1> DEFINE others == {v \in Workers \ {w} : Reconciling(v)}
<1>1. /\ worker' = [v \in Workers |-> IF v = w THEN [s EXCEPT !.alone = others = {}]
                                      ELSE IF v \in others THEN [worker[v] EXCEPT !.alone = FALSE]
                                      ELSE worker[v]]
      /\ mixed' = (mixed \/ others # {})
  BY DEF Begins
<1>2. \A v \in Workers : Reconciling(v) <=> Busy(worker[v])
  BY DEF Reconciling, Busy, WAt
<1>3. \A v \in Workers \ {w} : (v \in others) <=> Busy(worker[v])
  BY <1>2
<1> DEFINE b == (others = {})
<1>4. b = (\A v \in Workers \ {w} : ~Busy(worker[v])) /\ b \in BOOLEAN
  BY <1>3
<1>5. worker'[w] = [s EXCEPT !.alone = b]
  BY <1>1
<1>6. worker'[w].pc = s.pc /\ worker'[w].serving = s.serving /\ worker'[w].put = s.put /\ worker'[w].alone = b
  <2> HIDE DEF b
  <2> QED BY <1>5 DEF WorkerStates
<1>7. \A v \in Workers \ {w} :
         /\ Busy(worker[v]) => worker'[v] = [worker[v] EXCEPT !.alone = FALSE]
         /\ ~Busy(worker[v]) => worker'[v] = worker[v]
  BY <1>1, <1>3
<1>8. \A v \in Workers \ {w} : Busy(worker[v]) => mixed'
  BY <1>1, <1>3
<1>9. /\ ~b => mixed'
      /\ mixed => mixed'
  BY <1>1
<1>10. \A v \in Workers : worker[v] \in WorkerStates
  BY DEF TypeOK
<1> HIDE DEF others, b
<1>11. \A v \in Workers \ {w} :
                 /\ Busy(worker[v]) => ~worker'[v].alone
                 /\ worker'[v].pc = worker[v].pc /\ worker'[v].serving = worker[v].serving
                 /\ worker'[v].put = worker[v].put
  BY <1>7, <1>10 DEF WorkerStates
<1> QED BY <1>4, <1>6, <1>7, <1>8, <1>9, <1>11

\* A worker begins a reconciliation.
Starts(w) == DropTables(w) \/ \E c \in SUBSET Detectors : PutConfig(w, c)

\* A worker that does not begin one changes only itself, and goes on with what it is doing.
LEMMA OwnMoves ==
    ASSUME TypeOK, TaskInv, NEW w \in Workers, WorkerStep(w) \/ WorkerEvent(w), ~Starts(w)
    PROVE  /\ \A v \in Workers \ {w} : worker'[v] = worker[v]
           /\ TaskOK(worker'[w])
           /\ Busy(worker'[w]) => Busy(worker[w]) /\ worker'[w].alone = worker[w].alone
           /\ Busy(worker[w]) /\ ~Busy(worker'[w]) => mixed' \/ WriteConfig(w)
           /\ mixed' = mixed \/ (mixed' /\ ~Busy(worker'[w])) \/ WriteConfig(w)
<1> USE DEF outsideWorker, configVars, dbVars, historyVars, WGoto, WAt, TaskOK, Busy
<1>1. worker \in [Workers -> WorkerStates] /\ worker[w] \in WorkerStates /\ mixed \in BOOLEAN
  BY DEF TypeOK
<1>2. TaskOK(worker[w])
  BY DEF TaskInv
<1>3. \A v \in Workers : Reconciling(v) <=> Busy(worker[v])
  BY DEF Reconciling
<1>4. CASE CreateTables(w)
  BY <1>1, <1>2, <1>3, <1>4 DEF CreateTables, WorkerStates
<1>5. CASE StatConfig(w)
  <2>1. cached[w].config \in SUBSET Detectors /\ file.config \in SUBSET Detectors /\ {} \in SUBSET Detectors
    BY DEF TypeOK
  <2>2. CASE \E c \in SUBSET Detectors : Answered(w, c)
    BY <1>1, <1>2, <1>5, <2>2, AnsweredMoves DEF StatConfig
  <2>3. CASE worker' = [worker EXCEPT ![w] = [worker[w] EXCEPT !.pc = "load", !.stat = file.mtime]]
    BY <1>1, <1>2, <1>5, <2>3 DEF StatConfig, WorkerStates
  <2> QED BY <1>5, <2>1, <2>2, <2>3 DEF StatConfig
<1>6. CASE LoadConfig(w)
  <2>1. cached[w].config \in SUBSET Detectors /\ file.config \in SUBSET Detectors /\ {} \in SUBSET Detectors
    BY DEF TypeOK
  <2>2. CASE \E c \in SUBSET Detectors : Answered(w, c)
    BY <1>1, <1>2, <1>6, <2>2, AnsweredMoves DEF LoadConfig
  <2> QED BY <1>6, <2>1, <2>2 DEF LoadConfig
<1>7. CASE TruncateConfig(w)
  BY <1>1, <1>2, <1>3, <1>7 DEF TruncateConfig, WorkerStates
<1>8. CASE WriteConfig(w)
  <2>1. CASE worker[w].pc = "seedWrite"
    BY <1>1, <1>2, <1>8, <2>1 DEF WriteConfig, WorkerStates
  <2>2. CASE worker[w].pc = "write"
    <3>1. worker' = [worker EXCEPT ![w] = [worker[w] EXCEPT !.pc = "ready", !.serving = TRUE, !.put = FALSE]]
      BY <1>8, <2>2 DEF WriteConfig
    <3> QED BY <1>1, <1>2, <1>8, <3>1 DEF WorkerStates
  <2> QED BY <1>8, <2>1, <2>2 DEF WriteConfig
<1>9. CASE Diff(w)
  BY <1>1, <1>2, <1>3, <1>9 DEF Diff, WorkerStates
<1>10. CASE MarkPending(w)
  BY <1>1, <1>2, <1>3, <1>10 DEF MarkPending, WorkerStates
<1>11. CASE AddRecord(w)
  BY <1>1, <1>2, <1>3, <1>11 DEF AddRecord, WorkerStates
<1>12. CASE UpdateRecord(w)
  BY <1>1, <1>2, <1>3, <1>12 DEF UpdateRecord, WorkerStates
<1>13. CASE DatabaseMissing(w)
  BY <1>1, <1>2, <1>3, <1>13 DEF DatabaseMissing, DownWorker, WorkerStates
<1>14. CASE Lookup(w)
  BY <1>1, <1>2, <1>3, <1>14 DEF Lookup, WorkerStates
<1>15. CASE \E d \in Detectors : Provision(w, d)
  BY <1>1, <1>2, <1>3, <1>15 DEF Provision, WorkerStates
<1>16. CASE KillWorker(w)
  BY <1>1, <1>2, <1>3, <1>16 DEF KillWorker, DownWorker, WorkerStates
<1> QED BY <1>4, <1>5, <1>6, <1>7, <1>8, <1>9, <1>10, <1>11, <1>12, <1>13, <1>14, <1>15, <1>16 DEF WorkerStep, WorkerEvent, Starts

\* A worker begins only when it is not reconciling.
LEMMA StartMoves ==
    ASSUME TypeOK, TaskInv, NEW w \in Workers, Starts(w)
    PROVE  /\ \A v \in Workers \ {w} :
                 /\ Busy(worker[v]) => ~worker'[v].alone /\ mixed'
                 /\ ~Busy(worker[v]) => worker'[v] = worker[v]
                 /\ worker'[v].pc = worker[v].pc /\ worker'[v].serving = worker[v].serving
                 /\ worker'[v].put = worker[v].put
           /\ worker'[w].pc \in {"create", "diff"} /\ Busy(worker'[w]) /\ TaskOK(worker'[w])
           /\ worker'[w].alone = (\A v \in Workers \ {w} : ~Busy(worker[v]))
           /\ ~worker'[w].alone => mixed'
           /\ mixed => mixed'
<1>1. CASE DropTables(w)
  <2> DEFINE s == [DownWorker EXCEPT !.pc = "create"]
  <2>1. s \in WorkerStates
    BY DownTyped, WorkerRecords DEF WorkerPCs
  <2>2. s.pc = "create" /\ s.serving = FALSE /\ s.put = FALSE
    BY DEF DownWorker
  <2>3. Begins(w, s)
    BY <1>1 DEF DropTables
  <2> HIDE DEF s
  <2>4. /\ \A v \in Workers \ {w} :
                 /\ Busy(worker[v]) => ~worker'[v].alone /\ mixed'
                 /\ ~Busy(worker[v]) => worker'[v] = worker[v]
                 /\ worker'[v].pc = worker[v].pc /\ worker'[v].serving = worker[v].serving
                 /\ worker'[v].put = worker[v].put
        /\ worker'[w].pc = "create" /\ worker'[w].serving = FALSE /\ worker'[w].put = FALSE
        /\ worker'[w].alone = (\A v \in Workers \ {w} : ~Busy(worker[v]))
        /\ ~worker'[w].alone => mixed'
        /\ mixed => mixed'
    BY <2>1, <2>2, <2>3, BeginsMoves
  <2> QED BY <2>4 DEF Busy, TaskOK
<1>2. ASSUME NEW c \in SUBSET Detectors, PutConfig(w, c)
      PROVE  \E s \in WorkerStates : s.pc = "diff" /\ s.serving = TRUE /\ s.put = TRUE /\ Begins(w, s)
  <2> DEFINE s == [worker[w] EXCEPT !.pc = "diff", !.config = c, !.put = TRUE]
  <2>1. worker[w] \in WorkerStates /\ TaskOK(worker[w]) /\ worker[w].pc = "ready"
    BY <1>2 DEF TypeOK, TaskInv, PutConfig, WAt
  <2>2. worker[w].serving = TRUE
    BY <2>1 DEF TaskOK, WorkerStates
  <2>3. s \in WorkerStates
    BY <2>1, WorkerRecords DEF WorkerPCs
  <2>4. s.pc = "diff" /\ s.serving = TRUE /\ s.put = TRUE
    BY <2>1, <2>2 DEF WorkerStates
  <2>5. Begins(w, s)
    BY <1>2 DEF PutConfig
  <2> HIDE DEF s
  <2> QED BY <2>3, <2>4, <2>5
<1>3. ASSUME NEW s \in WorkerStates, s.pc = "diff", s.serving = TRUE, s.put = TRUE, Begins(w, s)
      PROVE  /\ \A v \in Workers \ {w} :
                 /\ Busy(worker[v]) => ~worker'[v].alone /\ mixed'
                 /\ ~Busy(worker[v]) => worker'[v] = worker[v]
                 /\ worker'[v].pc = worker[v].pc /\ worker'[v].serving = worker[v].serving
                 /\ worker'[v].put = worker[v].put
             /\ worker'[w].pc \in {"create", "diff"} /\ Busy(worker'[w]) /\ TaskOK(worker'[w])
             /\ worker'[w].alone = (\A v \in Workers \ {w} : ~Busy(worker[v]))
             /\ ~worker'[w].alone => mixed'
             /\ mixed => mixed'
  <2>1. /\ \A v \in Workers \ {w} :
                 /\ Busy(worker[v]) => ~worker'[v].alone /\ mixed'
                 /\ ~Busy(worker[v]) => worker'[v] = worker[v]
                 /\ worker'[v].pc = worker[v].pc /\ worker'[v].serving = worker[v].serving
                 /\ worker'[v].put = worker[v].put
        /\ worker'[w].pc = "diff" /\ worker'[w].serving = TRUE /\ worker'[w].put = TRUE
        /\ worker'[w].alone = (\A v \in Workers \ {w} : ~Busy(worker[v]))
        /\ ~worker'[w].alone => mixed'
        /\ mixed => mixed'
    BY <1>3, BeginsMoves
  <2> QED BY <2>1 DEF Busy, TaskOK
<1> QED BY <1>1, <1>2, <1>3 DEF Starts

\* The detectors that need nothing more: they have an active record, or it was removed later.
Done == ActiveIds \cup erased

\* A worker takes away no detector's active record, but when it resets or marks for deletion.
LEMMA DoneByWorker ==
    ASSUME TypeOK, NEW w \in Workers, WorkerStep(w) \/ WorkerEvent(w),
           worker[w].pc \notin {"down", "mark"}
    PROVE  Done \subseteq Done'
<1> USE DEF Done, ActiveIds
<1>0. db \in [Models -> {"none", "active", "pending"}] /\ erased \in SUBSET Detectors
  BY DEF TypeOK
<1>1. CASE UNCHANGED <<db, erased>>
  BY <1>1
<1>2. CASE AddRecord(w)
  <2>1. NextOf(worker[w].adds) \subseteq Models
    BY NextOfLeft DEF TypeOK, WorkerStates
  <2>2. CASE UNCHANGED <<db, erased>>
    BY <2>2
  <2>3. ASSUME NEW m \in Models, db' = [db EXCEPT ![m] = "active"], erased' = erased \ {m[1]}
        PROVE  Done \subseteq Done'
    <3>1. m = <<m[1], m[2]>> /\ m[1] \in Detectors /\ m[2] \in Kinds
      BY DEF Models
    <3>2. \A x \in Models : db[x] = "active" => db'[x] = "active"
      BY <1>0, <2>3
    <3>3. m[1] \in ActiveIds'
      BY <1>0, <2>3, <3>1
    <3>4. \A c \in Detectors, k \in Kinds : <<c, k>> \in Models
      BY DEF Models
    <3>5. ActiveIds \subseteq ActiveIds'
      BY <3>2, <3>4
    <3> HIDE DEF ActiveIds
    <3> QED BY <2>3, <3>3, <3>5
  <2> QED BY <1>2, <2>1, <2>2, <2>3 DEF AddRecord
<1>3. CASE UpdateRecord(w)
  <2>1. NextOf(worker[w].adds) \subseteq Models
    BY NextOfLeft DEF TypeOK, WorkerStates
  <2>2. PICK m \in Models :
          /\ db' = [db EXCEPT ![m] = IF worker[w].put /\ db[m] # "none" THEN "active" ELSE db[m]]
          /\ erased' = IF db[m] = "none" THEN erased \cup {m[1]} ELSE erased
    BY <1>3, <2>1 DEF UpdateRecord
  <2>3. \A x \in Models : db[x] = "active" => db'[x] = "active"
    BY <1>0, <2>2
  <2>4. \A c \in Detectors, k \in Kinds : <<c, k>> \in Models
    BY DEF Models
  <2> QED BY <2>2, <2>3, <2>4
<1>4. UNCHANGED <<db, erased>> \/ AddRecord(w) \/ UpdateRecord(w)
  BY DEF WorkerStep, WorkerEvent, dbVars, historyVars, DropTables, CreateTables, StatConfig, LoadConfig,
         TruncateConfig, WriteConfig, Diff, MarkPending, DatabaseMissing, Lookup, PutConfig, Provision,
         KillWorker, WAt
<1> QED BY <1>1, <1>2, <1>3, <1>4

\* Outside the workers an active record goes only by the updater's deletion, which leaves a trace.
LEMMA OtherMoves ==
    ASSUME TypeOK, [Next]_vars
    PROVE  \/ \E w \in Workers : WorkerStep(w) \/ WorkerEvent(w)
           \/ UNCHANGED <<file, worker, tables, mixed>> /\ Done \subseteq Done'
<1> USE DEF Done, ActiveIds
<1>0. erased \in SUBSET Detectors
  BY DEF TypeOK
<1>1. CASE UNCHANGED <<db, erased>>
  BY <1>1, TickFrame, UpdaterFrame, ClusterFrame DEF Next, vars, configVars, dbVars, historyVars
<1>2. CASE DeleteRecords
  <2>1. PICK d \in updater.ids :
          /\ db' = [m \in Models |-> IF m[1] = d THEN "none" ELSE db[m]]
          /\ erased' = IF d \in ActiveIds THEN erased \cup {d} ELSE erased
    BY <1>2 DEF DeleteRecords
  <2>2. \A c \in Detectors \ {d}, k \in Kinds : db'[<<c, k>>] = db[<<c, k>>]
    BY <2>1 DEF Models
  <2>3. UNCHANGED <<file, worker, tables, mixed>>
    BY <1>2, UpdaterFrame DEF UpdaterStep
  <2>4. ActiveIds \ {d} \subseteq ActiveIds'
    BY <2>2
  <2>5. erased \subseteq erased' /\ (d \in ActiveIds => d \in erased')
    BY <2>1
  <2>6. Done \subseteq Done'
    <3> HIDE DEF ActiveIds
    <3> QED BY <2>4, <2>5
  <2> QED BY <2>3, <2>6
<1>3. UNCHANGED <<db, erased>> \/ DeleteRecords \/ \E w \in Workers : WorkerStep(w) \/ WorkerEvent(w)
  <2>1. CASE UNCHANGED vars \/ Tick \/ ClusterStep \/ ClusterEvent
    BY <2>1, TickFrame, ClusterFrame DEF vars, dbVars, historyVars
  <2>2. CASE UpdaterStep \/ UpdaterFault
    BY <2>2 DEF UpdaterStep, UpdaterFault, outsideCheck, Decides, ReadPending,
       DeleteOne, PollGone, TakeBaseline, ListDetectors, PickDetector, FetchModelInfo,
       SaveVersion, SaveFile, EnsureDeployments, PatchDeployments, AwaitRolloutStart, AwaitRollout,
       CleanUp, CheckComplete, FlagCreated, CheckChanged, EndWait, RefreshStatus, TablesMissing,
       CheckFails, KillUpdater
  <2> QED BY <2>1, <2>2 DEF Next
<1> QED BY <1>1, <1>2, <1>3

\* Every step keeps what the workers are doing.
LEMMA TaskStep ==
    ASSUME TypeOK, TaskInv, [Next]_vars
    PROVE  TaskInv'
<1>1. CASE UNCHANGED worker
  BY <1>1 DEF TaskInv
<1>2. ASSUME NEW w \in Workers, WorkerStep(w) \/ WorkerEvent(w) PROVE TaskInv'
  <2>1. CASE Starts(w)
    <3>1. TaskOK(worker'[w])
      BY <2>1, StartMoves
    <3>2. \A v \in Workers \ {w} : TaskOK(worker'[v])
      BY <2>1, StartMoves DEF TaskInv, TaskOK
    <3> QED BY <3>1, <3>2 DEF TaskInv
  <2>2. CASE ~Starts(w)
    BY <1>2, <2>2, OwnMoves DEF TaskInv
  <2> QED BY <2>1, <2>2
<1> QED BY <1>1, <1>2, OtherMoves

\* Every step keeps account of who reconciles alone.
LEMMA AloneStep ==
    ASSUME TypeOK, TaskInv, AloneInv, [Next]_vars
    PROVE  AloneInv'
<1>0. \A v \in Workers : worker[v].alone \in BOOLEAN
  BY DEF TypeOK, WorkerStates
<1>1. CASE UNCHANGED <<worker, mixed>>
  BY <1>1 DEF AloneInv
<1>2. ASSUME NEW w \in Workers, WorkerStep(w) \/ WorkerEvent(w) PROVE AloneInv'
  <2>1. CASE Starts(w)
    <3>1. \A v \in Workers \ {w} : Busy(worker'[v]) <=> Busy(worker[v])
      BY <2>1, StartMoves DEF Busy
    <3> QED BY <2>1, <3>1, StartMoves DEF AloneInv
  <2>2. CASE ~Starts(w) /\ ~WriteConfig(w)
    <3>1. \A v \in Workers \ {w} : worker'[v] = worker[v]
      BY <1>2, <2>2, OwnMoves
    <3>2. Busy(worker'[w]) => Busy(worker[w]) /\ worker'[w].alone = worker[w].alone
      BY <1>2, <2>2, OwnMoves
    <3>3. mixed => mixed'
      BY <1>2, <2>2, OwnMoves
    <3> QED BY <3>1, <3>2, <3>3 DEF AloneInv
  <2>3. CASE WriteConfig(w)
    <3>1. ~Starts(w)
      BY <2>3 DEF WriteConfig, Starts, DropTables, PutConfig, WAt
    <3>2. /\ \A v \in Workers \ {w} : worker'[v] = worker[v]
          /\ Busy(worker'[w]) => Busy(worker[w]) /\ worker'[w].alone = worker[w].alone
      BY <1>2, <3>1, OwnMoves
    <3>3. Busy(worker[w])
      BY <2>3 DEF TaskInv, TaskOK, Busy, WriteConfig
    <3>4. mixed' = mixed \/ (mixed' = (mixed /\ ~worker[w].alone) /\ ~Busy(worker'[w]))
      <4>1. CASE WAt(w, "seedWrite")
        BY <2>3, <4>1 DEF WriteConfig
      <4>2. CASE ~WAt(w, "seedWrite")
        <5>1. /\ mixed' = (mixed /\ ~worker[w].alone)
              /\ worker' = [worker EXCEPT ![w] = [worker[w] EXCEPT !.pc = "ready", !.serving = TRUE, !.put = FALSE]]
          BY <2>3, <4>2 DEF WriteConfig
        <5>2. ~Busy(worker'[w])
          BY <5>1 DEF TypeOK, WorkerStates, Busy
        <5> QED BY <5>1, <5>2
      <4> QED BY <4>1, <4>2
    <3>5. CASE worker[w].alone
      BY <3>2, <3>3, <3>4, <3>5 DEF AloneInv
    <3>6. CASE ~worker[w].alone
      <4>1. mixed
        BY <3>3, <3>6 DEF AloneInv
      <4>2. mixed'
        BY <3>4, <3>6, <4>1
      <4>3. \A v \in Workers : Busy(worker'[v]) => Busy(worker[v]) /\ worker'[v].alone = worker[v].alone
        BY <3>2
      <4> QED BY <4>2, <4>3 DEF AloneInv
    <3> QED BY <3>5, <3>6
  <2> QED BY <2>1, <2>2, <2>3
<1> QED BY <1>1, <1>2, OtherMoves

\* A worker's own steps keep the progress of its reconciliation.
LEMMA OwnProgress ==
    ASSUME TypeOK, TaskInv, NEW w \in Workers, WorkerStep(w) \/ WorkerEvent(w), ~Starts(w),
           worker[w].put => Progress(worker[w]), worker'[w].put
    PROVE  Progress(worker[w])'
<1> USE DEF outsideWorker, dbVars, historyVars, WAt, WGoto
<1>1. worker \in [Workers -> WorkerStates] /\ worker[w] \in WorkerStates /\ erased \in SUBSET Detectors
      /\ db \in [Models -> {"none", "active", "pending"}]
  BY DEF TypeOK
<1>2. TaskOK(worker[w])
  BY DEF TaskInv
<1>3. NextOf(worker[w].adds) \subseteq worker[w].adds /\ worker[w].adds \subseteq Models
  BY NextOfLeft, <1>1 DEF WorkerStates
<1>4. worker[w].config \subseteq Detectors
  BY <1>1 DEF WorkerStates
<1>5. CASE worker'[w].pc \notin {"mark", "add", "update", "truncate", "write"}
  BY <1>5 DEF Progress
<1>6. CASE Diff(w)
  <2>1. /\ worker'[w].pc = "mark" /\ worker'[w].config = worker[w].config
        /\ worker'[w].gone = ActiveIds \ worker[w].config
        /\ worker'[w].adds = (worker[w].config \ ActiveIds) \X Kinds
    BY <1>1, <1>6 DEF Diff, WorkerStates
  <2>2. ActiveIds' = ActiveIds /\ erased' = erased
    BY <1>6 DEF Diff, ActiveIds
  <2>3. "primary" \in Kinds
    BY DEF Kinds
  <2> QED BY <1>4, <2>1, <2>2, <2>3 DEF Progress
<1>7. CASE MarkPending(w)
  <2>1. worker[w].pc = "mark" /\ worker[w].put /\ Progress(worker[w])
    BY <1>2, <1>7 DEF MarkPending, TaskOK
  <2>2. ASSUME NEW d \in worker[w].gone,
               db' = [m \in Models |-> IF m[1] = d /\ db[m] # "none" THEN "pending" ELSE db[m]],
               worker' = [worker EXCEPT ![w] = [worker[w] EXCEPT !.gone = worker[w].gone \ {d}]]
        PROVE  Progress(worker[w])'
    <3>1. /\ worker'[w].pc = "mark" /\ worker'[w].config = worker[w].config
          /\ worker'[w].gone = worker[w].gone \ {d} /\ worker'[w].adds = worker[w].adds
      BY <1>1, <2>1, <2>2 DEF WorkerStates
    <3>2. erased' = erased
      BY <1>7 DEF MarkPending
    <3>3. \A c \in Detectors \ {d}, k \in Kinds : db'[<<c, k>>] = db[<<c, k>>]
      BY <2>2 DEF Models
    <3>4. \A c \in ActiveIds \ {d} : c \in ActiveIds'
      BY <3>3 DEF ActiveIds
    <3>5. d \notin worker[w].config
      BY <2>1 DEF Progress
    <3> QED BY <2>1, <3>1, <3>2, <3>4, <3>5 DEF Progress
  <2>3. CASE worker' = [worker EXCEPT ![w] = [worker[w] EXCEPT !.pc = "add"]] /\ db' = db
    <3>1. /\ worker'[w].pc = "add" /\ worker'[w].config = worker[w].config
          /\ worker'[w].gone = worker[w].gone /\ worker'[w].adds = worker[w].adds
      BY <1>1, <2>1, <2>3 DEF WorkerStates
    <3>2. erased' = erased /\ ActiveIds' = ActiveIds
      BY <1>7, <2>3 DEF MarkPending, ActiveIds
    <3> QED BY <2>1, <3>1, <3>2 DEF Progress
  <2> QED BY <1>7, <2>2, <2>3 DEF MarkPending
<1>8. CASE AddRecord(w) \/ UpdateRecord(w)
  <2>1. worker[w].pc \in {"add", "update"} /\ worker[w].put = worker'[w].put /\ worker[w].config = worker'[w].config
        /\ worker'[w].pc \in {"add", "update", "truncate", "ready"}
    <3>1. CASE AddRecord(w)
      <4>1. \/ \E m : worker'[w] = [worker[w] EXCEPT !.adds = worker[w].adds \ {m}]
            \/ \E q \in {"update", "truncate", "ready"} : worker'[w] = [worker[w] EXCEPT !.pc = q]
        BY <1>1, <3>1 DEF AddRecord
      <4>2. worker[w].pc = "add"
        BY <3>1 DEF AddRecord
      <4> QED BY <1>1, <4>1, <4>2 DEF WorkerStates
    <3>2. CASE UpdateRecord(w)
      <4>1. PICK m : worker' = [worker EXCEPT ![w] = [worker[w] EXCEPT !.pc = "add", !.adds = worker[w].adds \ {m}]]
        BY <3>2 DEF UpdateRecord
      <4> QED BY <1>1, <3>2, <4>1 DEF UpdateRecord, WorkerStates
    <3> QED BY <1>8, <3>1, <3>2
  <2>2. Progress(worker[w])
    BY <2>1
  <2>3. Done \subseteq Done'
    BY <2>1, DoneByWorker
  <2>4. CASE worker'[w].adds = worker[w].adds /\ worker'[w].pc \in {"add", "update"}
    BY <2>1, <2>2, <2>3, <2>4 DEF Progress, Done
  <2>5. CASE worker[w].adds = {}
    <3>1. worker'[w].adds = {}
      BY <1>1, <1>3, <1>8, <2>5 DEF AddRecord, UpdateRecord, WorkerStates
    <3> QED BY <2>1, <2>2, <2>3, <2>5, <3>1 DEF Progress, Done
  <2>6. ASSUME NEW m \in worker[w].adds, worker'[w].adds = worker[w].adds \ {m}, m[1] \in Done',
               worker'[w].pc \in {"add", "update"}
        PROVE  Progress(worker[w])'
    <3>1. \A d \in Detectors, k \in Kinds : <<d, k>> \in worker[w].adds => <<d, k>> \in worker'[w].adds \/ d = m[1]
      BY <2>6
    <3> QED BY <2>1, <2>2, <2>3, <2>6, <3>1 DEF Progress, Done
  <2>7. \/ worker'[w].adds = worker[w].adds /\ worker'[w].pc \in {"add", "update"}
        \/ worker[w].adds = {}
        \/ \E m \in worker[w].adds : /\ worker'[w].adds = worker[w].adds \ {m} /\ m[1] \in Done'
                                     /\ worker'[w].pc \in {"add", "update"}
    <3>1. CASE AddRecord(w)
      <4>1. ASSUME NEW m \in NextOf(worker[w].adds), db' = [db EXCEPT ![m] = "active"],
                   worker' = [worker EXCEPT ![w] = [worker[w] EXCEPT !.adds = worker[w].adds \ {m}]]
            PROVE  /\ m \in worker[w].adds /\ worker'[w].adds = worker[w].adds \ {m} /\ m[1] \in Done'
                   /\ worker'[w].pc \in {"add", "update"}
        <5>1. m \in Models /\ m = <<m[1], m[2]>> /\ m[1] \in Detectors /\ m[2] \in Kinds /\ m \in worker[w].adds
          BY <1>3, <4>1 DEF Models
        <5>2. db'[m] = "active"
          BY <1>1, <4>1, <5>1
        <5>3. m[1] \in Done'
          BY <5>1, <5>2 DEF Done, ActiveIds
        <5> QED BY <1>1, <2>1, <4>1, <5>1, <5>3 DEF WorkerStates
      <4>2. CASE worker' = [worker EXCEPT ![w] = [worker[w] EXCEPT !.pc = "update"]]
        BY <1>1, <4>2 DEF WorkerStates
      <4> QED BY <3>1, <4>1, <4>2 DEF AddRecord
    <3>2. CASE UpdateRecord(w)
      <4>1. PICK m \in NextOf(worker[w].adds) :
               /\ db' = [db EXCEPT ![m] = IF worker[w].put /\ db[m] # "none" THEN "active" ELSE db[m]]
               /\ worker' = [worker EXCEPT ![w] = [worker[w] EXCEPT !.pc = "add", !.adds = worker[w].adds \ {m}]]
               /\ erased' = IF db[m] = "none" THEN erased \cup {m[1]} ELSE erased
        BY <3>2 DEF UpdateRecord
      <4>2. m \in Models /\ m = <<m[1], m[2]>> /\ m[1] \in Detectors /\ m[2] \in Kinds /\ m \in worker[w].adds
        BY <1>3, <4>1 DEF Models
      <4>3. db[m] # "none" => db'[m] = "active"
        BY <1>1, <2>1, <4>1, <4>2
      <4>4. m[1] \in Done'
        BY <4>1, <4>2, <4>3 DEF Done, ActiveIds
      <4> QED BY <1>1, <2>1, <4>1, <4>2, <4>4 DEF WorkerStates
    <3> QED BY <1>8, <3>1, <3>2
  <2> QED BY <2>4, <2>5, <2>6, <2>7
<1>9. CASE TruncateConfig(w)
  <2>1. CASE worker[w].pc = "truncate"
    <3>1. worker'[w].pc = "write" /\ worker'[w].config = worker[w].config /\ worker'[w].put = worker[w].put
          /\ UNCHANGED <<db, erased>>
      BY <1>1, <1>9, <2>1 DEF TruncateConfig, WorkerStates
    <3> QED BY <2>1, <3>1 DEF Progress, ActiveIds
  <2>2. CASE worker[w].pc = "seed"
    BY <1>1, <1>5, <1>9, <2>2 DEF TruncateConfig, WorkerStates
  <2> QED BY <1>9, <2>1, <2>2 DEF TruncateConfig
<1>10. CASE DatabaseMissing(w) \/ KillWorker(w)
  <2>1. CASE KillWorker(w)
    BY <1>1, <2>1 DEF KillWorker, DownWorker
  <2>2. CASE DatabaseMissing(w)
    <3>1. \/ worker' = [worker EXCEPT ![w] = DownWorker]
          \/ worker' = [worker EXCEPT ![w] = [worker[w] EXCEPT !.pc = "ready", !.put = FALSE, !.gone = {}, !.adds = {}]]
      BY <2>2 DEF DatabaseMissing
    <3>2. ~worker'[w].put
      <4>1. \/ worker'[w] = DownWorker
            \/ worker'[w] = [worker[w] EXCEPT !.pc = "ready", !.put = FALSE, !.gone = {}, !.adds = {}]
        BY <1>1, <3>1
      <4>2. worker[w] \in WorkerStates
        BY <1>1
      <4>3. /\ DownWorker.put = FALSE
            /\ [worker[w] EXCEPT !.pc = "ready", !.put = FALSE, !.gone = {}, !.adds = {}].put = FALSE
        BY <4>2 DEF WorkerStates, DownWorker
      <4>4. worker'[w].put = FALSE
        BY <4>1, <4>3, Zenon
      <4> QED BY <4>4
    <3> QED BY <3>2
  <2> QED BY <1>10, <2>1, <2>2
<1>11. CASE StatConfig(w) \/ LoadConfig(w)
  <2>1. /\ cached[w].config \in SUBSET Detectors /\ file.config \in SUBSET Detectors
    BY DEF TypeOK
  <2>2. CASE \E c \in SUBSET Detectors : Answered(w, c)
    BY <1>5, <2>2, AnsweredMoves
  <2>3. CASE worker' = [worker EXCEPT ![w] = [worker[w] EXCEPT !.pc = "load", !.stat = file.mtime]]
    BY <1>1, <1>5, <2>3 DEF WorkerStates
  <2> QED BY <1>11, <2>1, <2>2, <2>3 DEF StatConfig, LoadConfig
<1>12. CASE CreateTables(w) \/ WriteConfig(w) \/ Lookup(w)
  <2>1. CASE CreateTables(w)
    BY <1>1, <1>5, <2>1 DEF CreateTables, WorkerStates
  <2>2. CASE WriteConfig(w)
    <3>1. \/ worker' = [worker EXCEPT ![w] = [worker[w] EXCEPT !.pc = "stat"]]
          \/ worker' = [worker EXCEPT ![w] = [worker[w] EXCEPT !.pc = "ready", !.serving = TRUE, !.put = FALSE]]
      BY <2>2 DEF WriteConfig
    <3>2. worker'[w].pc \in {"stat", "ready"}
      <4>1. \/ worker'[w] = [worker[w] EXCEPT !.pc = "stat"]
            \/ worker'[w] = [worker[w] EXCEPT !.pc = "ready", !.serving = TRUE, !.put = FALSE]
        BY <1>1, <3>1
      <4>2. worker[w] \in WorkerStates
        BY <1>1
      <4>3. /\ [worker[w] EXCEPT !.pc = "stat"].pc = "stat"
            /\ [worker[w] EXCEPT !.pc = "ready", !.serving = TRUE, !.put = FALSE].pc = "ready"
        BY <4>2 DEF WorkerStates
      <4> QED BY <4>1, <4>3, Zenon
    <3> QED BY <1>5, <3>2
  <2>3. CASE Lookup(w)
    BY <1>1, <1>5, <2>3 DEF Lookup, WorkerStates
  <2> QED BY <1>12, <2>1, <2>2, <2>3
<1>13. ASSUME NEW d \in Detectors, Provision(w, d) PROVE FALSE
  BY <1>1, <1>2, <1>13 DEF Provision, TaskOK, WorkerStates
<1> QED BY <1>6, <1>7, <1>8, <1>9, <1>10, <1>11, <1>12, <1>13 DEF WorkerStep, WorkerEvent, Starts

\* Every step keeps the progress of the reconciliations that are alone.
LEMMA ProgressStep ==
    ASSUME TypeOK, TaskInv, AloneInv, ProgressInv, [Next]_vars
    PROVE  ProgressInv'
<1> SUFFICES ASSUME NEW v \in Workers, worker'[v].put, worker'[v].alone PROVE Progress(worker[v])'
  BY DEF ProgressInv
<1>1. ASSUME worker'[v] = worker[v], Done \subseteq Done' PROVE Progress(worker[v])'
  <2>1. Progress(worker[v])
    BY <1>1 DEF ProgressInv
  <2> QED BY <1>1, <2>1 DEF Progress, Done
<1>2. CASE UNCHANGED worker /\ Done \subseteq Done'
  BY <1>1, <1>2
<1>3. ASSUME NEW w \in Workers, WorkerStep(w) \/ WorkerEvent(w) PROVE Progress(worker[v])'
  <2>1. CASE Starts(w)
    <3>1. CASE v = w
      BY <2>1, <3>1, StartMoves DEF Progress
    <3>2. CASE v # w
      BY <2>1, <3>2, StartMoves DEF Busy
    <3> QED BY <3>1, <3>2
  <2>2. CASE ~Starts(w) /\ v = w
    <3>1. worker'[v].alone = worker[v].alone
      BY <1>3, <2>2, OwnMoves DEF Busy
    <3>2. worker[v].put => Progress(worker[v])
      BY <3>1 DEF ProgressInv
    <3> QED BY <1>3, <2>2, <3>2, OwnProgress
  <2>3. CASE ~Starts(w) /\ v # w
    <3>1. worker'[v] = worker[v]
      BY <1>3, <2>3, OwnMoves
    <3>2. ~Busy(worker[w])
      BY <2>3, <3>1 DEF AloneInv, Busy
    <3>3. worker[w].pc # "mark"
      BY <3>2 DEF TaskInv, TaskOK, Busy
    <3>4. worker[w].pc = "down" => Done \subseteq Done'
      BY <1>3, <2>3 DEF WorkerStep, WorkerEvent, Starts, CreateTables, StatConfig, LoadConfig, TruncateConfig,
         WriteConfig, Diff, MarkPending, AddRecord, UpdateRecord, DatabaseMissing, Lookup, PutConfig, Provision,
         KillWorker, WAt
    <3>5. Done \subseteq Done'
      BY <1>3, <3>3, <3>4, DoneByWorker
    <3> QED BY <1>1, <3>1, <3>5
  <2> QED BY <2>1, <2>2, <2>3
<1> QED BY <1>2, <1>3, OtherMoves

\* Every step keeps the configured detectors active.
LEMMA ConfiguredStep ==
    ASSUME TypeOK, TaskInv, AloneInv, ProgressInv, ConfiguredIsActive, [Next]_vars
    PROVE  ConfiguredIsActive'
<1> SUFFICES ASSUME tables', file'.state = "whole", ~mixed', \A w \in Workers : ~Busy(worker'[w])
             PROVE  file'.config \subseteq Done'
  <2>1. (\A w \in Workers : ~Reconciling(w))' => \A w \in Workers : ~Busy(worker'[w])
    BY DEF Reconciling, Busy, WAt
  <2> QED BY <2>1 DEF ConfiguredIsActive, Done
<1>1. ASSUME tables, file.state = "whole", ~mixed, \A w \in Workers : ~Busy(worker[w])
      PROVE  file.config \subseteq Done
  <2>1. \A w \in Workers : ~Reconciling(w)
    BY <1>1 DEF Reconciling, Busy, WAt
  <2> QED BY <1>1, <2>1 DEF ConfiguredIsActive, Done
<1>2. CASE UNCHANGED <<file, worker, tables, mixed>> /\ Done \subseteq Done'
  BY <1>1, <1>2
<1>3. ASSUME NEW w \in Workers, WorkerStep(w) \/ WorkerEvent(w) PROVE file'.config \subseteq Done'
  <2>1. ~Starts(w)
    BY StartMoves
  <2>2. CASE WriteConfig(w)
    <3>1. worker[w] \in WorkerStates /\ TaskOK(worker[w]) /\ worker \in [Workers -> WorkerStates]
      BY DEF TypeOK, TaskInv
    <3>2. worker[w].pc = "write"
      BY <2>2, <3>1 DEF WriteConfig, WAt, WGoto, WorkerStates, TaskOK, Busy
    <3>3. worker[w].alone
      <4>1. Busy(worker[w])
        BY <3>1, <3>2 DEF TaskOK, Busy
      <4>2. mixed' = (mixed /\ ~worker[w].alone)
        BY <2>2, <3>2 DEF WriteConfig, WAt
      <4>3. mixed \/ worker[w].alone
        BY <4>1 DEF AloneInv
      <4> QED BY <4>2, <4>3
    <3>4. Progress(worker[w])
      BY <3>1, <3>2, <3>3 DEF ProgressInv, TaskOK
    <3>5. file'.config = worker[w].config /\ UNCHANGED <<db, erased>>
      BY <2>2 DEF WriteConfig, dbVars
    <3> QED BY <3>2, <3>4, <3>5 DEF Progress, Done, ActiveIds
  <2>3. CASE ~WriteConfig(w)
    <3>1. ~Busy(worker[w])
      BY <1>3, <2>1, <2>3, OwnMoves
    <3>2. \A v \in Workers : ~Busy(worker[v])
      <4>1. \A v \in Workers \ {w} : worker'[v] = worker[v]
        BY <1>3, <2>1, OwnMoves
      <4> QED BY <3>1, <4>1
    <3>3. ~mixed
      BY <1>3, <2>1, <2>3, OwnMoves
    <3>4. worker[w].pc \notin {"mark", "create", "seed", "truncate", "seedWrite", "write"}
      BY <3>1 DEF TaskInv, TaskOK, Busy
    <3>5. worker[w].pc # "down"
      BY <1>3, <2>1 DEF WorkerStep, WorkerEvent, Starts, CreateTables, StatConfig, LoadConfig, TruncateConfig,
         WriteConfig, Diff, MarkPending, AddRecord, UpdateRecord, DatabaseMissing, Lookup, PutConfig, Provision,
         KillWorker, WAt
    <3>6. UNCHANGED <<file, tables>>
      BY <1>3, <2>1, <3>4 DEF WorkerStep, WorkerEvent, Starts, configVars, dbVars, CreateTables, StatConfig,
         LoadConfig, TruncateConfig, WriteConfig, Diff, MarkPending, AddRecord, UpdateRecord, DatabaseMissing,
         Lookup, PutConfig, Provision, KillWorker, WAt
    <3>7. Done \subseteq Done'
      BY <1>3, <3>4, <3>5, DoneByWorker
    <3> QED BY <1>1, <3>2, <3>3, <3>6, <3>7
  <2> QED BY <2>2, <2>3
<1> QED BY <1>2, <1>3, OtherMoves

ReconcileInv == TaskInv /\ AloneInv /\ ProgressInv /\ ConfiguredIsActive

\* Reconciliations make progress when they are alone, and know when they are not.
THEOREM ReconcileInductive == Spec => []ReconcileInv
<1>1. Init => ReconcileInv
  BY DEF Init, ReconcileInv, TaskInv, TaskOK, AloneInv, ProgressInv, ConfiguredIsActive, Busy, DownWorker
<1>2. TypeOK /\ ReconcileInv /\ [Next]_vars => ReconcileInv'
  BY TaskStep, AloneStep, ProgressStep, ConfiguredStep DEF ReconcileInv
<1> QED BY <1>1, <1>2, ControlTypes, PTL DEF Spec

\* When no reconciliation is under way, every detector of the active configuration has an
\* active record, unless reconciliations overlapped or were cut short since one last ran
\* alone (reconcile_config takes no lock), or the updater deleted a record added again.
THEOREM ConfiguredAreActive == Spec => []ConfiguredIsActive
<1>1. ReconcileInv => ConfiguredIsActive
  BY DEF ReconcileInv
<1> QED BY <1>1, ReconcileInductive, PTL

=============================================================================
