----------------------------- MODULE EdgeConfig -----------------------------
(***************************************************************************)
(* A uvicorn worker on the control plane: its start, EdgeConfigManager     *)
(* (the active configuration file and the cache each worker keeps of it)   *)
(* and reconcile_config, which turns a configuration into records of the   *)
(* database.  Nothing locks the file or the sequence of transactions: the  *)
(* eight workers and the updater interleave between any two of them.       *)
(***************************************************************************)
EXTENDS ControlState

outsideWorker == <<now, clusterVars, updater>>

WAt(w, pc) == worker[w].pc = pc
WGoto(w, pc) == worker' = [worker EXCEPT ![w] = [worker[w] EXCEPT !.pc = pc]]

\* Between the reset of the database, or the PUT, and the save that ends reconcile_config.
Reconciling(w) ==
    \/ ~worker[w].serving /\ ~WAt(w, "down")
    \/ worker[w].put

\* w begins a reconciliation in state s; the ones under way are no longer alone.
Begins(w, s) ==
    LET others == {v \in Workers \ {w} : Reconciling(v)} IN
    /\ worker' = [v \in Workers |->
                    IF v = w THEN [s EXCEPT !.alone = others = {}]
                    ELSE IF v \in others THEN [worker[v] EXCEPT !.alone = FALSE]
                    ELSE worker[v]]
    /\ mixed' = (mixed \/ others # {})

-----------------------------------------------------------------------------
\* startup_event: every worker that starts resets the database.
DropTables(w) ==
    /\ WAt(w, "down")
    /\ Begins(w, [DownWorker EXCEPT !.pc = "create"])
    /\ tables' = FALSE
    /\ db' = [m \in Models |-> "none"]
    /\ created' = [m \in Models |-> FALSE]
    /\ forgot' = forgot \cup {d \in Detectors : Records(d) # {}}
    /\ UNCHANGED <<outsideWorker, configVars, erased, count>>

\* The tables are there again; EDGE_CONFIG, or the Helm ConfigMap when there is
\* no active configuration yet, is saved as the active one.
CreateTables(w) ==
    LET seed == IF EnvConfig # NoConfig THEN EnvConfig
                ELSE IF file.state = "absent" THEN HelmConfig ELSE NoConfig
    IN
    /\ WAt(w, "create")
    /\ tables' = TRUE
    /\ worker' = [worker EXCEPT ![w] =
                    IF seed = NoConfig THEN [worker[w] EXCEPT !.pc = "stat"]
                    ELSE [worker[w] EXCEPT !.pc = "seed", !.config = seed]]
    /\ UNCHANGED <<outsideWorker, configVars, db, created, historyVars, count>>

-----------------------------------------------------------------------------
\* active() answered: a request goes on, a starting worker reconciles what it got.
Answered(w, config) ==
    worker' = [worker EXCEPT ![w] =
                 IF worker[w].serving THEN [worker[w] EXCEPT !.pc = "ready"]
                 ELSE [worker[w] EXCEPT !.pc = "diff", !.config = config, !.put = TRUE]]

\* A request handler looks at the active configuration.
Lookup(w) ==
    /\ WAt(w, "ready")
    /\ Occurs("lookup")
    /\ WGoto(w, "stat")
    /\ UNCHANGED <<outsideWorker, configVars, dbVars, historyVars>>

\* active: the file's mtime decides whether it is read again.
StatConfig(w) ==
    /\ WAt(w, "stat")
    /\ IF file.state # "absent" /\ file.mtime # cached[w].mtime
       THEN worker' = [worker EXCEPT ![w] = [worker[w] EXCEPT !.pc = "load", !.stat = file.mtime]]
       ELSE Answered(w, cached[w].config)
    /\ UNCHANGED <<outsideWorker, configVars, dbVars, historyVars, count>>

\* Mutant: the mtime is remembered although the file could not be parsed.
LoadConfigRemembersFailure(w) ==
    /\ WAt(w, "load")
    /\ \E config \in IF file.state = "whole" THEN {file.config} ELSE {cached[w].config, {}} :
          /\ cached' = [cached EXCEPT ![w] = [config |-> config, mtime |-> file.mtime]]
          /\ Answered(w, config)
    /\ UNCHANGED <<outsideWorker, file, rewritten, dbVars, historyVars, count>>

\* The read and the parse.  Of a file that is being rewritten the parser sees an
\* empty or a cut document: it raises, and the cached configuration stays, or it
\* finds nothing and yields the defaults, which configure no detector.
LoadConfig(w) ==
    /\ WAt(w, "load")
    /\ \/ \E config \in IF file.state = "whole" THEN {file.config} ELSE {{}} :
             /\ cached' = [cached EXCEPT ![w] = [config |-> config, mtime |-> worker[w].stat]]
             /\ Answered(w, config)
       \/ /\ file.state = "torn"
          /\ Answered(w, cached[w].config)
          /\ UNCHANGED cached
    /\ UNCHANGED <<outsideWorker, file, rewritten, dbVars, historyVars, count>>

\* save, open(..., "w"): the old configuration is gone before the new one is there.
TruncateConfig(w) ==
    /\ worker[w].pc \in {"seed", "truncate"}
    /\ file' = [state |-> "torn", config |-> {}, mtime |-> now]
    /\ rewritten' = IF file.state = "whole" THEN file.mtime ELSE rewritten
    /\ WGoto(w, IF WAt(w, "seed") THEN "seedWrite" ELSE "write")
    /\ UNCHANGED <<outsideWorker, cached, dbVars, historyVars, count>>

\* The write ends the save, and with it the reconciliation.
WriteConfig(w) ==
    /\ worker[w].pc \in {"seedWrite", "write"}
    /\ file' = [state |-> "whole", config |-> worker[w].config, mtime |-> now]
    /\ rewritten' = IF file.state = "whole" THEN file.mtime ELSE rewritten
    /\ IF WAt(w, "seedWrite")
       THEN WGoto(w, "stat") /\ UNCHANGED mixed
       ELSE /\ worker' = [worker EXCEPT ![w] =
                            [worker[w] EXCEPT !.pc = "ready", !.serving = TRUE, !.put = FALSE]]
            /\ mixed' = (mixed /\ ~worker[w].alone)
    /\ UNCHANGED <<outsideWorker, cached, dbVars, erased, forgot, count>>

-----------------------------------------------------------------------------
\* set_edge_config: PUT of a configuration.
PutConfig(w, config) ==
    /\ WAt(w, "ready")
    /\ Occurs("put")
    /\ Begins(w, [worker[w] EXCEPT !.pc = "diff", !.config = config, !.put = TRUE])
    /\ UNCHANGED <<outsideWorker, configVars, dbVars, erased, forgot>>

\* post_image_query without edge inference: the detector gets records of its own accord.
Provision(w, d) ==
    /\ WAt(w, "ready")
    /\ Occurs("query")
    /\ worker' = [worker EXCEPT ![w] = [worker[w] EXCEPT !.pc = "add", !.adds = {d} \X PodKinds]]
    /\ UNCHANGED <<outsideWorker, configVars, dbVars, historyVars>>

\* Mutant: a detector that has a record, pending deletion or not, is not added.
DiffKeepsPending(w) ==
    /\ WAt(w, "diff")
    /\ tables
    /\ worker' = [worker EXCEPT ![w] =
                    [worker[w] EXCEPT !.pc = "mark",
                                      !.gone = ActiveIds \ worker[w].config,
                                      !.adds = {d \in worker[w].config : Records(d) = {}} \X Kinds]]
    /\ UNCHANGED <<outsideWorker, configVars, dbVars, historyVars, count>>

\* compute_detector_diff of the configuration against the active records.
Diff(w) ==
    /\ WAt(w, "diff")
    /\ tables
    /\ worker' = [worker EXCEPT ![w] =
                    [worker[w] EXCEPT !.pc = "mark",
                                      !.gone = ActiveIds \ worker[w].config,
                                      !.adds = (worker[w].config \ ActiveIds) \X Kinds]]
    /\ UNCHANGED <<outsideWorker, configVars, dbVars, historyVars, count>>

\* apply_detector_changes, first half: mark_detector_pending_deletion, one transaction each.
MarkPending(w) ==
    /\ WAt(w, "mark")
    /\ tables
    /\ \/ \E d \in worker[w].gone :
             /\ db' = [m \in Models |-> IF m[1] = d /\ db[m] # "none" THEN "pending" ELSE db[m]]
             /\ worker' = [worker EXCEPT ![w] = [worker[w] EXCEPT !.gone = @ \ {d}]]
       \/ worker[w].gone = {} /\ WGoto(w, "add") /\ UNCHANGED db
    /\ UNCHANGED <<outsideWorker, configVars, tables, created, historyVars, count>>

\* create_or_update_inference_deployment_record, the insert; model_name is unique.
AddRecord(w) ==
    /\ WAt(w, "add")
    /\ tables
    /\ \/ \E m \in NextOf(worker[w].adds) :
             /\ db[m] = "none"
             /\ db' = [db EXCEPT ![m] = "active"]
             /\ created' = [created EXCEPT ![m] = FALSE]
             /\ erased' = erased \ {m[1]}
             /\ forgot' = forgot \ {m[1]}
             /\ worker' = [worker EXCEPT ![w] = [worker[w] EXCEPT !.adds = @ \ {m}]]
       \/ /\ \E m \in NextOf(worker[w].adds) : db[m] # "none"
          /\ WGoto(w, "update")
          /\ UNCHANGED <<db, created, erased, forgot>>
       \/ /\ worker[w].adds = {}
          /\ WGoto(w, IF worker[w].put THEN "truncate" ELSE "ready")
          /\ UNCHANGED <<db, created, erased, forgot>>
    /\ UNCHANGED <<outsideWorker, configVars, tables, mixed, count>>

\* _handle_existing_detector, a second transaction: the flags of a configured
\* detector are reset, a query leaves pending_deletion alone.  A record deleted
\* since the insert failed is not created: update_inference_deployment_record returns.
UpdateRecord(w) ==
    /\ WAt(w, "update")
    /\ tables
    /\ \E m \in NextOf(worker[w].adds) :
          /\ db' = [db EXCEPT ![m] = IF worker[w].put /\ @ # "none" THEN "active" ELSE @]
          /\ created' = [created EXCEPT ![m] = FALSE]
          /\ worker' = [worker EXCEPT ![w] = [worker[w] EXCEPT !.pc = "add", !.adds = @ \ {m}]]
          /\ erased' = IF db[m] = "none" THEN erased \cup {m[1]} ELSE erased
    /\ UNCHANGED <<outsideWorker, configVars, tables, mixed, forgot, count>>

\* The tables are missing while another worker resets them: the request fails,
\* a starting worker dies.
DatabaseMissing(w) ==
    /\ worker[w].pc \in {"diff", "mark", "add", "update"}
    /\ ~tables
    /\ worker' = [worker EXCEPT ![w] =
                    IF worker[w].serving
                    THEN [worker[w] EXCEPT !.pc = "ready", !.put = FALSE, !.gone = {}, !.adds = {}]
                    ELSE DownWorker]
    /\ mixed' = (mixed \/ worker[w].put)
    /\ cached' = IF worker[w].serving THEN cached
                 ELSE [cached EXCEPT ![w] = [config |-> {}, mtime |-> 0]]
    /\ UNCHANGED <<outsideWorker, file, rewritten, dbVars, erased, forgot, count>>

\* A worker is killed; the supervisor starts another in its place.
KillWorker(w) ==
    /\ ~WAt(w, "down")
    /\ Occurs("kill")
    /\ worker' = [worker EXCEPT ![w] = DownWorker]
    /\ cached' = [cached EXCEPT ![w] = [config |-> {}, mtime |-> 0]]
    /\ mixed' = (mixed \/ Reconciling(w))
    /\ UNCHANGED <<outsideWorker, file, rewritten, dbVars, erased, forgot>>

\* What a worker does once it is under way.
WorkerStep(w) ==
    \/ DropTables(w) \/ CreateTables(w)
    \/ StatConfig(w) \/ LoadConfig(w) \/ TruncateConfig(w) \/ WriteConfig(w)
    \/ Diff(w) \/ MarkPending(w) \/ AddRecord(w) \/ UpdateRecord(w) \/ DatabaseMissing(w)

WorkerEvent(w) ==
    \/ Lookup(w)
    \/ \E config \in SUBSET Detectors : PutConfig(w, config)
    \/ \E d \in Detectors : Provision(w, d)
    \/ KillWorker(w)

=============================================================================
