---------------------------- MODULE ModelUpdater ----------------------------
(***************************************************************************)
(* The inference model updater, one process: manage_update_models goes     *)
(* round and round through the deletion of the detectors that are pending, *)
(* the check of every active detector, the wait for the next cycle and the *)
(* refresh of the deployment_created flags.                                *)
(***************************************************************************)
EXTENDS ModelRepository

outsideUpdater == <<now, configVars, worker, tables, mixed, cloud>>

UAt(pc) == updater.pc = pc
UGoto(pc) == updater' = [updater EXCEPT !.pc = pc]

\* What the steps of a check leave alone, and the steps that only decide.
outsideCheck == <<outsideUpdater, db, erased, forgot>>
Decides == UNCHANGED <<outsideCheck, created, dep, repo, low>>

Target == updater.det
TargetModel(k) == <<updater.det, k>>
TargetModels(kinds) == {Target} \X kinds

\* One round of a loop over the models left, for m; the last one goes on to next.
Round(m, next) ==
    updater' = [updater EXCEPT !.left = @ \ {m}, !.pc = IF updater.left = {m} THEN next ELSE @]

-----------------------------------------------------------------------------
(* Deletions. *)

\* The detectors pending deletion, read once for this cycle.
ReadPending ==
    /\ UAt("pending") /\ tables
    /\ updater' = [updater EXCEPT !.pc = IF PendingIds = {} THEN "baseline" ELSE "delete",
                                  !.ids = PendingIds, !.left = PendingIds \X PodKinds]
    /\ Decides /\ UNCHANGED count

DeleteOne ==
    /\ UAt("delete")
    /\ \E m \in NextOf(updater.left) : DeleteDeployment(m) /\ Round(m, "poll")
    /\ UNCHANGED <<outsideCheck, created, repo, low, count>>

AllGone == \A m \in updater.ids \X PodKinds : FullyDeleted(m)

\* Mutant: the records go even though pods are still terminating.
PollGoneIgnored ==
    /\ UAt("poll")
    /\ UGoto("forget")
    /\ Decides /\ UNCHANGED count

\* The poll ends when it finds every pod gone, or when POD_DELETION_TIMEOUT_SECONDS
\* have passed, which may be at any time.
PollGone ==
    /\ UAt("poll")
    /\ \/ AllGone /\ UGoto("forget")
       \/ ~AllGone /\ UGoto("baseline")
    /\ Decides /\ UNCHANGED count

\* Mutant: only the record of the primary model is deleted.
DeleteRecordsPrimaryOnly ==
    /\ UAt("forget") /\ tables
    /\ \E d \in updater.ids :
          /\ db' = [db EXCEPT ![<<d, "primary">>] = "none"]
          /\ updater' = [updater EXCEPT !.ids = @ \ {d},
                                        !.pc = IF updater.ids = {d} THEN "baseline" ELSE @]
    /\ UNCHANGED <<outsideUpdater, created, dep, repo, low, erased, forgot, count>>

\* delete_inference_deployment_records, whatever the records say by now.
DeleteRecords ==
    /\ UAt("forget") /\ tables
    /\ \E d \in updater.ids :
          /\ db' = [m \in Models |-> IF m[1] = d THEN "none" ELSE db[m]]
          /\ created' = [m \in Models |-> IF m[1] = d THEN FALSE ELSE created[m]]
          /\ erased' = IF d \in ActiveIds THEN erased \cup {d} ELSE erased
          /\ updater' = [updater EXCEPT !.ids = @ \ {d},
                                        !.pc = IF updater.ids = {d} THEN "baseline" ELSE @]
    /\ UNCHANGED <<outsideUpdater, dep, repo, low, forgot, count>>

-----------------------------------------------------------------------------
(* The check of the active detectors. *)

TakeBaseline ==
    /\ UAt("baseline") /\ tables
    /\ updater' = [updater EXCEPT !.pc = "list", !.base = ActiveIds]
    /\ Decides /\ UNCHANGED count

ListDetectors ==
    /\ UAt("list") /\ tables
    /\ updater' = [updater EXCEPT !.pc = IF ActiveIds = {} THEN "wait" ELSE "pick",
                                  !.ids = ActiveIds]
    /\ Decides /\ UNCHANGED count

PickDetector ==
    /\ UAt("pick")
    /\ \E d \in updater.ids :
          updater' = [updater EXCEPT !.pc = "fetch", !.det = d, !.ids = @ \ {d}, !.made = FALSE]
    /\ Decides /\ UNCHANGED count

\* update_models_if_available: the cloud's answer for both kinds, and which to save.
FetchModelInfo ==
    LET new == {k \in Kinds : ShouldUpdate(TargetModel(k), cloud[TargetModel(k)])} IN
    /\ UAt("fetch")
    /\ updater' = [updater EXCEPT !.pc = IF new = {} THEN "ensure" ELSE "save",
                                  !.info = [k \in Kinds |-> cloud[TargetModel(k)]],
                                  !.new = new,
                                  !.left = TargetModels(IF new = {} THEN PodKinds ELSE new)]
    /\ Decides /\ UNCHANGED count

SaveVersion ==
    /\ UAt("save")
    /\ \E m \in NextOf(updater.left) : NewVersion(m, updater.info[m[2]])
    /\ UGoto("files")
    /\ UNCHANGED <<outsideCheck, created, dep, low, count>>

SaveFile ==
    /\ UAt("files")
    /\ \E m \in NextOf(updater.left) :
          /\ WriteFile(m)
          /\ updater' =
               IF ~Saved(m)' THEN updater
               ELSE IF updater.left # {m} THEN [updater EXCEPT !.pc = "save", !.left = @ \ {m}]
               ELSE [updater EXCEPT !.pc = "ensure", !.left = TargetModels(PodKinds)]
    /\ UNCHANGED <<outsideCheck, created, dep, low, count>>

\* Missing deployments are created; an existing one is patched only when there is
\* a new model and none was created just now.
EnsureDeployments ==
    /\ UAt("ensure")
    /\ \E m \in NextOf(updater.left) :
          LET made == updater.made \/ ~dep[m].present
              patch == updater.new # {} /\ ~made
          IN
          /\ CreateDeployment(m)
          /\ updater' =
               IF updater.left # {m} THEN [updater EXCEPT !.left = @ \ {m}, !.made = made]
               ELSE [updater EXCEPT !.pc = IF patch THEN "patch" ELSE "complete", !.made = made,
                                    !.left = IF patch THEN TargetModels(PodKinds) ELSE {}]
    /\ UNCHANGED <<outsideCheck, created, repo, low, count>>

PatchDeployments ==
    /\ UAt("patch")
    /\ \E m \in NextOf(updater.left) : PatchDeployment(m) /\ Round(m, "starting")
    /\ UNCHANGED <<outsideCheck, created, repo, low, count>>

\* The polls for the rollout to begin and to complete end well, or at their
\* deadlines, which may be at any time and raise.
AwaitRolloutStart ==
    /\ UAt("starting")
    /\ UGoto(IF \E k \in PodKinds : RolloutComplete(TargetModel(k)) THEN "changed" ELSE "rolling")
    /\ Decides /\ UNCHANGED count

\* Mutant: a rollout that timed out is taken for complete.
AwaitRolloutTimeoutIgnored ==
    /\ UAt("rolling")
    /\ UGoto("cleanup")
    /\ Decides /\ UNCHANGED count

AwaitRollout ==
    /\ UAt("rolling")
    /\ UGoto(IF \A k \in PodKinds : RolloutComplete(TargetModel(k)) THEN "cleanup" ELSE "changed")
    /\ Decides /\ UNCHANGED count

CleanUp ==
    /\ UAt("cleanup")
    /\ DeleteOldVersions(Target)
    /\ UGoto("complete")
    /\ UNCHANGED <<outsideCheck, created, dep, repo, count>>

\* deployment_created is set once the rollout is complete.
CheckComplete ==
    /\ UAt("complete")
    /\ IF \A k \in PodKinds : RolloutComplete(TargetModel(k))
       THEN updater' = [updater EXCEPT !.pc = "flag", !.left = TargetModels(PodKinds)]
       ELSE UGoto("changed")
    /\ Decides /\ UNCHANGED count

\* update_inference_deployment_record: nothing happens to a record that is gone.
SetFlag(m, value) == created' = [created EXCEPT ![m] = IF db[m] = "none" THEN @ ELSE value]

FlagCreated ==
    /\ UAt("flag") /\ tables
    /\ \E m \in NextOf(updater.left) : SetFlag(m, TRUE) /\ Round(m, "changed")
    /\ UNCHANGED <<outsideCheck, dep, repo, low, count>>

\* _detector_config_changed ends the pass over the detectors early.
CheckChanged ==
    /\ UAt("changed") /\ tables
    /\ UGoto(IF PendingIds # {} \/ ActiveIds # updater.base \/ updater.ids = {}
             THEN "wait" ELSE "pick")
    /\ Decides /\ UNCHANGED count

-----------------------------------------------------------------------------
\* _wait_for_next_cycle ends, at its deadline or because the configuration changed.
EndWait ==
    LET known == {d \in Detectors : Records(d) # {}} IN
    /\ UAt("wait") /\ tables
    /\ updater' = IF known = {} THEN FreshUpdater
                  ELSE [FreshUpdater EXCEPT !.pc = "status", !.left = known \X PodKinds]
    /\ Decides /\ UNCHANGED count

RefreshStatus ==
    /\ UAt("status") /\ tables
    /\ \E m \in NextOf(updater.left) : SetFlag(m, dep[m].present) /\ Round(m, "pending")
    /\ UNCHANGED <<outsideCheck, dep, repo, low, count>>

-----------------------------------------------------------------------------
(* Failures. *)

\* An exception in the work on one detector is logged: nothing is undone or retried.
CheckFails ==
    /\ updater.pc \in {"fetch", "save", "files", "ensure", "patch", "starting", "rolling",
                      "cleanup", "complete", "flag"}
    /\ Occurs("fault")
    /\ UGoto("changed")
    /\ Decides

\* A query while a starting worker has dropped the tables ends the process, and
\* the work on a detector.
TablesMissing ==
    /\ updater.pc \in {"pending", "forget", "baseline", "list", "flag", "changed", "wait", "status"}
    /\ ~tables
    /\ updater # FreshUpdater
    /\ updater' = IF UAt("flag") THEN [updater EXCEPT !.pc = "changed"] ELSE FreshUpdater
    /\ Decides /\ UNCHANGED count

\* A kill, or an exception outside the work on one detector.
KillUpdater ==
    /\ ~UAt("pending")
    /\ Occurs("fault")
    /\ updater' = FreshUpdater
    /\ Decides

UpdaterStep ==
    \/ ReadPending \/ DeleteOne \/ PollGone \/ DeleteRecords
    \/ TakeBaseline \/ ListDetectors \/ PickDetector
    \/ FetchModelInfo \/ SaveVersion \/ SaveFile
    \/ EnsureDeployments \/ PatchDeployments \/ AwaitRolloutStart \/ AwaitRollout \/ CleanUp
    \/ CheckComplete \/ FlagCreated \/ CheckChanged \/ EndWait \/ RefreshStatus
    \/ TablesMissing

UpdaterFault == CheckFails \/ KillUpdater

=============================================================================
