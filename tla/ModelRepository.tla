--------------------------- MODULE ModelRepository ---------------------------
(***************************************************************************)
(* The model repository on disk: a directory per version, highest number   *)
(* current, its files written one after the other, model_id.txt last.      *)
(* repo[m][v] is version v of model m; versions below low[m] are deleted.  *)
(***************************************************************************)
EXTENDS InferenceDeployments

\* save_model_to_repository: the file written after the ones that are there.
NextFile(v) ==
    CASE v.files = "dir" /\ v.model \in Binary -> "buffer"
      [] v.files = "dir" /\ v.model \notin Binary -> "config"
      [] v.files = "buffer" -> "config"
      [] v.files = "config" -> "metadata"
      [] OTHER -> "id"

\* should_update: there is no version, or the current one is not this model - by
\* model_id.txt, which a cut-short save lacks, or for a model without a binary
\* by pipeline_config.yaml.
ShouldUpdate(m, model) ==
    LET current == repo[m][Len(repo[m])]
        marks == IF model \in Binary THEN {"id"} ELSE {"config", "metadata", "id"}
    IN  repo[m] = <<>> \/ ~(current.model = model /\ current.files \in marks)

\* save_models_to_repository: the directory of the next version.
NewVersion(m, model) == repo' = [repo EXCEPT ![m] = Append(@, [model |-> model, files |-> "dir"])]

WriteFile(m) ==
    LET n == Len(repo[m])
        v == repo[m][n]
    IN  repo' = [repo EXCEPT ![m] = [@ EXCEPT ![n] = [v EXCEPT !.files = NextFile(v)]]]

Saved(m) == Complete(repo[m][Len(repo[m])])

\* delete_old_model_versions: all but the two newest versions of both kinds.
DeleteOldVersions(d) ==
    low' = [m \in Models |->
              IF m[1] = d /\ Len(repo[m]) - low[m] + 1 > 2 THEN Len(repo[m]) - 1 ELSE low[m]]

=============================================================================
