-------------------------- MODULE InferenceResults --------------------------
(***************************************************************************)
(* From the responses of the inference servers to the image query that is  *)
(* returned and to the metadata of its escalation.  A probability is a     *)
(* number of Units-ths; a confidence is a fraction, <<numerator,           *)
(* denominator>>.                                                          *)
(***************************************************************************)
EXTENDS Naturals, Sequences, FiniteSetsExt, Sums

CONSTANTS
    Units,          \* resolution of probabilities, even
    MaxClasses,     \* bound: classes of a multiclass or counting response
    BoxLabels,      \* members of the SDK's BoundingBoxLabelEnum
    SizeLimit       \* METADATA_SIZE_LIMIT_BYTES, in units of which "n ROIs were detected" is one

ASSUME ResultAssumption ==
    /\ Units \in Nat \ {0} /\ 2 * (Units \div 2) = Units
    /\ {MaxClasses, BoxLabels, SizeLimit} \subseteq Nat

Modes == {"BINARY", "COUNT", "MULTI_CLASS", "BOUNDING_BOX", "TEXT"}
Prob == 0..Units
SumOf(p) == SumOver(p, DOMAIN p)
NoRois == <<"none">>        \* the field is missing
RoisOf(scores) == <<"some", scores>>
NoScore == Units + 1        \* max_dropped_roi_scores is missing

Raises(error) == [error |-> error]
IsError(x) == "error" \in DOMAIN x

-----------------------------------------------------------------------------
(* Responses.  kind says which of predictions and multi_predictions is there; *)
(* the servers give a binary label the larger probability, and probabilities  *)
(* of classes that add up to one.                                             *)
Malformed == [kind : {"both", "neither", "invalid"}]
Binary == [kind : {"binary"}, conf : (Units \div 2)..Units, label : {0, 1}, texts : 0..2]
Multi(n) == [kind : {"multi"}, probs : {p \in [1..n -> Prob] : SumOf(p) = Units},
             rois : {NoRois}, dropped : {NoScore}, texts : {0}]
Boxes == [kind : {"multi"}, probs : {p \in [1..2 -> Prob] : SumOf(p) = Units},
          rois : {NoRois} \cup {RoisOf(s) : s \in SUBSET Prob}, dropped : Prob \cup {NoScore},
          texts : {0}]
NoResponse == [kind |-> "none"]

Primaries(mode) ==
    Malformed \cup CASE mode \in {"BINARY", "TEXT"} -> Binary
                     [] mode = "BOUNDING_BOX" -> Boxes
                     [] OTHER -> UNION {Multi(n) : n \in 1..MaxClasses}

\* get_num_classes, of a response that is not malformed.
NumClasses(r) == IF r.kind = "multi" THEN Len(r.probs) ELSE 2

\* calculate_confidence_for_bounding_box_mode
BoxConfidence(r) ==
    LET lowest == IF r.rois = NoRois \/ r.rois[2] = {} THEN 0 ELSE Min(r.rois[2])
        dropped == IF r.dropped = NoScore THEN 0 ELSE r.dropped
    IN  <<lowest * (Units - dropped), Units * Units>>

\* The first of the largest.
ArgMax(p) == CHOOSE i \in DOMAIN p : /\ \A j \in DOMAIN p : p[j] <= p[i]
                                     /\ \A j \in 1..(i - 1) : p[j] < p[i]

\* parse_inference_response
Parse(r, mode) ==
    CASE r.kind = "invalid" -> Raises("RuntimeError")
      [] r.kind \in {"both", "neither"} -> Raises("ValueError")
      [] r.kind = "binary" ->
            IF r.texts > 1 THEN Raises("ValueError")
            ELSE [conf |-> <<r.conf, Units>>, label |-> r.label, text |-> r.texts]
      [] r.kind = "multi" ->
            [conf |-> IF mode = "BOUNDING_BOX" THEN BoxConfidence(r)
                      ELSE <<r.probs[ArgMax(r.probs)], Units>>,
             label |-> ArgMax(r.probs) - 1,
             text |-> 0]

\* Mutant: the probability of an outlier is not weighted with the least confidence.
AdjustForgetsLeast(primary, oodd, mode, n) ==
    LET outlier == IF oodd.label = 1 THEN oodd.conf[1] ELSE Units - oodd.conf[1]
        d == primary.conf[2]
    IN  [primary EXCEPT !.conf = <<(Units - outlier) * primary.conf[1], Units * d>>]

\* adjust_confidence_with_oodd: label 1 of the OODD model is the outlier.  The result is
\* outlier * min_confidence + (1 - outlier) * confidence.
Adjust(primary, oodd, mode, n) ==
    LET outlier == IF oodd.label = 1 THEN oodd.conf[1] ELSE Units - oodd.conf[1]
        d == primary.conf[2]
        least == IF mode = "BOUNDING_BOX" THEN 0 ELSE 1
    IN  [primary EXCEPT !.conf =
            <<outlier * least * d + (Units - outlier) * primary.conf[1] * n, Units * n * d>>]

\* get_inference_result: get_num_classes comes first and refuses a malformed response.
Result(primary, oodd, mode) ==
    LET output == Parse(primary, mode)
        second == Parse(oodd, "BINARY")
    IN  IF primary.kind \in {"both", "neither", "invalid"} THEN Raises("ValueError")
        ELSE IF IsError(output) \/ oodd = NoResponse THEN output
        ELSE IF IsError(second) THEN second
        ELSE Adjust(output, second, mode, NumClasses(primary))

-----------------------------------------------------------------------------
(* The image query and its escalation. *)
Configs == [given : BOOLEAN, max : 0..MaxClasses, names : 1..MaxClasses]

\* _mode_to_result_and_type; max 0 is no maximum.
ModeResult(mode, config, value) ==
    CASE mode = "BINARY" -> [type |-> mode, label |-> IF value = 0 THEN "YES" ELSE "NO"]
      [] mode \in {"COUNT", "MULTI_CLASS"} /\ ~config.given -> Raises("ValueError")
      [] mode = "COUNT" /\ config.given ->
            LET more == config.max > 0 /\ value > config.max
            IN  [type |-> mode, count |-> IF more THEN config.max ELSE value, more |-> more]
      [] mode = "MULTI_CLASS" /\ config.given ->
            IF value < config.names THEN [type |-> mode, label |-> value] ELSE Raises("IndexError")
      [] mode = "BOUNDING_BOX" ->
            IF value < BoxLabels THEN [type |-> mode, label |-> value] ELSE Raises("IndexError")
      [] OTHER -> Raises("ValueError")

\* generate_metadata_dict, of a result of some size of which the ROIs make up a part, 0
\* when they are None: the whole result, the result without its ROIs, or none of it.  Of
\* None there is no length.
Metadata(size, rois) ==
    CASE size <= SizeLimit -> [sent |-> size]
      [] size > SizeLimit /\ rois = 0 -> Raises("TypeError")
      [] OTHER -> [sent |-> IF size - rois + 1 <= SizeLimit THEN size - rois + 1 ELSE 0]

VARIABLES
    input,      \* the mode, its configuration and the responses
    result,     \* of run_inference
    iq,         \* of create_iq
    metadata    \* of generate_metadata_dict, with the sizes it was given

resultVars == <<input, result, iq, metadata>>

Nothing == [none |-> TRUE]

ResultInit ==
    /\ \E mode \in Modes :
          input \in [mode : {mode}, config : IF mode \in {"COUNT", "MULTI_CLASS"} THEN Configs
                                             ELSE {[given |-> FALSE, max |-> 0, names |-> 1]},
                     primary : Primaries(mode), oodd : Binary \cup Malformed \cup {NoResponse}]
    /\ result = Nothing /\ iq = Nothing /\ metadata = Nothing

RunInference ==
    /\ result = Nothing
    /\ result' = Result(input.primary, input.oodd, input.mode)
    /\ UNCHANGED <<input, iq, metadata>>

CreateIq ==
    /\ result # Nothing /\ ~IsError(result) /\ iq = Nothing
    /\ iq' = ModeResult(input.mode, input.config, result.label)
    /\ UNCHANGED <<input, result, metadata>>

GenerateMetadata(size, rois) ==
    /\ iq # Nothing /\ ~IsError(iq) /\ metadata = Nothing
    /\ metadata' = Metadata(size, rois)
    /\ UNCHANGED <<input, result, iq>>

ResultNext ==
    \/ RunInference \/ CreateIq
    \/ \E size \in 1..(SizeLimit + 2) : \E rois \in 0..(size - 1) : GenerateMetadata(size, rois)

\* <<a, b>> is at most <<c, d>>
AtMost(x, y) == x[1] * y[2] <= y[1] * x[2]

\* What is returned is what the servers said: one of the most probable labels, with a
\* confidence that the OODD server can only lower, from the primary's own down to that of
\* a guess - all of it when the image is an outlier for certain, none when it is surely
\* not; a count is cut at the maximum and says so; what the escalation carries along
\* fits the limit of the metadata.
EdgeAnswerRight ==
    /\ result # Nothing /\ ~IsError(result) =>
          LET p == input.primary
              raw == Parse(p, input.mode).conf
              guess == IF input.mode = "BOUNDING_BOX" THEN <<0, 1>> ELSE <<1, NumClasses(p)>>
          IN  /\ AtMost(result.conf, raw) /\ AtMost(guess, result.conf)
              /\ input.oodd # NoResponse /\ input.oodd.conf = Units =>
                    LET certain == IF input.oodd.label = 1 THEN guess ELSE raw
                    IN  AtMost(result.conf, certain) /\ AtMost(certain, result.conf)
              /\ p.kind = "multi" => \A i \in DOMAIN p.probs : p.probs[i] <= p.probs[result.label + 1]
    /\ iq # Nothing /\ ~IsError(iq) /\ input.mode = "COUNT" /\ input.config.max > 0 =>
          iq.count = Min({result.label, input.config.max}) /\ iq.more = (iq.count # result.label)
    /\ metadata # Nothing /\ ~IsError(metadata) => metadata.sent <= SizeLimit

=============================================================================
