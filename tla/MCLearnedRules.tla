----------------------------- MODULE MCLearnedRules -----------------------------
(* Instances of LearnedRules for TLC: one about thresholds, one about audits. *)
EXTENDS LearnedRules

SeedValue == [k \in Thresholds |-> 1]

Suggest(type, kinds, keys, values, effects, sures, bases) ==
    [type : type, kind : kinds, key : keys, value : values,
     effect : effects, sure : sures, based : bases]

\* Threshold rules on one row, confirmed by a human, one of them naming no row; and the
\* same with a narrow scope kind, which nobody confirms.
ThresholdProposals ==
    Suggest({"threshold"}, {"threshold"}, Thresholds, {2, 3}, {0}, {TRUE}, {FALSE})
      \cup Suggest({"threshold"}, {"threshold"}, {NoThreshold}, {2}, {0}, {TRUE}, {FALSE})
      \cup Suggest({"threshold"}, {"entity"}, Thresholds \cup {NoThreshold}, {2}, {0}, {TRUE}, {FALSE})

\* Suppressions: auto-applied or not, from a dismissal or from free text.
SuppressProposals ==
    Suggest({"suppress"}, {"once"}, {NoThreshold}, {1}, {0}, {TRUE}, {TRUE})
      \cup Suggest({"suppress"}, {"once"}, {NoThreshold}, {1}, {2}, {TRUE}, {FALSE})
=============================================================================
