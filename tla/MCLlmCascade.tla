------------------------------ MODULE MCLlmCascade ------------------------------
(* An instance of LlmCascade for TLC. *)
EXTENDS LlmCascade

CONSTANTS narration, audit

MCRoles == {narration, audit}
MCDefaultTiers == narration :> 1 @@ audit :> 2
MCPatches == {[cascade_max_escalations |-> 2],
              [cascade_enabled |-> FALSE],
              [escalation_confidence_threshold |-> IllTyped],
              [role_tiers |-> narration :> IllTyped],
              [role_tiers |-> narration :> 3, escalation_confidence_threshold |-> 90],
              [role_tiers |-> audit :> 0, cascade_max_escalations |-> 3]}
=============================================================================
