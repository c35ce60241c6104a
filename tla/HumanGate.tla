-------------------------------- MODULE HumanGate --------------------------------
(***************************************************************************)
(* What the service promises of everything that waits for a human, whether *)
(* it is a message to a customer or a metric the model has drafted: it     *)
(* takes effect only once somebody has approved it (principle 10), and     *)
(* that it was approved stays on record.                                   *)
(***************************************************************************)
VARIABLES
    approved,   \* the items somebody has approved
    inEffect    \* the items that are in effect: sent, or in use

gate == <<approved, inEffect>>

Init == approved = {} /\ inEffect = {}

\* Items are approved, and approved ones take effect, perhaps at once; anything may be
\* withdrawn.
Next ==
    /\ approved \subseteq approved'
    /\ inEffect' \ inEffect \subseteq approved'

Spec == Init /\ [][Next]_gate

\* Nothing is in effect that nobody has approved.
NothingUnapproved == inEffect \subseteq approved
=============================================================================
