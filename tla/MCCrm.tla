---------------------------------- MODULE MCCrm ----------------------------------
(* An instance of Crm for TLC. *)
EXTENDS Crm, TLC

CONSTANTS c1, c2, rep

MCAssignedTo == c1 :> rep @@ c2 :> None
MCDefaults == {[s \in ALL_STAGES |-> IF s = "won" THEN 10000 ELSE IF s = "lost" THEN 0 ELSE 5000],
               [s \in ALL_STAGES |-> 2000]}
\* A cent at one half: half a cent in two columns is rounded twice, a cent in the total not.
MCBodies == {[stage |-> "lost", probability |-> 4000], [value |-> 1],
             [stage |-> "qualified", value |-> 1]}
MCSymmetry == Permutations(Ids) \cup Permutations(Requests)
=============================================================================
