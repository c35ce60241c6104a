------------------------------- MODULE MCApprovals -------------------------------
(* An instance of Approvals for TLC; the requests are interchangeable. *)
EXTENDS Approvals, TLC

RequestSymmetry == Permutations(Requests)
=============================================================================
