------------------------------- MODULE MCDetection -------------------------------
(* An instance of Detection for TLC: a key that every scan detects and
   another that some scans detect, and a rule whose scope matches the
   first or both, and is narrowed or widened. *)
EXTENDS Detection

NarrowOrWide == {Standing, Keys}
=============================================================================
