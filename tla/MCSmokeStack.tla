----------------------------- MODULE MCSmokeStack -----------------------------
(***************************************************************************)
(* SmokeStack for TLC: every two kinds of failure come together in some    *)
(* scenario; or nothing but MLflow fails, or workers only take over from   *)
(* each other.  Workers are interchangeable.                               *)
(***************************************************************************)
EXTENDS SmokeStack, TLC

MCScenarios ==
    {FaultKinds \ {"takeover"}, FaultKinds \ {"tracking"},
     {"tracking", "takeover", "crash"}, {"tracking"}, {"takeover"}}

Symmetry == Permutations(Workers)
=============================================================================
