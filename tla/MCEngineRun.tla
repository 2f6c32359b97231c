----------------------------- MODULE MCEngineRun -----------------------------
(* EngineRun for TLC: lists of two and three fidelities, and two that are   *)
(* refused (unsorted, without full fidelity).                               *)
EXTENDS EngineRun

MCFidelities == {<<1, 4>>, <<1, 3, 4>>, <<2, 1, 4>>, <<1, 3>>}
=============================================================================
