---------------------------- MODULE MCJobPlatform ----------------------------
(* Constants, symmetry and a bound for model checking JobPlatform with TLC. *)
EXTENDS JobPlatformInv, TLC

Symmetry ==
    Permutations(Workers) \cup Permutations(Messages) \cup Permutations(Experiments)

\* The bound on behaviours with duplicates: they are followed until the last fault.
OneFaultWithDuplicates ==
    faults < MaxFaults \/ \E m \in Messages : queue[m].state = "free"
=============================================================================
