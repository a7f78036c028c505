------------------------- MODULE MCRecoveryRegistry -------------------------
(* Small instances of RecoveryRegistry for TLC. *)
EXTENDS RecoveryRegistry, TLC

Symmetry == Permutations(Worker) \cup Permutations(Pid) \cup
            Permutations(WorkerSlot) \cup Permutations(Record)
=============================================================================
