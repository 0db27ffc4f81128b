---------------------------- MODULE MCWorkerSlots ----------------------------
(* Small instances of WorkerSlots. *)
EXTENDS WorkerSlots, TLC

JobSymmetry == Permutations(SlotJob)
=============================================================================
