---------------------------- MODULE MCQemuThread ----------------------------
(* A view of QemuThread for TLC.                                           *)
EXTENDS QemuThread

(* What the last operation of an idle thread was is never read again. *)
Last == [t \in Threads |-> IF pc[t] = "idle" THEN <<>>
                           ELSE <<op[t], IF op[t] = "stop" THEN <<>> ELSE disk[t],
                                  t \in late>>]

View == <<orderly, qvars, syncs, pc, Last, warned, bhs, done, fatal, blks, added, halted>>
=============================================================================
