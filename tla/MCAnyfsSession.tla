--------------------------- MODULE MCAnyfsSession ---------------------------
(* Instances of AnyfsSession for TLC.                                      *)
EXTENDS AnyfsSession, TLC

\* Threads only ever appear in quantifiers and as arguments of pc.
Symmetry == Permutations(Threads)

\* The locals of a thread that is in no call: nothing reads them again.
Locals(t) ==
    IF pc[t] = "idle" THEN <<>>
    ELSE <<slot[t], repl[t], rc[t], waited[t], todo[t], cur[t], back[t]>>

View == <<state, hinted, attached, node, kernelVars, pc,
          [t \in Threads |-> Locals(t)]>>

=============================================================================
