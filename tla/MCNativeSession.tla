-------------------------- MODULE MCNativeSession --------------------------
(***************************************************************************)
(* Instances of NativeSession for TLC.                                     *)
(***************************************************************************)
EXTENDS NativeSession

(* One session attaches, and is busy with two operations or retries; the  *)
(* other has one less.                                                    *)
OneBusier == [s \in Sessions |-> IF s = "s1" THEN 3 ELSE 2]
=============================================================================
