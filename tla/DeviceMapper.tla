---------------------------- MODULE DeviceMapper ----------------------------
(***************************************************************************)
(* The device-mapper calls of core/anyfs_dm.c, for one device name, with   *)
(* every kernel call free to fail.                                         *)
(*                                                                         *)
(* dm is what the kernel and /dev hold: the device ("none", "empty" after  *)
(* DM_DEV_CREATE, "loaded", "active", "suspended"), whether its node is    *)
(* published and whether somebody has the device open.  bad is the set of  *)
(* kernel calls that fail this time; the kernel's own rules (create        *)
(* refuses a name in use, remove refuses an open device) come on top.      *)
(***************************************************************************)
EXTENDS Integers, FiniteSets

Steps == {"control", "version", "create", "alloc", "load", "resume", "mknod", "remove"}

NoDevice == [dev |-> "none", node |-> FALSE, held |-> FALSE]

\* DM_DEV_REMOVE: refused while the device is open, or by a failing kernel.
Removed(dm, bad) ==
  IF dm.dev = "none" \/ dm.held \/ "remove" \in bad THEN dm ELSE [dm EXCEPT !.dev = "none"]

\* dm_open_control makes the node of the control device when it is missing;
\* dm_version_check wants version 4.
dm_open_control(bad) == "control" \notin bad

dm_version_check(bad) == "version" \notin bad

\* A slip: a failure goes straight to out_close.
Undo_CloseOnly(dm, bad) == dm

\* out_remove and out_close.
Undo(dm, bad) == Removed(dm, bad)

\* dm_setup_one_target: create, load, resume, publish; what was created here
\* is removed again on a later failure.  A name in use fails at create, and
\* nothing is removed then.
dm_setup_one_target(dm, bad) ==
  LET empty  == [dm EXCEPT !.dev = "empty"]
      active == [dm EXCEPT !.dev = "active"]
  IN  CASE ~ dm_open_control(bad) \/ ~ dm_version_check(bad)
             \/ dm.dev # "none" \/ "create" \in bad -> [rc |-> -1, dm |-> dm]
        [] OTHER ->
             IF bad \cap {"alloc", "load"} # {} THEN [rc |-> -1, dm |-> Undo(empty, bad)]
             ELSE IF "resume" \in bad THEN [rc |-> -1, dm |-> Undo([dm EXCEPT !.dev = "loaded"], bad)]
             ELSE IF "mknod" \in bad THEN [rc |-> -1, dm |-> Undo([active EXCEPT !.node = FALSE], bad)]
             ELSE [rc |-> 0, dm |-> [active EXCEPT !.node = TRUE]]

\* anyfs_dm_linear and anyfs_dm_crypt check their arguments and build the
\* target's parameters; an empty partition is refused.
anyfs_dm_linear(dm, sectors, bad) ==
  IF sectors = 0 THEN [rc |-> -1, dm |-> dm] ELSE dm_setup_one_target(dm, bad)

anyfs_dm_crypt(dm, sectors, key_len, bad) ==
  IF sectors = 0 \/ key_len = 0 \/ "alloc" \in bad THEN [rc |-> -1, dm |-> dm]
  ELSE dm_setup_one_target(dm, bad)

\* anyfs_dm_remove: suspend, clear the inactive table, remove, unlink the
\* node.  Only a failing remove is reported; an absent device is success.
anyfs_dm_remove(dm, bad) ==
  IF ~ dm_open_control(bad) \/ ~ dm_version_check(bad) THEN [rc |-> -1, dm |-> dm]
  ELSE LET asleep == IF dm.dev = "active" THEN [dm EXCEPT !.dev = "suspended"] ELSE dm
           gone   == Removed(asleep, bad)
       IN  [rc |-> IF gone.dev = "none" THEN 0 ELSE -1, dm |-> [gone EXCEPT !.node = FALSE]]

----------------------------------------------------------------------------

\* A device is published whole or not at all, and a failure can be retried.  A
\* setup that fails leaves nothing, so the same setup without the fault
\* succeeds.  When the kernel refuses the clean-up as well, what is left has no
\* node and keeps its name: a new setup is refused and changes nothing until a
\* removal succeeds, and one removal is enough.  A setup under a name in use
\* never touches the device that has it; and after a removal that reports
\* success the name is free again.
DmRetryable(bad, held) ==
  LET s1   == anyfs_dm_linear(NoDevice, 1, bad)
      up   == anyfs_dm_linear(NoDevice, 1, {}).dm
      r    == anyfs_dm_remove([up EXCEPT !.held = held], bad)
      left == anyfs_dm_linear(s1.dm, 1, {})
  IN  /\ s1.rc < 0 =>
           /\ ~ s1.dm.node
           /\ "remove" \notin bad => s1.dm = NoDevice /\ left.rc = 0
           /\ s1.dm # NoDevice => left = [rc |-> -1, dm |-> s1.dm]
           /\ anyfs_dm_linear(anyfs_dm_remove(s1.dm, {}).dm, 1, {}).rc = 0
      /\ s1.rc = 0 => s1.dm.dev = "active" /\ s1.dm.node
      /\ anyfs_dm_linear(up, 1, bad) = [rc |-> -1, dm |-> up]
      /\ r.rc = 0 => anyfs_dm_crypt(r.dm, 1, 32, {}).rc = 0
      /\ anyfs_dm_remove(NoDevice, bad \ {"control", "version"}).rc = 0
=============================================================================
