-------------------------------- MODULE Kernel --------------------------------
(***************************************************************************)
(* What the command line programs (anyfs-nfsd, anyfs-ksmbd, anyfs-fuse)     *)
(* have in common: the main thread, the in-process kernel                   *)
(* (core/anyfs_kernel.c), and the disk images it opens and closes           *)
(* (core/anyfs_share.c, server_common/server_common.c).                     *)
(*                                                                          *)
(* A session is the number of its image.  What happens inside a session is  *)
(* the subject of AnyfsSession; here it is open or not, and has filesystems *)
(* mounted or not.                                                          *)
(***************************************************************************)
EXTENDS Integers, FiniteSets

CONSTANT MaxImages   \* bound on the images on the command line

VARIABLES
  prog,    \* the program: "nfs", "smb", "fuse" or "sync" (see FastSync)
  nimg,    \* n_images, fixed by the command line
  pc,      \* the main thread's position
  i,       \* its loop counter
  status,  \* the exit status it is going to return
  kern,    \* "off", "up" (g_kernel_started) or "halted"
  disks,   \* the non-NULL entries of disks[]
  live,    \* the sessions that are open
  mounts,  \* filesystems mounted below /lklmnt, pairs <<session, partition>>
  pinned,  \* the mounts an open file of the in-process kernel keeps busy
  twice    \* a session was closed that was not open

kvars == <<prog, nimg, pc, i, status, kern, disks, live, mounts, pinned, twice>>

Images(n) == 0 .. n - 1

KTypeOK ==
  /\ nimg \in 1 .. MaxImages
  /\ i \in Nat
  /\ status \in {0, 1}
  /\ kern \in {"off", "up", "halted"}
  /\ disks \subseteq Images(nimg) /\ live \subseteq Images(nimg)
  /\ pinned \subseteq mounts
  /\ twice \in BOOLEAN

KInit(programs) ==
  /\ prog \in programs
  /\ nimg \in 1 .. MaxImages
  /\ pc = "args"
  /\ i = 0
  /\ status = 1
  /\ kern = "off"
  /\ disks = {} /\ live = {} /\ mounts = {} /\ pinned = {}
  /\ twice = FALSE

Goto(l) == pc' = l /\ i' = 0
Loop == pc' = pc /\ i' = i + 1

----------------------------------------------------------------------------
\* anyfs_kernel_init: lkl_init or lkl_start_kernel may fail; the sysctls and
\* the mounts of sysfs and procfs are best effort.
anyfs_kernel_init(ok, fail) ==
  \/ /\ kern' = "up" /\ Goto(ok)
  \/ /\ kern' = kern /\ Goto(fail)

\* anyfs_kernel_halt does nothing when the kernel is not running.
anyfs_kernel_halt == kern' = IF kern = "up" THEN "halted" ELSE kern

\* anyfs_session_close: every filesystem of the session is unmounted, except
\* one that is busy, and the session is freed either way.
anyfs_session_close(ss) ==
  /\ live' = live \ ss
  /\ mounts' = {m \in mounts : m[1] \notin ss \/ m \in pinned}
  /\ twice' = (twice \/ ~ (ss \subseteq live))

\* One round of the loop of anyfs_share_open_disks.  A failure closes the
\* sessions already open and clears their entries; "left" are the entries
\* of disks[] after that.
OpenDisks(ok, fail, left) ==
  \/ /\ i < nimg
     /\ disks' = disks \cup {i} /\ live' = live \cup {i}
     /\ Loop
     /\ UNCHANGED <<mounts, twice>>
  \/ /\ i < nimg
     /\ anyfs_session_close(Images(i))
     /\ disks' = left
     /\ Goto(fail)
  \/ /\ i = nimg
     /\ Goto(ok)
     /\ UNCHANGED <<disks, live, mounts, twice>>

\* Mutant: the entries of the closed sessions keep their stale pointers.
open_disks_Stale(ok, fail) == OpenDisks(ok, fail, disks)

anyfs_share_open_disks(ok, fail) == OpenDisks(ok, fail, disks \ Images(i))
----------------------------------------------------------------------------
\* On every path, failing ones included, the program that ends has closed each
\* session it opened, once, has unmounted what it had entered (except a file
\* system an open file keeps busy) and has halted the kernel it started.
CleanExit ==
  /\ ~ twice
  /\ pc = "exit" => live = {} /\ mounts = pinned /\ kern # "up"
=============================================================================
