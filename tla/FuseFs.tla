-------------------------------- MODULE FuseFs --------------------------------
(***************************************************************************)
(* anyfs-fuse (fuse/fuse_main.c): main with its unwinding labels, and the   *)
(* FUSE operations, which libfuse calls one at a time.                      *)
(*                                                                          *)
(* Mode A pins one partition at the root, mode B shows a synthetic tree of  *)
(* disks and partitions over the path language of PathDsl.  An operation is *)
(* modelled by what it does to the mounts, the handles and the open files   *)
(* of the in-process kernel; the images are opened read-only, so no         *)
(* operation changes what a filesystem contains.                            *)
(***************************************************************************)
EXTENDS Kernel, PathDsl

CONSTANTS
  Layout,    \* image -> partition chain -> "fs", "cont" (container) or "bad"
  Paths,     \* the paths the operations are called with
  PinPaths,  \* the values of -o part=, as segment sequences
  Handles,   \* FUSE file handles
  MaxFd      \* bound on the in-process kernel's file descriptors

ASSUME FuseAssumption == MaxFd \in Nat

\* Partitions are numbered from 1, there are no more of them than an int
\* counts, and an image nests no more containers than a path can name.
ASSUME LayoutAssumption ==
  /\ MaxImages \in 0 .. INT_MAX
  /\ \A d \in Images(MaxImages) : \A c \in DOMAIN Layout[d] :
       c \in Seq(1 .. INT_MAX) /\ Len(c) \in 1 .. MAX_COMPONENTS
  /\ Paths \subseteq Seq(SegmentType)

VARIABLES
  fres,    \* what main holds of libfuse: "fuse", "signals", "mount"
  pin,     \* mode A: the mount at the root; NoMount in mode B
  h,       \* the open handles: NoHandle or [path, dir, fh, fd]
  lfd,     \* file descriptor -> the mount of the open file, or NoMount
  fd0,     \* the lowest descriptor the kernel gives out
  listed   \* the entries the last listing of a synthetic directory showed

NoMount == <<>>
NoHandle == [path |-> <<>>, dir |-> FALSE, fh |-> -1, fd |-> -1]

uvars == <<fres, pin, h, lfd, fd0, listed>>

UInit ==
  /\ fres = {}
  /\ pin = NoMount
  /\ h = [x \in Handles |-> NoHandle]
  /\ lfd = [f \in 0 .. MaxFd |-> NoMount]
  /\ fd0 \in 0 .. 1
  /\ listed = {}

Fuse(l) == prog = "fuse" /\ pc = l

----------------------------------------------------------------------------
(* main *)

ULater == UNCHANGED <<prog, nimg, pinned, pin, h, lfd, fd0, listed>>
UNoDisk == UNCHANGED <<disks, live, mounts, twice>>

\* A set-up step that takes r from libfuse or goes to the label that undoes
\* the earlier ones; and a clean-up step that gives r back.
Take(at, r, ok, fail) ==
  /\ Fuse(at)
  /\ \/ fres' = fres \cup {r} /\ Goto(ok)
     \/ fres' = fres /\ Goto(fail)
  /\ ULater /\ UNoDisk /\ UNCHANGED <<status, kern>>

Give(at, r, next) ==
  /\ Fuse(at)
  /\ fres' = fres \ {r}
  /\ Goto(next)
  /\ ULater /\ UNoDisk /\ UNCHANGED <<status, kern>>

\* Options, image and mount point.
FuseArgs ==
  /\ Fuse("args")
  /\ Goto("f_new") \/ Goto("exit")
  /\ ULater /\ UNoDisk /\ UNCHANGED <<fres, status, kern>>

fuse_new == Take("f_new", "fuse", "f_sig", "exit")
fuse_set_signal_handlers == Take("f_sig", "signals", "f_mnt", "out_fuse_destroy")
fuse_mount == Take("f_mnt", "mount", "f_daemon", "out_remove_signals")

\* fuse_daemonize; the kernel starts after the fork.
Daemonize ==
  /\ Fuse("f_daemon")
  /\ Goto("f_boot") \/ Goto("out_fuse_unmount")
  /\ ULater /\ UNoDisk /\ UNCHANGED <<fres, status, kern>>

FuseBoot ==
  /\ Fuse("f_boot")
  /\ anyfs_kernel_init("f_disks", "out_fuse_unmount")
  /\ ULater /\ UNoDisk /\ UNCHANGED <<fres, status>>

FuseDisks ==
  /\ Fuse("f_disks")
  /\ anyfs_share_open_disks("f_enter", "out_kernel_halt")
  /\ ULater /\ UNCHANGED <<fres, status, kern>>

----------------------------------------------------------------------------
(* Walking a partition chain: anyfs_session_walk, as AnyfsSession has it *)

Parts(comp) == [k \in DOMAIN comp |-> comp[k].p]

\* "fs" or "cont" when the chain can be entered, "bad" otherwise.
Walk(d, comp) ==
  LET c == Parts(comp)
  IN  IF /\ d \in Images(nimg) /\ c \in DOMAIN Layout[d]
         /\ \A n \in 1 .. Len(c) - 1 : Layout[d][SubSeq(c, 1, n)] = "cont"
      THEN Layout[d][c] ELSE "bad"

\* The mount the walk leaves behind, if the leaf is a filesystem.
Walked(d, comp) ==
  IF Walk(d, comp) = "fs" THEN {<<d, Parts(comp)>>} ELSE {}

\* Top-level partitions of an image.
Tops(d) == {c \in DOMAIN Layout[d] : Len(c) = 1}

\* A bare integer in -o part= stands for p<N>.
part_str(s) ==
  IF Len(s) = 1 /\ s[1].t = "digit" /\ s[1].q = "none" /\ s[1].n > 0
  THEN <<PSeg(strtol(s[1].n))>> ELSE s

\* Mode A enters the partition of -o part=; mode B may prefetch.
Enter ==
  /\ Fuse("f_enter")
  /\ \/ \E s \in PinPaths :
          LET dsl == anyfs_path_parse(part_str(s))
          IN  IF dsl.ok /\ Walk(dsl.disk, dsl.comp) = "fs"
              THEN /\ pin' = <<dsl.disk, Parts(dsl.comp)>>
                   /\ mounts' = mounts \cup {pin'}
                   /\ Goto("f_loop")
              ELSE /\ UNCHANGED <<pin, mounts>>
                   /\ Goto("out_disks_close")
     \/ Goto("f_loop") /\ UNCHANGED <<pin, mounts>>
     \/ /\ mounts' = mounts \cup UNION {{<<d, c>> : c \in {t \in Tops(d) : Layout[d][t] = "fs"}} :
                                         d \in Images(nimg)}
        /\ Goto("f_loop") /\ UNCHANGED pin
  /\ UNCHANGED <<prog, nimg, pinned, status, kern, disks, live, twice, fres, h, lfd, fd0, listed>>

----------------------------------------------------------------------------
(* The operations, one at a time *)

Op == Fuse("f_loop")
OpRest == UNCHANGED <<prog, nimg, pc, i, status, kern, disks, live, twice, fres, pin, fd0>>

\* fuse_path_to_lkl for path s, parsed to fp: the mount and the path below it,
\* or an error.
fuse_path_to_lkl(s, fp) ==
      CASE pin # NoMount -> [rc |-> "ok", m |-> pin, inner |-> s]
        [] pin = NoMount /\ fp.kind = "IN_PARTITION" /\ Walk(fp.disk, fp.chain) = "fs" ->
             [rc |-> "ok", m |-> <<fp.disk, Parts(fp.chain)>>, inner |-> fp.inner]
        [] pin = NoMount /\ fp.kind = "IN_PARTITION" /\ Walk(fp.disk, fp.chain) # "fs" ->
             [rc |-> "EIO", m |-> NoMount, inner |-> <<>>]
        [] OTHER -> [rc |-> "ENOENT", m |-> NoMount, inner |-> <<>>]

\* The mounts that resolving fp adds; mode A resolves without the session.
Entered(fp) ==
  IF pin # NoMount \/ fp.kind \notin {"IN_PARTITION", "PART_NODE"} THEN {}
  ELSE Walked(fp.disk, fp.chain)

\* What a filesystem contains: a file (word 0) and a directory (word 1).
Exists(inner) == inner = <<>> \/ (Len(inner) = 1 /\ inner[1].t = "word" /\ inner[1].n < 2)
IsDir(inner) == \A k \in DOMAIN inner : inner[k].n = 1

\* anyfs_fuse_getattr without a handle: the result, for the listing property.
getattr(fp) ==
      CASE fp.kind \in {"SYNTH_ROOT", "SYNTH_FILE"} -> "ok"
        [] fp.kind = "PART_NODE" -> IF Walk(fp.disk, fp.chain) = "bad" THEN "ENOENT" ELSE "ok"
        [] fp.kind = "IN_PARTITION" ->
             IF Walk(fp.disk, fp.chain) = "fs" /\ Exists(fp.inner) THEN "ok" ELSE "ENOENT"
        [] OTHER -> "ENOENT"

\* getattr resolves partition nodes too, mounting what the path leads through.
Getattr(fp) ==
  /\ Op
  /\ mounts' = mounts \cup Entered(fp)
  /\ UNCHANGED <<pinned, h, lfd, listed>> /\ OpRest

\* The other operations on one path resolve it with fuse_path_to_lkl and pass
\* it to the in-process kernel.
ResolveOp(s, fp) ==
  /\ Op
  /\ fuse_path_to_lkl(s, fp).rc = "ok"
  /\ mounts' = mounts \cup {fuse_path_to_lkl(s, fp).m}
  /\ UNCHANGED <<pinned, h, lfd, listed>> /\ OpRest

\* readlink, mknod, mkdir, unlink, rmdir, symlink
PathOp(s, fp) == ResolveOp(s, fp)
\* chmod, chown, truncate; with a handle they only use its descriptor
AttrOp(s, fp) == ResolveOp(s, fp)
\* the four xattr operations
XattrOp(s, fp) == ResolveOp(s, fp)
Statfs(s, fp) == ResolveOp(s, fp)
\* access; what does not resolve is allowed if it is synthetic
Access(s, fp) == ResolveOp(s, fp)
Utimens(s, fp) == ResolveOp(s, fp)

\* rename and link resolve the second path only if the first one resolves.
TwoPathOp(s, fp, t, tp) ==
  LET a == fuse_path_to_lkl(s, fp)
      b == fuse_path_to_lkl(t, tp)
  IN  /\ Op
      /\ a.rc = "ok"
      /\ mounts' = mounts \cup {a.m} \cup (IF b.rc = "ok" THEN {b.m} ELSE {})
      /\ UNCHANGED <<pinned, h, lfd, listed>> /\ OpRest

FreeFds == {f \in fd0 .. MaxFd : lfd[f] = NoMount}
LowestFd == CHOOSE f \in FreeFds : \A g \in FreeFds : f <= g

\* An open of the in-process kernel on mount m, kept in handle x.
LklOpen(x, s, m, dir) ==
  /\ lfd' = [lfd EXCEPT ![LowestFd] = m]
  /\ h' = [h EXCEPT ![x] = [path |-> s, dir |-> dir, fh |-> IF dir THEN 1 ELSE LowestFd, fd |-> LowestFd]]
  /\ pinned' = pinned \cup {m}
  /\ mounts' = mounts \cup {m}

\* A synthetic file or directory: fi->fh = 0.
SynthOpen(x, s, dir) ==
  /\ h' = [h EXCEPT ![x] = [path |-> s, dir |-> dir, fh |-> 0, fd |-> -1]]
  /\ UNCHANGED <<mounts, pinned, lfd>>

Fails(fp) == mounts' = mounts \cup Entered(fp) /\ UNCHANGED <<h, pinned, lfd>>

\* anyfs_fuse_open and anyfs_fuse_create; creating on the read-only mount
\* opens what exists and fails otherwise.
Open(x, s, fp, create) ==
  LET r == fuse_path_to_lkl(s, fp)
      synth == pin = NoMount /\ ~ create /\ fp.kind = "SYNTH_FILE"
      opens == r.rc = "ok" /\ Exists(r.inner) /\ FreeFds # {}
  IN  /\ Op
      /\ h[x] = NoHandle
      /\ \/ synth /\ SynthOpen(x, s, FALSE)
         \/ ~ synth /\ opens /\ LklOpen(x, s, r.m, FALSE)
         \/ ~ synth /\ ~ opens /\ Fails(fp)
      /\ UNCHANGED listed /\ OpRest

\* anyfs_fuse_opendir: the mount's root for a filesystem node, synthetic for
\* the root, a disk and a container.
Opendir(x, s, fp) ==
  LET w  == Walk(fp.disk, fp.chain)
      synth == pin = NoMount /\ (fp.kind = "SYNTH_ROOT" \/ (fp.kind = "PART_NODE" /\ w = "cont"))
      real  == \/ pin # NoMount /\ Exists(s) /\ IsDir(s)
               \/ /\ pin = NoMount /\ w = "fs"
                  /\ \/ fp.kind = "PART_NODE"
                     \/ fp.kind = "IN_PARTITION" /\ Exists(fp.inner) /\ IsDir(fp.inner)
      m == IF pin # NoMount THEN pin ELSE <<fp.disk, Parts(fp.chain)>>
  IN  /\ Op
      /\ h[x] = NoHandle
      /\ \/ synth /\ SynthOpen(x, s, TRUE)
         \/ real /\ FreeFds # {} /\ LklOpen(x, s, m, TRUE)
         \/ ~ synth /\ (~ real \/ FreeFds = {}) /\ Fails(fp)
      /\ UNCHANGED listed /\ OpRest

\* Mutant: the root lists partitions whatever the number of disks.
SynthNames_OneDisk(fp) == {PSeg(c[1]) : c \in Tops(0)} \cup {Synth}

\* The names anyfs_fuse_readdir shows in a synthetic directory.
SynthNames(fp) ==
  LET parts(d) == {PSeg(c[1]) : c \in Tops(d)}
      kids == {PSeg(c[Len(c)]) : c \in {k \in DOMAIN Layout[fp.disk] :
                  Len(k) = Len(fp.chain) + 1 /\ SubSeq(k, 1, Len(fp.chain)) = Parts(fp.chain)}}
  IN  CASE fp.kind = "PART_NODE" -> kids
        [] fp.kind = "SYNTH_ROOT" /\ fp.disk >= 0 -> parts(fp.disk) \cup {Synth}
        [] fp.kind = "SYNTH_ROOT" /\ fp.disk < 0 /\ nimg = 1 -> parts(0) \cup {Synth}
        [] OTHER -> {DiskSeg(d) : d \in Images(nimg)} \cup {Synth}

\* anyfs_fuse_readdir; a real directory is read by the in-process kernel.
Readdir(x) ==
  /\ Op
  /\ h[x] # NoHandle /\ h[x].dir /\ h[x].fh = 0
  /\ \E fp \in {parse_fuse_path(h[x].path, nimg)} :
       listed' = {Append(h[x].path, n) : n \in SynthNames(fp)}
  /\ UNCHANGED <<mounts, pinned, h, lfd>> /\ OpRest

PinnedBy(fdmap) == {fdmap[f] : f \in DOMAIN fdmap} \ {NoMount}

\* anyfs_fuse_release and anyfs_fuse_releasedir.  fh 0 means synthetic: a file
\* that got descriptor 0 is not closed.
CloseHandle(x, skip) ==
  LET fdmap == IF skip THEN lfd ELSE [lfd EXCEPT ![h[x].fd] = NoMount]
  IN  /\ Op
      /\ h[x] # NoHandle
      /\ h' = [h EXCEPT ![x] = NoHandle]
      /\ lfd' = fdmap
      /\ pinned' = PinnedBy(fdmap)
      /\ listed' = IF h[x].dir THEN {} ELSE listed
      /\ UNCHANGED mounts /\ OpRest

\* Mutant: release closes descriptor fi->fh of a synthetic file as well.
Release_Always(x) ==
  LET fdmap == IF h[x].dir /\ h[x].fd < 0 THEN lfd
               ELSE [lfd EXCEPT ![IF h[x].dir THEN h[x].fd ELSE h[x].fh] = NoMount]
  IN  /\ Op
      /\ h[x] # NoHandle
      /\ h' = [h EXCEPT ![x] = NoHandle]
      /\ lfd' = fdmap
      /\ pinned' = PinnedBy(fdmap)
      /\ UNCHANGED <<listed, mounts>> /\ OpRest

Release(x) == CloseHandle(x, h[x].fh = 0)

\* Every operation on a path begins with parse_fuse_path.
FuseOps ==
  \/ \E s \in Paths : \E fp \in {parse_fuse_path(s, nimg)} :
       \/ Getattr(fp) \/ PathOp(s, fp) \/ AttrOp(s, fp) \/ XattrOp(s, fp)
       \/ Statfs(s, fp) \/ Access(s, fp) \/ Utimens(s, fp)
       \/ \E t \in Paths : \E tp \in {parse_fuse_path(t, nimg)} : TwoPathOp(s, fp, t, tp)
       \/ \E x \in Handles :
            Open(x, s, fp, TRUE) \/ Open(x, s, fp, FALSE) \/ Opendir(x, s, fp)
  \/ \E x \in Handles : Readdir(x) \/ Release(x)

----------------------------------------------------------------------------
(* The end: a signal, an unmount or an error of libfuse ends the loop *)

LoopEnds ==
  /\ Fuse("f_loop")
  /\ status' \in {0, 1}
  /\ Goto("out_disks_close")
  /\ ULater /\ UNoDisk /\ UNCHANGED <<fres, kern>>

\* The sessions of g_disks, in order; there are none when opening failed.
out_disks_close ==
  /\ Fuse("out_disks_close")
  /\ \/ i < nimg /\ anyfs_session_close({i} \cap disks) /\ disks' = disks \ {i} /\ Loop
     \/ i = nimg /\ Goto("out_kernel_halt") /\ UNCHANGED <<disks, live, mounts, twice>>
  /\ ULater /\ UNCHANGED <<fres, status, kern>>

out_kernel_halt ==
  /\ Fuse("out_kernel_halt")
  /\ anyfs_kernel_halt
  /\ Goto("out_fuse_unmount")
  /\ ULater /\ UNoDisk /\ UNCHANGED <<fres, status>>

out_fuse_unmount == Give("out_fuse_unmount", "mount", "out_remove_signals")
out_remove_signals == Give("out_remove_signals", "signals", "out_fuse_destroy")
out_fuse_destroy == Give("out_fuse_destroy", "fuse", "exit")

FuseMain ==
  \/ FuseArgs \/ fuse_new \/ fuse_set_signal_handlers \/ fuse_mount
  \/ Daemonize \/ FuseBoot \/ FuseDisks \/ Enter
  \/ out_disks_close \/ out_kernel_halt
  \/ out_fuse_unmount \/ out_remove_signals \/ out_fuse_destroy

UNext == FuseMain \/ LoopEnds \/ FuseOps

\* anyfs-fuse on its own, without fairness.
USpec == KInit({"fuse"}) /\ UInit /\ [][UNext]_<<kvars, uvars>>

----------------------------------------------------------------------------
(* Properties *)

\* What a synthetic directory lists can be looked up, then and later, except a
\* partition whose filesystem or container cannot be entered: readdir, the
\* FUSE path parser and the partition walk agree.
ListedResolve ==
  \A s \in listed : \A fp \in {parse_fuse_path(s, nimg)} :
    /\ fp.kind # "NOENT"
    /\ getattr(fp) # "ok" => fp.kind = "PART_NODE" /\ Parts(fp.chain) \in DOMAIN Layout[fp.disk]

\* A real handle's descriptor is open on the handle's own mount and no other
\* handle has it; and a descriptor other than 0 that no handle has is closed.
HandleFds ==
  /\ \A x \in Handles : h[x].fd >= 0 =>
       lfd[h[x].fd] # NoMount /\ \A y \in Handles : h[y].fd = h[x].fd => y = x
  /\ \A f \in 1 .. MaxFd : lfd[f] # NoMount => \E x \in Handles : h[x].fd = f

\* Whichever set-up step fails, main gives back to libfuse what it had taken.
FuseUnwound == prog = "fuse" /\ pc = "exit" => fres = {}
=============================================================================
