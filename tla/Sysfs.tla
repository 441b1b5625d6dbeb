-------------------------------- MODULE Sysfs --------------------------------
(***************************************************************************)
(* How a session learns from the kernel's /sys which block device is its   *)
(* disk and which partitions the disk has (core/anyfs_sysfs.c, and what    *)
(* core/anyfs_session.c makes of it).                                      *)
(*                                                                         *)
(* A directory is [exists, ents], ents in the order of readdir.  A small   *)
(* file is [k, v]: k is "missing", "fails", "word" or "num", v its number. *)
(* An entry of /sys/block/<disk> is [pre, tail, idx] with its files start, *)
(* size and ro: pre is ".", "other" or "disk" (its name starts with that   *)
(* of the disk), tail what follows after an optional p: "", "num" or       *)
(* "word", idx the number.                                                 *)
(***************************************************************************)
EXTENDS Integers, Sequences, SequencesExt, FiniteSets

\* The insertion sort at the end of anyfs_sysfs_walk.
sort_by_index(buf) ==
  LET below(s, x) == Cardinality({i \in DOMAIN s : s[i].index <= x.index})
      put(s, x)   == InsertAt(s, below(s, x) + 1, x)
      f[n \in 0 .. Len(buf)] == IF n = 0 THEN <<>> ELSE put(f[n - 1], buf[n])
  IN  f[Len(buf)]

\* read_small trims the text; read_u64 wants a digit.
read_small(file) == file.k \notin {"missing", "fails"}

read_u64(file, default) == IF read_small(file) /\ file.k = "num" THEN file.v ELSE default

\* "vda1" or "nvme0n1p1": the disk's name, a separator, a number that is not 0.
is_partition(e) == e.pre = "disk" /\ e.tail = "num" /\ e.idx # 0

to_part(e) ==
  [index |-> e.idx, start |-> read_u64(e.start, 0) * 512, size |-> read_u64(e.size, 0) * 512,
   ro |-> read_u64(e.ro, 0) # 0]

\* What does not fit the buffer is counted; the sort runs when all fitted.
anyfs_sysfs_walk(dir, buf_n) ==
  IF ~ dir.exists THEN [got |-> -1, buf |-> <<>>]
  ELSE LET all == SelectSeq(dir.ents, is_partition)
           got == Len(all)
           buf == [i \in 1 .. IF got < buf_n THEN got ELSE buf_n |-> to_part(all[i])]
       IN  [got |-> got, buf |-> IF got > 1 /\ got <= buf_n THEN sort_by_index(buf) ELSE buf]

\* The slots of a session: each partition with the type of the table entry
\* that has its index (pt, from anyfs_probe_pt_blkdev), "?" without one.
load_top_parts_locked(dir, pt, max_parts) ==
  LET w == anyfs_sysfs_walk(dir, max_parts)
      type(index) ==
        LET hits == SelectSeq(pt, LAMBDA e : e.index = index) IN IF hits = <<>> THEN "?" ELSE hits[1].type
  IN  [i \in DOMAIN w.buf |-> [part |-> w.buf[i], ptype |-> type(w.buf[i].index)]]

----------------------------------------------------------------------------
(* Which disk is vda *)

WithPrefix(dir, prefix) == SelectSeq(dir.ents, LAMBDA e : e.pre = prefix)

\* With out == NULL scan_prefix counts, else it gives the first entry found.
scan_count(dir, prefix) == IF dir.exists THEN Len(WithPrefix(dir, prefix)) ELSE -1

scan_first(dir, prefix) ==
  IF dir.exists /\ WithPrefix(dir, prefix) # <<>> THEN <<WithPrefix(dir, prefix)[1]>> ELSE <<>>

NoDir == [exists |-> FALSE, ents |-> <<>>]

\* Disk id's directory: among those registered before boot, or the hot-added
\* ones that are numbered after them.  auto[i + 1] is virtio-mmio.i.auto.
virtio_node(sys, id) ==
  LET count == scan_count(sys.cmdline, "virtio-mmio.")
      nboot == IF count < 0 THEN 0 ELSE count
      boot  == SelectSeq(sys.cmdline.ents, LAMBDA e : e.pre = "virtio-mmio." /\ e.num = id)
  IN  IF id < nboot THEN (IF boot = <<>> THEN NoDir ELSE boot[1].dir)
      ELSE IF id - nboot + 1 \in DOMAIN sys.auto THEN sys.auto[id - nboot + 1] ELSE NoDir

anyfs_sysfs_virtio_disk_name(sys, id) ==
  LET virtio == scan_first(virtio_node(sys, id), "virtio")
      vd     == IF virtio = <<>> THEN <<>> ELSE scan_first(virtio[1].block, "vd")
  IN  IF vd = <<>> THEN <<>> ELSE <<vd[1].name>>

----------------------------------------------------------------------------

\* A session has every partition of its disk once, in the order of their
\* numbers whatever the order of readdir, each with its own geometry and the
\* type of its own table entry; when there are more than fit, those it has
\* are still real ones.  Index 0 is never a partition: it means the whole disk.
PartsReal(dir, pt, max_parts) ==
  LET real  == {to_part(dir.ents[i]) : i \in {j \in DOMAIN dir.ents : is_partition(dir.ents[j])}}
      slots == load_top_parts_locked(dir, pt, max_parts)
      fits  == Cardinality(real) <= max_parts
  IN  /\ anyfs_sysfs_walk(dir, max_parts).got = Cardinality(real)
      /\ \A i \in DOMAIN slots : slots[i].part \in real /\ slots[i].part.index # 0
      /\ \A i, j \in DOMAIN slots : i # j => slots[i].part.index # slots[j].part.index
      /\ fits => {slots[i].part : i \in DOMAIN slots} = real
      /\ fits => \A i, j \in DOMAIN slots : i < j => slots[i].part.index < slots[j].part.index
      /\ ~ fits => Len(slots) = max_parts
      /\ \A i \in DOMAIN slots, j \in DOMAIN pt :
           pt[j].index = slots[i].part.index => slots[i].ptype = pt[j].type

\* disks[id + 1] is the kernel name that the disk with this id has, "" for
\* one that has none any more: the session finds that name and no other, also
\* when the kernel has given a name of a closed disk to a later one.
DiskFound(sys, disks) ==
  \A id \in 0 .. Len(disks) - 1 :
    anyfs_sysfs_virtio_disk_name(sys, id) = IF disks[id + 1] = "" THEN <<>> ELSE <<disks[id + 1]>>
=============================================================================
