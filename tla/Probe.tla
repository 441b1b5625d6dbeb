-------------------------------- MODULE Probe --------------------------------
(***************************************************************************)
(* What core/anyfs_probe.c reads from the start of a block device: the     *)
(* kind of a slot, the type of the partition table and the table itself.   *)
(* The three are computed by three functions that read the device again.   *)
(*                                                                         *)
(* A device is a record of what its first 64 KiB hold:                     *)
(*   opens  the device can be opened                                       *)
(*   got    how many bytes the read loop gets, see the constants           *)
(*   luks   the LUKS magic at 0       jump  a FAT jump byte or "NTFS    "  *)
(*   pv     sector 0 .. 3 holding an LVM2 label, -1 for none               *)
(*   sig    55 AA at 510              mbr   the four primary entries       *)
(*   efi    "EFI PART" at 512         esize ent_size of the header         *)
(*   lba    ent_lba of the header     gpt   the entries of the array       *)
(* An MBR entry is [boot, type, lba]: boot is 00/80, lba both LBA fields   *)
(* are not 0.  A GPT entry is [type, span]: type is not all 0, and the     *)
(* last LBA is not below the first.                                        *)
(***************************************************************************)
EXTENDS Integers, Sequences, SequencesExt

CONSTANT U64   \* the offsets of parse_gpt are uint64_t: they wrap here

SECTOR == 512
GPT_HEAD == 520            \* end of the GPT signature
GPT_MIN == 16384           \* parse_gpt wants header and entries
PROBE_SIZE == 65536

\* The read loop stops at an error or the end of the device; pttype_blkdev
\* reads no more than 4096 bytes.
Capped(dev, cap) == IF dev.got < cap THEN dev ELSE [dev EXCEPT !.got = cap]

Efi(dev) == dev.efi /\ dev.got >= GPT_HEAD

anyfs_probe_kind_buf(dev) ==
  CASE dev.got < SECTOR -> "FS"
    [] dev.got >= SECTOR /\ dev.luks -> "LUKS"
    [] dev.got >= SECTOR /\ ~ dev.luks /\ dev.pv \in 0 .. 3 /\ (dev.pv * SECTOR) + 64 <= dev.got ->
         "LVM_PV"
    [] OTHER ->
         IF \/ Efi(dev)
            \/ /\ dev.sig
               /\ \E i \in 1 .. 4 : dev.mbr[i].boot /\ dev.mbr[i].type # 0
               /\ ~ dev.jump
         THEN "NESTED" ELSE "FS"

anyfs_probe_kind_blkdev(dev) ==
  IF dev.opens /\ dev.got > 0 THEN anyfs_probe_kind_buf(Capped(dev, PROBE_SIZE)) ELSE "FS"

\* The first max indices of the entries that pass keep, in table order.
Chosen(entries, keep(_), max) ==
  LET idx == SelectSeq([i \in DOMAIN entries |-> i], LAMBDA i : keep(entries[i]))
  IN  SubSeq(idx, 1, IF Len(idx) < max THEN Len(idx) ELSE max)

\* Empty, protective (EE) and extended (05, 0F) entries are skipped.
mbr_keep(e) == e.type \notin {0, 238, 5, 15} /\ e.lba

parse_mbr(dev, max) ==
  IF dev.got < SECTOR \/ ~ dev.sig THEN <<>> ELSE Chosen(dev.mbr, mbr_keep, max)

gpt_keep(e) == e.type /\ e.span

\* Where entry i begins.
eoff(dev, i) == (((dev.lba * SECTOR) % U64) + ((i - 1) * dev.esize)) % U64

\* The loop ends at the first entry that does not end inside the bytes read.
parse_gpt(dev, max) ==
  LET out    == {i \in DOMAIN dev.gpt : (eoff(dev, i) + dev.esize) % U64 > dev.got}
      within == IF out = {} THEN dev.gpt ELSE SubSeq(dev.gpt, 1, (CHOOSE i \in out : \A j \in out : i <= j) - 1)
  IN  IF dev.got < GPT_MIN \/ ~ dev.efi \/ dev.esize < 128 THEN <<>> ELSE Chosen(within, gpt_keep, max)

\* Each listed partition is the table it comes from and its index there.
Listed(table, idx) == [i \in DOMAIN idx |-> [table |-> table, index |-> idx[i]]]

anyfs_probe_pt_buf(dev, max) ==
  IF max <= 0 THEN <<>>
  ELSE LET g == parse_gpt(dev, max)
       IN  IF g # <<>> THEN Listed("gpt", g) ELSE Listed("dos", parse_mbr(dev, max))

anyfs_probe_pt_blkdev(dev, max) ==
  IF max <= 0 \/ ~ dev.opens \/ dev.got < SECTOR THEN <<>>
  ELSE anyfs_probe_pt_buf(Capped(dev, PROBE_SIZE), max)

anyfs_probe_pttype_buf(dev) ==
  CASE dev.got < SECTOR -> ""
    [] Efi(dev) -> "gpt"
    [] OTHER -> IF dev.sig /\ \E i \in 1 .. 4 : dev.mbr[i].boot /\ dev.mbr[i].type \notin {0, 238}
                THEN "dos" ELSE ""

anyfs_probe_pttype_blkdev(dev) ==
  IF dev.opens THEN anyfs_probe_pttype_buf(Capped(dev, 4096)) ELSE ""

----------------------------------------------------------------------------

\* The three answers about one device agree, for a table whose boot flags are
\* the legal ones.  A listed partition comes from the table whose type is
\* reported, except that a GPT no entry of which can be used falls back to
\* the MBR beside it.  A device with a GPT signature is a container, never a
\* filesystem to mount.  A FAT or NTFS boot sector is never a container, even
\* though its boot code may look like a table (the comment at
\* anyfs_probe.c:70-74).
TablesAgree(dev, max) ==
  LET list  == anyfs_probe_pt_blkdev(dev, max)
      type  == anyfs_probe_pttype_blkdev(dev)
      kind  == anyfs_probe_kind_blkdev(dev)
  IN  (\A i \in 1 .. 4 : dev.mbr[i].boot) =>
        /\ list # <<>> => type # "" /\ (list[1].table = "gpt" => type = "gpt")
        /\ list # <<>> /\ type = "dos" => kind # "FS" \/ dev.jump
        /\ type = "gpt" => kind # "FS"
        /\ dev.jump /\ ~ dev.efi => kind # "NESTED"
        /\ \A i, j \in DOMAIN list : i < j => list[i].index < list[j].index
=============================================================================
