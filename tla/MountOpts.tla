------------------------------ MODULE MountOpts ------------------------------
(***************************************************************************)
(* The mount options of core/anyfs_mount_opts.c.  An option is its name    *)
(* and the number of characters it takes.                                  *)
(***************************************************************************)
EXTENDS Integers, Sequences, SequencesExt

OPTS_MAX == 64             \* ANYFS_MOUNT_OPTS_MAX

errors_opt_fs == {"ext2", "ext3", "ext4", "vfat", "msdos", "exfat", "f2fs", "ntfs"}

Opt(name, len) == [name |-> name, len |-> len]

\* A read-only mount never replays a journal.
journal_opt(fstype, rdonly) ==
  CASE ~ rdonly -> <<>>
    [] rdonly /\ fstype \in {"xfs", "btrfs"} -> <<Opt("norecovery", 10)>>
    [] rdonly /\ fstype \in {"ext3", "ext4"} -> <<Opt("noload", 6)>>
    [] OTHER -> <<>>

\* The options in the order they are appended.  cp is the codepage of FAT
\* short names, 0 for the default; it has three digits.
options(fstype, rdonly, cp) ==
  journal_opt(fstype, rdonly)
    \o (IF fstype = "ufs" THEN <<Opt("ufstype", 12)>> ELSE <<>>)
    \o (IF fstype = "vfat" THEN <<Opt("utf8", 4)>> ELSE <<>>)
    \o (IF cp # 0 /\ fstype \in {"vfat", "msdos"} THEN <<Opt("codepage", 12)>> ELSE <<>>)
    \o (IF fstype \in errors_opt_fs
        THEN <<IF rdonly THEN Opt("errors=continue", 15) ELSE Opt("errors=remount-ro", 17)>>
        ELSE <<>>)

\* Characters used, the commas between the options included.
TextLen(opts) ==
  LET f[i \in 0 .. Len(opts)] == IF i = 0 THEN 0 ELSE f[i - 1] + opts[i].len + (IF i > 1 THEN 1 ELSE 0)
  IN  f[Len(opts)]

\* append refuses what does not fit with its NUL, and then nothing is set.
anyfs_mount_opts(fstype, rdonly, cp, cap) ==
  LET opts == options(fstype, rdonly, cp)
  IN  IF cap = 0 \/ TextLen(opts) >= cap THEN [rc |-> -1, opts |-> <<>>]
      ELSE [rc |-> 0, opts |-> opts]

\* The buffer of ANYFS_MOUNT_OPTS_MAX bytes holds the options of every
\* filesystem (anyfs_mount_opts.h:9), a read-only mount of a journalling
\* filesystem always skips the journal, and an error never panics the kernel:
\* a filesystem that takes errors= always gets one.
OptsSafe(fstype, rdonly, cp) ==
  LET r == anyfs_mount_opts(fstype, rdonly, cp, OPTS_MAX)
      names == {r.opts[i].name : i \in DOMAIN r.opts}
  IN  /\ r.rc = 0
      /\ rdonly /\ fstype \in {"ext3", "ext4", "xfs", "btrfs"} =>
           names \cap {"noload", "norecovery"} # {}
      /\ fstype \in errors_opt_fs =>
           (IF rdonly THEN "errors=continue" ELSE "errors=remount-ro") \in names
=============================================================================
