---------------------------- MODULE MCAlgorithms ----------------------------
(***************************************************************************)
(* The pure parts of the program, each evaluated on every input of a       *)
(* bounded domain: one step takes an input, the next one lets go of it.    *)
(***************************************************************************)
EXTENDS Names, Probe, NfsCaches, StringOut, MountOpts, DeviceMapper, PathDsl, Sysfs, Backends, PartsTable

CONSTANTS
  NameBytes,    \* bytes names are made of
  MaxName,      \* longest name
  MaxPath,      \* longest path, in segments
  MaxText       \* longest text in a buffer

VARIABLE case

Idle == [k |-> "idle"]

Strings(S, n) == UNION {[1 .. m -> S] : m \in 0 .. n}

----------------------------------------------------------------------------

NameCase == \E s \in Strings(NameBytes, MaxName) : case' = [k |-> "name", s |-> s]

MbrEntries == [boot : BOOLEAN, type : {0, 131, 238, 5}, lba : BOOLEAN]

\* The three entries beside the first are copies of one second entry.
ProbeCase ==
  \E opens \in BOOLEAN, got \in {0, 511, 512, 1024, 4096, 65536}, luks, jump, sig, efi \in BOOLEAN,
     esize \in {64, 128}, lba \in {2, 200, U64 \div SECTOR},
     pv \in {-1, 0, 1}, e, f \in MbrEntries, gpt \in Strings([type : BOOLEAN, span : BOOLEAN], 2) :
       /\ efi \/ (gpt = <<>> /\ esize = 64)
       /\ lba # 2 => gpt # <<>> /\ esize = 128 /\ opens /\ ~ luks /\ ~ jump /\ pv = -1
       /\ luks => pv = -1 /\ ~ jump
       /\ case' = [k |-> "probe",
                   dev |-> [opens |-> opens, got |-> got, luks |-> luks, jump |-> jump, sig |-> sig,
                            efi |-> efi, esize |-> esize, lba |-> lba, pv |-> pv,
                            mbr |-> <<e, f, f, f>>, gpt |-> gpt]]

ShareNames == {<<"a">>, <<"b">>} \cup {<<"a", c, "b">> : c \in Special}

ExportCase ==
  \E n \in 1 .. 3 : \E names \in [1 .. n -> ShareNames], first \in {<<"m", "1">>, <<"m", "2">>} :
    case' = [k |-> "exports", nfs |-> [i \in 1 .. n |-> [name |-> names[i],
                                lkl |-> IF i = 1 THEN first ELSE <<"m", "2">>]]]

TextCase ==
  \E op \in PathOps \cup {"kernelfile"}, raw \in 0 .. MaxText, more \in 0 .. MaxText,
     errno \in {0, 1, MAX_ERRNO}, path \in {1, PATH_IN_CAP}, cap \in 2 .. MaxText :
       case' = [k |-> "text", cap |-> cap,
                calls |-> <<[op |-> op, raw |-> raw, esc |-> raw + more, errno |-> errno, path |-> path,
                             items |-> 1, reads |-> 1]>>]

\* What up to three tries of a call find: the text grows and shrinks between
\* them, and any of them may fail.
JsonCase ==
  \E op \in JsonOps, path \in {1, PATH_IN_CAP}, cap \in 2 .. MaxText, items \in 0 .. LIST_MAX + 1,
     escs \in Strings({0, MaxText, 2 * MaxText, 6 * MaxText}, 3), errno \in {0, 1, MAX_ERRNO} :
       \E reads \in 0 .. items, at \in DOMAIN escs :
         /\ op # "readdir" => reads = items
         /\ errno = 0 => at = 1
         /\ case' = [k |-> "text", cap |-> cap,
                     calls |-> [i \in DOMAIN escs |->
                       [op |-> op, raw |-> escs[i], esc |-> escs[i], errno |-> IF i = at THEN errno ELSE 0,
                        path |-> path, items |-> items, reads |-> reads]]]

Locales ==
  {Unset} \cup [two : {"zh", "ja", "ko", "de"}, rest : {"", "k"},
                subs : {<<>>} \cup {<<r>> : r \in Traditional \cup {"CN"}} \cup {<<"Hans", "HK">>, <<"Hans", "CN">>}]

\* The encoding is one that was named, or comes from the locale, which is set
\* in variable at; the variables before it are empty, those after it are not.
MountCase ==
  \E fs \in errors_opt_fs \cup {"xfs", "btrfs", "ufs", "iso9660"}, ro \in BOOLEAN,
     name \in Range(Encodings) \cup {"auto"}, v \in Locales, at \in 1 .. 3,
     os \in {"linux", "win"}, acp \in {936, 54936, 950, 932, 949, 437} :
       /\ name = "auto" \/ (v = Unset /\ at = 1)
       /\ os = "win" => v = Unset /\ at = 1
       /\ os = "linux" => acp = 437
       /\ case' = [k |-> "mount", fs |-> fs, ro |-> ro, name |-> name, v |-> v,
                   env |-> [os |-> os, acp |-> acp,
                            vars |-> [i \in 1 .. 3 |->
                                        CASE i < at -> Unset
                                          [] i = at -> v
                                          [] OTHER -> IF v = Unset THEN Unset
                                                      ELSE [two |-> "ja", rest |-> "", subs |-> <<>>]]]]

DmCase ==
  \E bad \in SUBSET Steps, held \in BOOLEAN : case' = [k |-> "dm", bad |-> bad, held |-> held]

\* Beside small numbers: the largest int and the next one, the numbers that an
\* unsigned int makes -1, 0 and 1 of, and one beyond every type.
Wide == {INT_MAX, INT_MAX + 1, UINT_RANGE - 1, UINT_RANGE, UINT_RANGE + 1, ULONG_MAX + 2}

Segments ==
  [t : {"p"}, n : 0 .. 2, q : {"none", "plain", "badpct"}]
    \cup [t : {"p", "disk"}, n : Wide, q : {"none"}]
    \cup [t : {"P", "disk", "digit"}, n : 0 .. 2, q : {"none"}]
    \cup [t : {"psign", "pminus", "disksign", "diskminus"}, n : {0, 1, UINT_RANGE}, q : {"none"}]
    \cup {Synth, Word, Seg("", 0, "none"), Seg("p", 1, "long"), Seg("pword", 0, "none"), Seg("diskword", 0, "none")}

PathCase ==
  \E s \in Strings(Segments, MaxPath), nd \in 1 .. 2 : case' = [k |-> "path", s |-> s, nd |-> nd]

Files == {[k |-> "num", v |-> 3], [k |-> "fails", v |-> 0]}

\* /sys/block/<disk>, in any order; a partition's size tells it apart.
DirEntries ==
  {[pre |-> p, tail |-> t, idx |-> i, start |-> f, size |-> [k |-> "num", v |-> i], ro |-> f] :
     p \in {".", "disk"}, t \in {"", "num"}, i \in 0 .. 4, f \in Files}

SysfsCase ==
  \E exists \in BOOLEAN, ents \in Strings({e \in DirEntries : e.tail = "num" \/ e.idx = 0}, 3),
     pt \in Strings([index : 1 .. 2, type : {"ef", "83"}], 2), max \in 1 .. 2 :
       /\ \A i, j \in DOMAIN ents : i # j => ents[i].idx # ents[j].idx
       /\ Len(pt) = 2 => pt[1].index # pt[2].index
       /\ case' = [k |-> "sysfs", dir |-> [exists |-> exists, ents |-> ents], pt |-> pt, max |-> max]

Entry(pre) == [pre |-> pre]

\* boot devices of the network, then disks of any kernel names; a removed
\* disk's directory is gone or empty.
DiskDir(name, gone) ==
  IF name = "" THEN [exists |-> gone, ents |-> <<>>]
  ELSE [exists |-> TRUE,
        ents |-> <<Entry("driver"),
                   Entry("virtio") @@ [block |-> [exists |-> TRUE, ents |-> <<Entry("vd") @@ [name |-> name]>>]]>>]

NetDir == [exists |-> TRUE, ents |-> <<Entry("virtio") @@ [block |-> NoDir]>>]

DisksCase ==
  \E nets \in 0 .. 2, cmdline, gone \in BOOLEAN, names \in Strings({"", "vda", "vdb", "vdc"}, 3) :
    /\ nets > 0 => cmdline
    /\ \A i, j \in DOMAIN names : i # j => names[i] = "" \/ names[i] # names[j]
    /\ case' = [k |-> "disks", all |-> [i \in 1 .. nets |-> ""] \o names,
                sys |-> [cmdline |-> [exists |-> cmdline,
                                      ents |-> <<Entry("uevent")>> \o
                                        [i \in 1 .. nets |-> Entry("virtio-mmio.") @@ [num |-> i - 1, dir |-> NetDir]]],
                         auto |-> [i \in DOMAIN names |-> DiskDir(names[i], gone)]]]

WinNames == [ns : {"", "\\\\.\\", "\\\\?\\", "//./"}, dev : {"PhysicalDrive", "Volume", "drive"}, part : BOOLEAN]

ChooseCase ==
  \E os \in {"linux", "mac", "win"}, has \in SUBSET {"qemu", "gio"}, name \in WinNames,
     node \in {"file", "blk", "chr"}, flags \in SUBSET {"qemu", "gio", "raw"}, env \in {"", "raw", "qemu", "gio"},
     used \in [1 .. 2 -> BOOLEAN] :
       case' = [k |-> "choose", build |-> [os |-> os, has |-> has \cup {"raw"}], name |-> name, node |-> node,
                flags |-> flags, env |-> env, used |-> used]

OpenCase ==
  \E ops \in {"raw", "gio", "qemu"}, os \in {"linux", "mac", "win"}, node \in {"file", "blk", "chr"}, size \in 0 .. 1,
     flags \in SUBSET {"readonly", "snapshot"}, bad \in SUBSET {"start", "call", "open", "stat", "size", "calloc"} :
       case' = [k |-> "open", ops |-> ops, os |-> os, node |-> node, size |-> size, flags |-> flags, bad |-> bad]

\* A disk of four sectors.
RequestCase ==
  \E ops \in {"raw", "gio", "qemu"}, os \in {"linux", "win"}, mode \in {"r", "rw", "overlay"},
     type \in {"READ", "WRITE", "FLUSH", "FLUSH_OUT", "OTHER"}, sector \in 0 .. 3, bufs \in Strings(1 .. 2, 3) :
       \E outs \in [DOMAIN bufs -> {"ok", "fails", "short"}] :
         /\ sector + SumFunction(bufs) <= 4
         /\ (mode = "overlay" => ops = "qemu") /\ (mode = "rw" => ops # "gio")
         /\ case' = [k |-> "request", ops |-> ops, os |-> os, mode |-> mode, outs |-> outs,
                     req |-> [type |-> type, sector |-> sector, bufs |-> bufs]]

RowLens == {-1, 100, 183, 184, 700}

Disks ==
  [slots : {<<>>} \cup {<<[parent |-> ROOT_PARENT, index |-> 1, len |-> n]>> : n \in RowLens}
            \cup {<<[parent |-> ROOT_PARENT, index |-> 1, len |-> n], [parent |-> p, index |-> 2, len |-> m]>> :
                    p \in {ROOT_PARENT, 0}, n, m \in RowLens},
   fs : BOOLEAN, len : {100, 184}]

\* A session never has more slots than MAX_PARTS, here two.
TableCase ==
  \E disks \in Strings({d \in Disks : d.slots = <<>> \/ (~ d.fs /\ d.len = 100)}, 2), idx \in -1 .. 1,
     mem \in {0, 256, 512, 4096} :
       case' = [k |-> "table", disks |-> disks, idx |-> idx, mem |-> mem]

Openings ==
  {<<>>, <<[slots |-> <<>>, fs |-> FALSE, len |-> 100]>>,
   <<[slots |-> <<[parent |-> ROOT_PARENT, index |-> 1, len |-> 184]>>, fs |-> FALSE, len |-> 100]>>}

LspartCase ==
  \E argv \in Strings(Words, 3), boots \in BOOLEAN, opens \in [1 .. 2 -> Openings], mem \in {256, 4096} :
    case' = [k |-> "lspart", argv |-> argv, boots |-> boots, opens |-> opens, mem |-> mem]

Done == case' = Idle

Init == case = Idle

Next ==
  \/ /\ case = Idle
     /\ \/ NameCase \/ ProbeCase \/ ExportCase \/ TextCase \/ JsonCase \/ MountCase \/ DmCase \/ PathCase
        \/ SysfsCase \/ DisksCase \/ ChooseCase \/ OpenCase \/ RequestCase \/ TableCase \/ LspartCase
  \/ case # Idle /\ Done

Spec == Init /\ [][Next]_case

----------------------------------------------------------------------------

\* Escaped file names are valid UTF-8, fit the buffer the header promises and
\* give the same bytes back in C and in JavaScript, also when two of them were
\* joined into a path; and the C programs and the browser show a name that
\* holds no escape of its own by the same rule (anyfs_name.c, names.ts,
\* anyfs_legacy.c).
NamesSurvive ==
  case.k = "name" =>
    LET e == EscapeFrom(case.s)
        sub(a, b) == SubSeq(case.s, a, b)
    IN  /\ valid_utf8(e)
        /\ anyfs_name_escape(case.s, NAME_ESCAPE_MAX(Len(case.s))).n = Len(e)
        /\ UnescapeFrom(e) = case.s
        /\ nameToBytes(JsString(e)) = case.s
        /\ \A i \in 0 .. Len(case.s) :
             UnescapeFrom(EscapeFrom(sub(1, i)) \o <<47>> \o EscapeFrom(sub(i + 1, Len(case.s))))
               = sub(1, i) \o <<47>> \o sub(i + 1, Len(case.s))
        /\ (\A i \in DOMAIN case.s : ~ is_escape_char(case.s, i)) =>
             \A enc \in {"off", "big5"}, decodes \in BOOLEAN :
               displayName(JsString(e), enc, decodes).by = anyfs_legacy_decode(case.s, enc, decodes).by

\* The kind, the table type and the partition list that anyfs_probe.c reads
\* from one device agree.
ProbesAgree == case.k = "probe" => TablesAgree(case.dev, 3)

\* An NFS file handle leads back to the share it was made for (nfsd_main.c).
SharesStay == case.k = "exports" => HandlesStay(case.nfs)

\* A text reaches JavaScript whole or not at all, except for the entries that
\* the C side itself leaves out (jsonw.h, anyfs_ts.c, wasm-api.ts).
TextsReach ==
  case.k = "text" => TextsWhole(case.calls, case.cap, 1) /\ PathsWhole(case.calls[1], case.cap)

\* The table of partitions is printed whole or not at all (anyfs_strbuf.c,
\* anyfs_format.c, lspart_main.c, fuse_main.c).
TablesWhole ==
  /\ case.k = "table" => TableWhole(case.disks, case.idx, 2, case.mem)
  /\ case.k = "lspart" => ListsAll(case.argv, case.boots, case.opens, 2, 2, case.mem)

\* No text is cut without its reader being told: not on its way to JavaScript,
\* and not in the table of partitions.  Entries go missing silently in two
\* places only: beyond the LIST_MAX partitions of a list, and after an error of
\* lkl_readdir.
StringsWhole == TextsReach /\ TablesWhole

\* The options of anyfs_mount_opts.c fit and keep an image intact, with the
\* codepage of every encoding, locale and ANSI codepage; and the C programs and
\* the browser derive the same encoding and codepage from one locale, in
\* whichever of the three variables it is set, when its language has two
\* letters and no script stands before its region.
MountsSafe ==
  case.k = "mount" =>
    LET enc == anyfs_legacy_parse(case.name, case.env)
    IN  /\ OptsSafe(case.fs, case.ro, anyfs_legacy_fat_flag(enc))
        /\ case.name # "auto" => enc = case.name
        /\ case.name = "auto" /\ case.env.os # "win" /\ Comparable(case.v) =>
             enc = defaultLegacyEncoding(case.v)
        /\ fatCodepageFlag(enc) = anyfs_legacy_fat_flag(enc)

\* A device-mapper device is published whole or not at all, and every failure
\* can be retried, at the latest after a removal (anyfs_dm.c).
DmWhole == case.k = "dm" => DmRetryable(case.bad, case.held)

\* The share resolver and the FUSE path parser read one language
\* (anyfs_path.c, anyfs_share.c, fuse_main.c).
PathsAgree == case.k = "path" => ReadersAgree(case.s, case.nd)

\* A share or image that was named is the one that is found, by either reader
\* of the path language and by an NFS handle made earlier.
SharesResolve == SharesStay /\ PathsAgree

\* A session finds its own disk and all its partitions in /sys
\* (anyfs_sysfs.c, anyfs_session.c).
DisksFound ==
  /\ case.k = "sysfs" /\ case.dir.exists => PartsReal(case.dir, case.pt, case.max)
  /\ case.k = "disks" => DiskFound(case.sys, case.all)

\* The backend chosen for an image fits it, opens it cleanly and serves its
\* requests (anyfs_backend.c, raw_backend.c, gio_backend.c, qemu_backend.c).
DisksServed ==
  /\ case.k = "choose" => BackendFits(case.build, case.name, case.node, case.flags, case.env, case.used)
  /\ case.k = "open" => OpensClean(case.ops, case.os, case.node, case.size, case.flags, case.bad)
  /\ case.k = "request" =>
       RequestServed(case.ops, case.os, case.mode, [p \in 0 .. 3 |-> p], case.req, case.outs)

\* Whatever is on a disk, its sectors are read and written as asked, it is
\* found and recognised consistently, mounted with options that leave it
\* intact, and its mappings are set up whole or not at all.
VolumesSafe == DisksServed /\ DisksFound /\ ProbesAgree /\ MountsSafe /\ DmWhole

\* The comment above qword_get_user says that it reads \NNN octal escapes
\* (nfsd_main.c:132-133), so a share name arrives as the kernel meant it.
WordsArrive ==
  case.k = "exports" => \A i \in DOMAIN case.nfs : EscapesDecoded(case.nfs[i].name)

\* The comment in anyfs_legacy_decode says that \xNN stands for bytes that are
\* not part of valid UTF-8 (anyfs_legacy.c:206).
HexOnlyInvalid ==
  case.k = "name" =>
    LET d == anyfs_legacy_decode(case.s, "off", FALSE)
    IN  d.by = "hex" =>
          \A i \in DOMAIN case.s :
             utf8_seq(case.s, i) = 2 => d.text[i] = case.s[i]
=============================================================================
