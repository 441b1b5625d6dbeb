------------------------------- MODULE PathDsl -------------------------------
(***************************************************************************)
(* The partition path language ("disk0/p2/p1?key=...") of core/anyfs_path.c *)
(* and the two readers built on it: the --share resolver of                 *)
(* core/anyfs_share.c and the FUSE path parser of fuse/fuse_main.c.         *)
(*                                                                          *)
(* A string is the sequence of its '/'-separated segments.  A segment is a  *)
(* record: t is the shape of its text, n the number in it, q its query.     *)
(*   "p"        p<digits>         "P"         P<digits>                     *)
(*   "psign"    p+<digits>        "pminus"    p-<digits>                    *)
(*   "pword"    other text starting with p                                  *)
(*   "disk"     disk<digits>      "disksign"  disk+<digits>                 *)
(*   "diskminus" disk-<digits>    "diskword"  other text starting with disk *)
(*   "digit"    <digits>          "synth"     .partitions, partitions.txt   *)
(*   "word"     anything else     ""          an empty segment              *)
(* q is "none", "plain", "badpct" (a query with a broken %XX escape) or      *)
(* "long" (one that fills the 512 byte buffer of the FUSE parser).           *)
(* n is the number the digits spell, of any size: the C types it passes     *)
(* through have their widths below.                                         *)
(***************************************************************************)
EXTENDS Integers, Sequences

CONSTANTS
  MAX_COMPONENTS,   \* ANYFS_PATH_MAX_COMPONENTS
  INT_MAX,          \* the largest int
  LONG_MAX          \* the largest long: INT_MAX itself on Windows and in wasm32

ASSUME PathAssumption ==
  /\ MAX_COMPONENTS \in Nat
  /\ INT_MAX \in Nat
  /\ LONG_MAX \in Nat
  /\ INT_MAX <= LONG_MAX

SegmentType ==
  [t : {"p", "P", "psign", "pminus", "pword", "disk", "disksign", "diskminus", "diskword",
        "digit", "synth", "word", ""},
   n : Nat, q : {"none", "plain", "badpct", "long"}]

Seg(t, n, q) == [t |-> t, n |-> n, q |-> q]
PSeg(n) == Seg("p", n, "none")
DiskSeg(n) == Seg("disk", n, "none")
Synth == Seg("synth", 0, "none")
Word == Seg("word", 0, "none")

Bad == [ok |-> FALSE]

----------------------------------------------------------------------------
(* Numbers of the C library and of the language (external) *)

\* strtol and strtoul stop at the largest value of their type; a minus sign
\* negates what strtoul found, in that type.
strtol(n) == IF n > LONG_MAX THEN LONG_MAX ELSE n

ULONG_MAX == (2 * LONG_MAX) + 1

strtoul(n, minus) ==
  CASE n > ULONG_MAX -> ULONG_MAX
    [] n <= ULONG_MAX /\ (~ minus \/ n = 0) -> n
    [] OTHER -> ULONG_MAX + 1 - n

\* The casts (unsigned int) and (int).
UINT_RANGE == (2 * INT_MAX) + 2

ToUint(v) == v % UINT_RANGE

ToInt(v) == IF ToUint(v) > INT_MAX THEN ToUint(v) - UINT_RANGE ELSE ToUint(v)

----------------------------------------------------------------------------
(* core/anyfs_path.c *)

\* parse_disk_prefix: 1 for disk<digits>, -1 for other text starting with
\* "disk", 0 for anything else.
parse_disk_prefix(seg) ==
  CASE seg.t = "disk" /\ seg.q = "none" -> 1
    [] seg.t \in {"disksign", "diskminus", "diskword"} \/ (seg.t = "disk" /\ seg.q # "none") -> -1
    [] OTHER -> 0

\* The index it gives: a long, cast to int.
disk_idx(seg) == ToInt(strtol(seg.n))

\* The number of a component: strtoul takes a sign.
comp_num(seg) == strtoul(seg.n, seg.t = "pminus")

\* parse_component succeeds: zero is refused, and so is a query that does not
\* decode.
parse_component(seg) ==
  seg.t \in {"p", "P", "psign", "pminus"} /\ comp_num(seg) # 0 /\ seg.q # "badpct"

\* Leading and trailing slashes are dropped before the split.
Strip(s) ==
  LET full == {i \in DOMAIN s : s[i].t # ""}
  IN  IF full = {} THEN <<>>
      ELSE SubSeq(s, CHOOSE i \in full : \A j \in full : i <= j,
                     CHOOSE i \in full : \A j \in full : i >= j)

\* The number is cast after it was compared with zero.
Comp(seg) == [p |-> ToUint(comp_num(seg)), q |-> seg.q]

anyfs_path_parse(s) ==
  LET segs  == Strip(s)
      dr    == parse_disk_prefix(Head(segs))
      comps == IF dr = 1 THEN Tail(segs) ELSE segs
  IN  IF \/ segs = <<>>
         \/ Len(segs) > MAX_COMPONENTS + 1
         \/ dr = -1
         \/ Len(comps) \notin 1 .. MAX_COMPONENTS
         \/ \E i \in DOMAIN comps : ~ parse_component(comps[i])
      THEN Bad
      ELSE [ok   |-> TRUE,
            set  |-> dr = 1,
            disk |-> IF dr = 1 THEN disk_idx(segs[1]) ELSE 0,
            comp |-> [i \in DOMAIN comps |-> Comp(comps[i])]]

----------------------------------------------------------------------------
(* core/anyfs_share.c *)

\* Steps 2 and 3 of anyfs_share_resolve: a bare integer becomes p<N>, a path
\* without disk<N> gets "disk0/" when there is one disk.
Rebased(s) ==
  IF s # <<>> /\ s[1].t = "digit" THEN <<[s[1] EXCEPT !.t = "p"]>> \o Tail(s) ELSE s

DiskText(seg) == seg.t \in {"disk", "disksign", "diskminus", "diskword"}

Prefixed(s, nd) ==
  IF nd = 1 /\ (s = <<>> \/ ~ DiskText(s[1]))
  THEN <<DiskSeg(0)>> \o s ELSE s

\* sscanf "disk%u%c" takes one item: %u takes a sign and is read as strtoul
\* does, cast to unsigned int.
scan_whole(path) ==
  path # <<>> /\ Len(path) = 1 /\ path[1].t \in {"disk", "disksign", "diskminus"} /\ path[1].q = "none"

whole_idx(seg) == ToUint(strtoul(seg.n, seg.t = "diskminus"))

\* anyfs_share_resolve up to the entering: which disk and which partition
\* chain the spec names.  The spec is what strncpy has left of it, 255 bytes.
\* An empty chain is the filesystem of the whole disk.  The index is compared
\* with the number of disks only, not with zero.
anyfs_share_resolve(s, nd) ==
  LET path  == Prefixed(Rebased(s), nd)
      ap    == IF scan_whole(path)
               THEN [ok |-> TRUE, set |-> TRUE, disk |-> ToInt(whole_idx(path[1])), comp |-> <<>>]
               ELSE anyfs_path_parse(path)
  IN  IF \/ s # <<>> /\ s[1].t = "digit" /\ nd > 1
         \/ ~ ap.ok
         \/ nd > 1 /\ ~ ap.set
         \/ ap.disk >= nd
      THEN Bad
      ELSE [ok |-> TRUE, disk |-> ap.disk, comp |-> ap.comp]

\* Steps 10 and 11: the name of a share without one, "disk<N>_p<M>_p<K>";
\* the queries are not part of it.
anyfs_share_auto_name(r) == <<r.disk>> \o [i \in DOMAIN r.comp |-> r.comp[i].p]

\* The share spec of "-p N" (ksmbd_main.c, nfsd_main.c): p<N>, one image only.
legacy_spec(n) == <<PSeg(n)>>

----------------------------------------------------------------------------
(* fuse/fuse_main.c *)

NoEnt == [kind |-> "NOENT", disk |-> -1, chain |-> <<>>, inner |-> <<>>]

FusePath(kind, disk, chain, inner) ==
  [kind |-> kind, disk |-> disk, chain |-> chain, inner |-> inner]

\* The greedy p-chain: the longest prefix of p<digits>[?query] segments.
ChainLen(s) ==
  CHOOSE n \in 0 .. Len(s) :
    /\ \A i \in 1 .. n : s[i].t = "p"
    /\ n < Len(s) => s[n + 1].t # "p"

\* The chain does not fit dsl_buf.
TooLong(s, n) == \E i \in 1 .. n : s[i].q = "long"

\* parse_fuse_path below the optional disk<N> segment.
ChainPath(s, disk) ==
  LET n == ChainLen(s)
      ap == anyfs_path_parse(SubSeq(s, 1, n))
      d == IF disk < 0 THEN 0 ELSE disk
  IN  IF \/ s = <<>> \/ s[1].t \notin {"p", "psign", "pminus", "pword"}
         \/ n = 0 \/ TooLong(s, n)
         \/ ~ ap.ok
      THEN NoEnt
      ELSE IF n = Len(s) THEN FusePath("PART_NODE", d, ap.comp, <<>>)
      ELSE FusePath("IN_PARTITION", d, ap.comp, SubSeq(s, n + 1, Len(s)))

\* The long is compared before it is cast.
OtherDisk(n, nd) == strtol(n) >= nd

parse_fuse_path(s, nd) ==
  CASE s = <<>>      -> FusePath("SYNTH_ROOT", -1, <<>>, <<>>)
    [] s = <<Synth>> -> FusePath("SYNTH_FILE", -1, <<>>, <<>>)
    [] s # <<>> /\ s # <<Synth>> /\ parse_disk_prefix(s[1]) = 1 ->
         IF OtherDisk(s[1].n, nd) THEN NoEnt
         ELSE IF Len(s) = 1 THEN FusePath("SYNTH_ROOT", disk_idx(s[1]), <<>>, <<>>)
         ELSE IF Tail(s) = <<Synth>> THEN FusePath("SYNTH_FILE", disk_idx(s[1]), <<>>, <<>>)
         ELSE ChainPath(Tail(s), disk_idx(s[1]))
    [] OTHER -> IF nd > 1 THEN NoEnt ELSE ChainPath(s, -1)

----------------------------------------------------------------------------

\* The numbers of a path that keep their value in every cast.
Fits(s) ==
  \A i \in DOMAIN s : s[i].n <= INT_MAX /\ s[i].t \notin {"pminus", "diskminus"}

\* The two readers of the language agree.  A partition directory of the FUSE
\* mount is, as a --share spec, the same disk and the same chain, however
\* large its numbers; the FUSE reader names opened disks only; a spec that
\* resolves without disk<N> names what it names with disk0 in front; and what
\* resolves is a disk below the number of disks and, when the numbers fit an
\* int and have no minus sign, one that was opened and partitions from 1.
\* (A larger number wraps: the index may then be negative, which nothing
\* refuses, and the partition 0.)
ReadersAgree(s, nd) ==
  LET f == parse_fuse_path(s, nd)
      r == anyfs_share_resolve(s, nd)
  IN  /\ f.kind = "PART_NODE" =>
           r.ok /\ r.disk = f.disk /\ r.comp = f.chain /\ f.disk \in 0 .. nd - 1
      /\ r.ok => r.disk < nd
      /\ r.ok /\ Fits(s) => r.disk \in 0 .. nd - 1 /\ \A i \in DOMAIN r.comp : r.comp[i].p > 0
      /\ r.ok /\ nd = 1 /\ s # <<>> /\ ~ DiskText(s[1]) /\ s[1].t # "digit" =>
           anyfs_share_resolve(<<DiskSeg(0)>> \o s, nd) = r
=============================================================================
