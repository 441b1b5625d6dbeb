----------------------------- MODULE PartsTable -----------------------------
(***************************************************************************)
(* The table of disks and partitions: the growing buffer                   *)
(* core/anyfs_strbuf.c, the rows of core/anyfs_format.c, the partitions    *)
(* anyfs_session_list gives it, and the two programs that print it, lspart *)
(* and the .partitions file of the FUSE server.                            *)
(*                                                                         *)
(* A row is [disk, part, len], part 0 for a disk without partitions; -1 as *)
(* length is a row that cannot be formatted.  A disk is [slots, fs, len]:  *)
(* slots [parent, index, len] in the order of their ids, fs whether the    *)
(* whole disk holds a filesystem.  realloc gives no more than mem bytes.   *)
(***************************************************************************)
EXTENDS Integers, Sequences, SequencesExt

ROOT_PARENT == -1

\* Rows are short of 256 * 2^Doublings bytes.
Doublings == 10

----------------------------------------------------------------------------
(* core/anyfs_strbuf.c *)

anyfs_strbuf_init == [rows |-> <<>>, len |-> 0, cap |-> 0, err |-> FALSE]

\* Room for need bytes and a NUL: the capacity starts at 256 and doubles.
strbuf_reserve(sb, need, mem) ==
  LET first  == IF sb.cap = 0 THEN 256 ELSE sb.cap
      enough == {k \in 0 .. Doublings : first * 2^k - sb.len > need}
      ncap   == first * 2^(CHOOSE k \in enough : \A j \in enough : k <= j)
  IN  IF sb.err \/ sb.cap - sb.len > need THEN sb
      ELSE IF ncap > mem THEN [sb EXCEPT !.err = TRUE] ELSE [sb EXCEPT !.cap = ncap]

\* vsnprintf cuts what does not fit.
anyfs_strbuf_printf(sb, row, mem) ==
  LET r    == strbuf_reserve(sb, row.len, mem)
      text == IF row.len < r.cap - r.len THEN row ELSE [row EXCEPT !.len = r.cap - r.len - 1]
  IN  IF sb.err THEN sb
      ELSE IF row.len < 0 THEN [sb EXCEPT !.err = TRUE]
      ELSE IF r.err THEN r
      ELSE [r EXCEPT !.rows = Append(@, text), !.len = @ + row.len]

\* NULL once anything failed.
anyfs_strbuf_detach(sb) ==
  IF sb.err THEN [ok |-> FALSE] ELSE [ok |-> TRUE, rows |-> sb.rows, len |-> sb.len]

----------------------------------------------------------------------------
(* Rows *)

\* As many as fit, and how many there are.
anyfs_session_list(slots, parent, buf_n) ==
  LET all == SelectSeq(slots, LAMBDA p : p.parent = parent)
  IN  [buf |-> SubSeq(all, 1, IF Len(all) < buf_n THEN Len(all) ELSE buf_n), got |-> Len(all)]

Header == [disk |-> -1, part |-> 0, len |-> 72]

anyfs_format_header(mem) == anyfs_strbuf_printf(anyfs_strbuf_init, Header, mem)

\* (The list fails only for a NULL session, which has returned before.)
anyfs_format_disk(sb, d, disk_idx, max_parts, mem) ==
  LET parts == anyfs_session_list(d.slots, ROOT_PARENT, max_parts).buf
      row(p) == [disk |-> disk_idx, part |-> p.index, len |-> p.len]
  IN  IF parts # <<>> THEN FoldLeft(LAMBDA s, p : anyfs_strbuf_printf(s, row(p), mem), sb, parts)
      ELSE IF d.fs THEN anyfs_strbuf_printf(sb, [disk |-> disk_idx, part |-> 0, len |-> d.len], mem)
      ELSE sb

\* The table of the disks with these indexes.
table(disks, idxs, max_parts, mem) ==
  FoldLeft(LAMBDA s, i : anyfs_format_disk(s, disks[i + 1], i, max_parts, mem), anyfs_format_header(mem), idxs)

\* Of one disk, or with -1 of all.
build_partitions_table(disks, disk_idx, max_parts, mem) ==
  LET all == [i \in DOMAIN disks |-> i - 1]
  IN  anyfs_strbuf_detach(table(disks, SelectSeq(all, LAMBDA i : disk_idx \in {-1, i}), max_parts, mem))

----------------------------------------------------------------------------
(* lspart *)

\* The words of a command line: "img" and "enc" (the name of an encoding) are
\* taken as images unless the word before wants them.
Words == {"--help", "--json", "--bad", "--nbd", "--legacy-encoding", "img", "enc"}

parse_word(st, a, max_images) ==
  LET exit(code) == [st EXCEPT !.exit = code]
      image(what, next) ==
        IF Len(st.images) >= max_images THEN exit(2)
        ELSE [st EXCEPT !.images = Append(@, what), !.want = next]
  IN  CASE st.exit # -1 -> st
        [] st.exit = -1 /\ st.want = "nbd" -> image("nbd", "")
        [] st.exit = -1 /\ st.want = "enc" -> IF a = "enc" THEN [st EXCEPT !.want = ""] ELSE exit(2)
        [] OTHER ->
             CASE a = "--help" -> exit(0)
               [] a = "--json" -> st
               [] a = "--bad"  -> exit(2)
               [] a = "--nbd"  -> IF st.nbd THEN exit(2) ELSE [st EXCEPT !.want = "nbd", !.nbd = TRUE]
               [] a = "--legacy-encoding" -> [st EXCEPT !.want = "enc"]
               [] OTHER -> image(a, "")

parse_args(argv, max_images) ==
  LET st == FoldLeft(LAMBDA s, a : parse_word(s, a, max_images),
                     [exit |-> -1, want |-> "", nbd |-> FALSE, images |-> <<>>], argv)
  IN  IF st.exit = -1 /\ (st.want # "" \/ st.images = <<>>) THEN [st EXCEPT !.exit = 2] ELSE st

\* opens[i] is the disk image i turns out to be, <<>> when it cannot be opened.
main(argv, boots, opens, max_images, max_parts, mem) ==
  LET st   == parse_args(argv, max_images)
      open == FlattenSeq([i \in DOMAIN st.images |-> opens[i]])
      sb   == table(open, [i \in DOMAIN open |-> i - 1], max_parts, mem)
      none == [rc |-> st.exit, rows |-> <<>>, images |-> 0]
  IN  IF st.exit # -1 THEN none
      ELSE IF ~ boots THEN [none EXCEPT !.rc = 1]
      ELSE [rc |-> IF Len(open) < Len(st.images) \/ sb.err THEN 1 ELSE 0,
            rows |-> IF sb.err THEN <<>> ELSE sb.rows, images |-> Len(st.images)]

----------------------------------------------------------------------------

\* What a table of these disks has to say.
Expected(disks) ==
  LET top(i) == SelectSeq(disks[i].slots, LAMBDA p : p.parent = ROOT_PARENT)
      of(i)  == IF top(i) # <<>> THEN {[disk |-> i - 1, part |-> p.index, len |-> p.len] : p \in ToSet(top(i))}
                ELSE IF disks[i].fs THEN {[disk |-> i - 1, part |-> 0, len |-> disks[i].len]} ELSE {}
  IN  {Header} \cup UNION {of(i) : i \in DOMAIN disks}

\* A reader of .partitions gets every row whole, in order, under a length
\* that is the sum of the rows, or no text at all, and that only when memory
\* is short or a row cannot be formatted.
TableWhole(disks, disk_idx, max_parts, mem) ==
  LET t    == build_partitions_table(disks, disk_idx, max_parts, mem)
      want == {r \in Expected(disks) : disk_idx = -1 \/ r.disk \in {-1, disk_idx}}
      sum  == FoldLeft(LAMBDA n, r : n + r.len, 0, t.rows)
  IN  /\ t.ok => ToSet(t.rows) = want /\ t.len = sum /\ Len(t.rows) = Cardinality(want)
      /\ t.ok => \A i \in 1 .. Len(t.rows) - 1 :
                   \/ t.rows[i].disk < t.rows[i + 1].disk
                   \/ t.rows[i].disk = t.rows[i + 1].disk /\ t.rows[i].part < t.rows[i + 1].part
      /\ ~ t.ok => (\E r \in want : r.len < 0) \/ mem < 4096

\* lspart ends with 0 only after it printed every partition of every image it
\* was given, in full; with 2 for a command line it does not understand.
ListsAll(argv, boots, opens, max_images, max_parts, mem) ==
  LET r == main(argv, boots, opens, max_images, max_parts, mem)
  IN  /\ r.rc = 0 /\ "--help" \notin ToSet(argv) =>
           /\ r.images > 0 /\ (ToSet(argv) = {"img"} => r.images = Len(argv))
           /\ ToSet(r.rows) = Expected(FlattenSeq(SubSeq(opens, 1, r.images)))
           /\ \A i \in 1 .. r.images : opens[i] # <<>>
      /\ r.rc = 2 => r.rows = <<>>
=============================================================================
