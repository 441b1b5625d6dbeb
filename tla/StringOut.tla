------------------------------ MODULE StringOut ------------------------------
(***************************************************************************)
(* Text handed from C to JavaScript in a buffer of the caller: the JSON    *)
(* writer core/jsonw.h, the string results of ts/native/anyfs_ts.c and the *)
(* retry loop of core/wasm-api.ts.  Only lengths matter, and whether the   *)
(* bytes are all there: a result is [n, whole], whole that nothing of the  *)
(* text and no entry of the list is missing.                               *)
(*                                                                         *)
(* A call is [op, path, raw, esc, errno, items, reads]: path is the length *)
(* of the path it is given, raw the length the text has in the kernel, esc *)
(* its length once escaped (raw <= esc <= 3 raw), errno > 0 an error of    *)
(* the system call; a failed allocation returns -1 and looks like one.     *)
(* items is how many partitions or directory entries there are, reads how  *)
(* many entries lkl_readdir gives before the end or an error.              *)
(***************************************************************************)
EXTENDS Integers, Sequences, Functions

CONSTANTS
  PATH_IN_CAP,   \* longest path taken from JavaScript
  MAX_ERRNO,     \* every errno is at most this (external: LKL)
  LIST_MAX       \* the entries anyfs_ts_session_list_json has room for

JsonOps == {"list", "meta", "readdir", "lstat", "stat"}
PathOps == {"readlink", "realpath"}

----------------------------------------------------------------------------
(* core/jsonw.h *)

\* jw_putc drops what lies past cap - 1 but counts it; jw_finish reports
\* the count, or minus the room needed.
jw_putc(w) ==
  [w EXCEPT !.len = @ + 1, !.overflow = @ \/ ~ (w.len + 1 < w.cap)]

\* A slip: the count stops with the buffer.
jw_putc_Stop(w) ==
  IF w.len + 1 < w.cap THEN [w EXCEPT !.len = @ + 1] ELSE [w EXCEPT !.overflow = TRUE]

jw_init(cap) == [cap |-> cap, len |-> 0, overflow |-> FALSE]

jw_puts_Stop(w, n) ==
  LET f[i \in 0 .. n] == IF i = 0 THEN w ELSE jw_putc_Stop(f[i - 1]) IN f[n]

jw_puts(w, n) ==
  LET f[i \in 0 .. n] == IF i = 0 THEN w ELSE jw_putc(f[i - 1]) IN f[n]

jw_finish(w) ==
  IF w.overflow \/ w.len + 1 > w.cap THEN [n |-> - (w.len + 1), whole |-> FALSE]
  ELSE [n |-> w.len, whole |-> TRUE]

----------------------------------------------------------------------------
(* ts/native/anyfs_ts.c *)

\* escape_out: the escaped text replaces the raw text when it fits.
escape_out(esc, cap, all) ==
  IF esc < cap THEN [n |-> esc, whole |-> all] ELSE [n |-> - (esc + 1), whole |-> FALSE]

Failed(errno) == [n |-> - errno, whole |-> FALSE]

\* All of the text goes through the JSON writer; listed says whether it has
\* every entry.
json_out(c, cap, listed) ==
  LET r == jw_finish(jw_puts(jw_init(cap), c.esc)) IN [r EXCEPT !.whole = @ /\ listed]

\* The two calls on a session take a handle, not a path; -1 and -2 are a bad
\* handle and a session that cannot answer.  The list has the first LIST_MAX
\* partitions and says nothing of the others.
anyfs_ts_session_list_json(c, cap) ==
  IF c.errno > 0 THEN Failed(c.errno) ELSE json_out(c, cap, c.items <= LIST_MAX)

anyfs_ts_session_meta_json(c, cap) == IF c.errno > 0 THEN Failed(c.errno) ELSE json_out(c, cap, TRUE)

\* lkl_opendir fails, or every entry but . and .. is written until lkl_readdir
\* gives none: an error of it looks like the end of the directory.
anyfs_ts_readdir_json(c, cap) ==
  IF c.errno > 0 THEN Failed(c.errno) ELSE json_out(c, cap, c.reads = c.items)

\* anyfs_ts_lstat_json and anyfs_ts_stat_json differ in the system call.
emit_stat_json(c, cap) == json_out(c, cap, TRUE)

anyfs_ts_stat_json(c, cap) == IF c.errno > 0 THEN Failed(c.errno) ELSE emit_stat_json(c, cap)

\* readlink fills the buffer and stops silently.  Escaping never shrinks, so
\* the cap bytes of a cut target do not fit a second time.
anyfs_ts_readlink(c, cap) ==
  IF c.raw < cap THEN escape_out(c.esc, cap, TRUE) ELSE escape_out(cap, cap, FALSE)

\* getcwd fails with ERANGE (34) when the path and its NUL do not fit.
anyfs_ts_realpath(c, cap) ==
  IF c.raw + 1 > cap THEN Failed(34) ELSE escape_out(c.esc, cap, TRUE)

\* One read: what lies past the buffer is not noticed.
anyfs_ts_read_kernel_file(c, cap) ==
  LET n == IF c.raw < cap THEN c.raw ELSE cap - 1 IN [n |-> n, whole |-> n = c.raw]

\* A path that does not fit is refused before the system call (path_in).
path_op(c, cap) ==
  CASE c.path >= PATH_IN_CAP -> Failed(36)
    [] c.path < PATH_IN_CAP /\ c.op = "readdir" -> anyfs_ts_readdir_json(c, cap)
    [] c.path < PATH_IN_CAP /\ c.op \in {"lstat", "stat"} -> anyfs_ts_stat_json(c, cap)
    [] OTHER ->
         CASE c.errno > 0 -> Failed(c.errno)
           [] c.errno = 0 /\ c.op = "readlink" -> anyfs_ts_readlink(c, cap)
           [] c.errno = 0 /\ c.op = "realpath" -> anyfs_ts_realpath(c, cap)
           [] OTHER -> anyfs_ts_read_kernel_file(c, cap)

string_op(c, cap) ==
  CASE c.op = "list" -> anyfs_ts_session_list_json(c, cap)
    [] c.op = "meta" -> anyfs_ts_session_meta_json(c, cap)
    [] OTHER -> path_op(c, cap)

----------------------------------------------------------------------------
(* core/wasm-api.ts *)

Tries == 6

\* Try i finds what calls[i] says, and from the last of them on nothing
\* changes any more.
Found(calls, i) == calls[IF i < Len(calls) THEN i ELSE Len(calls)]

\* callStringOut: grow to what was asked for, and at least double.  A need
\* within the capacity is an errno.
callStringOut(calls, initialCap, slack) ==
  LET next(n, cap) == IF (- n) + slack > cap * 2 THEN (- n) + slack ELSE cap * 2
      most == initialCap + slack + 1 + SumFunction([i \in DOMAIN calls |-> calls[i].esc])
      f[i \in 1 .. Tries + 1, cap \in 0 .. 64 * most] ==
        IF i > Tries THEN [ok |-> FALSE, why |-> "more buffer"]
        ELSE LET r == string_op(Found(calls, i), cap)
             IN  IF r.n >= 0 THEN [ok |-> TRUE, try |-> i, n |-> r.n, whole |-> r.whole]
                 ELSE IF - r.n <= cap THEN [ok |-> FALSE, try |-> i, why |-> "errno"]
                 ELSE f[i + 1, next(r.n, cap)]
  IN  f[1, initialCap]

\* readlink, realpath and pathOut of worker.ts and node-wasm-session.ts call
\* once with a fixed capacity.
pathOut(c, cap) ==
  LET r == string_op(c, cap)
  IN  IF r.n < 0 THEN [ok |-> FALSE, why |-> "errno"] ELSE [ok |-> TRUE, n |-> r.n, whole |-> r.whole]

----------------------------------------------------------------------------

\* The two ways in which entries are lost without a word.
Curtailed(c) == (c.op = "list" /\ c.items > LIST_MAX) \/ (c.op = "readdir" /\ c.reads < c.items)

\* JavaScript never takes a part of a text for all of it, and never mistakes
\* "too small" for an error of the kernel or the other way round, also when
\* the text grows or shrinks from try to try: the retry loop ends with all of
\* the text the last try found, or with an error exactly when the system call
\* of that try failed.  Entries are missing from the text only when a disk has
\* more than LIST_MAX partitions or lkl_readdir failed.  (Reading a kernel file
\* is the exception: see its note.)
TextsWhole(calls, initialCap, slack) ==
  calls[1].op \in JsonOps /\ initialCap >= MAX_ERRNO =>
    LET r == callStringOut(calls, initialCap, slack)
        c == Found(calls, r.try)
    IN  /\ "try" \in DOMAIN r
        /\ r.ok => r.n = c.esc /\ (r.whole <=> ~ Curtailed(c))
        /\ r.ok <=> c.errno = 0 /\ (c.op \in {"list", "meta"} \/ c.path < PATH_IN_CAP)

\* A link target or a directory path is given whole or refused, never cut.
PathsWhole(c, cap) ==
  c.op \in PathOps => (pathOut(c, cap).ok => pathOut(c, cap).whole /\ pathOut(c, cap).n = c.esc)
=============================================================================
