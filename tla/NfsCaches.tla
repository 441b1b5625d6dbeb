------------------------------ MODULE NfsCaches ------------------------------
(***************************************************************************)
(* The answers of nfsd_main.c to the kernel's upcalls: what each handler   *)
(* writes back for a query line.  A line is a sequence of words, a word a  *)
(* sequence of characters: plain ones, the four that the kernel escapes    *)
(* (space, backslash, tab, newline) and their escapes, one unit each.      *)
(* The kernel's side of the protocol, qword_add and qword_get, is          *)
(* external.                                                               *)
(*                                                                         *)
(* An export is [name, lkl]: the share is bound at /<name>, and lkl is the *)
(* mount point the session gave it.                                        *)
(***************************************************************************)
EXTENDS Integers, Sequences, SequencesExt

Special == {" ", "\\", "tab", "nl"}

Octal == [c \in Special |-> CASE c = " " -> "\\040" [] c = "\\" -> "\\134" [] c = "tab" -> "\\011" [] c = "nl" -> "\\012"]

\* The kernel's qword_add: a special character is written as its octal escape.
qword_add(word) == [i \in DOMAIN word |-> IF word[i] \in Special THEN Octal[word[i]] ELSE word[i]]

\* A word ends at a space or at the end of the line.
UpToSpace(word) ==
  LET sp == {i \in DOMAIN word : word[i] \in {" ", "nl"}}
  IN  IF sp = {} THEN word ELSE SubSeq(word, 1, (CHOOSE i \in sp : \A j \in sp : i <= j) - 1)

\* The kernel's qword_get decodes the escapes.
qword_get(word) ==
  LET w == UpToSpace(word)
      plain(c) == IF \E s \in Special : Octal[s] = c THEN CHOOSE s \in Special : Octal[s] = c ELSE c
  IN  [i \in DOMAIN w |-> plain(w[i])]

\* qword_get_user: a plain word is copied up to the next space or newline, as
\* it is.  Only the \x form (the fsid of nfsd.fh) is decoded.
qword_get_user(word) == UpToSpace(word)

bind_path(e) == <<"/">> \o e.name

Negative == [neg |-> TRUE]

----------------------------------------------------------------------------

\* auth.unix.ip: every client is in the domain "unix".
handle_ip_map(ip) == [ip |-> qword_get_user(ip), domain |-> "unix"]

\* auth.unix.gid: no supplementary groups.
handle_unix_gid(uid) == [uid |-> qword_get_user(uid), groups |-> <<>>]

\* nfs4.idtoname and nfs4.nametoid.
handle_idtoname(id) == IF id = 0 THEN "root" ELSE "nobody"

handle_nametoid(name) == IF name = "root" THEN 0 ELSE 65534

\* A slip: the slot is not one above the index.
expkey_path_Zero(exports, idx) ==
  IF idx < Len(exports) THEN bind_path(exports[idx + 1]) ELSE <<>>

\* The path of an fsid, <<>> for none.  fsid 0 is the pseudo-root, pinned to
\* the mount point of the first share.
expkey_path(exports, idx) ==
  CASE idx = 0 -> IF exports # <<>> THEN exports[1].lkl ELSE <<"/">>
    [] idx \in 1 .. Len(exports) -> bind_path(exports[idx])
    [] OTHER -> <<>>

\* nfsd.fh: only FSID_NUM with four bytes is answered with a path.  The path
\* is written without escapes.
handle_expkey(exports, fsidtype, len, idx) ==
  LET path == expkey_path(exports, idx)
  IN  IF fsidtype = 1 /\ len = 4 /\ path # <<>>
      THEN [neg |-> FALSE, path |-> qword_get(path)] ELSE Negative

\* nfsd.export: the first share's mount point is fsid 0, then the first share
\* bound at the path.
handle_export(exports, query) ==
  LET path == qword_get_user(query)
      hits == {i \in DOMAIN exports : bind_path(exports[i]) = path}
  IN  IF exports # <<>> /\ path = exports[1].lkl THEN [neg |-> FALSE, fsid |-> 0]
      ELSE IF hits # {} THEN [neg |-> FALSE, fsid |-> CHOOSE i \in hits : \A j \in hits : i <= j]
      ELSE Negative

----------------------------------------------------------------------------

\* A lookup of an NFS file handle: the kernel turns the fsid into a path with
\* nfsd.fh and asks nfsd.export about that path.
ExportOf(exports, idx) ==
  LET key == handle_expkey(exports, 1, 4, idx)
  IN  IF key.neg THEN Negative ELSE handle_export(exports, qword_add(key.path))

Distinct(exports) ==
  \A i, j \in DOMAIN exports :
     /\ \A k \in DOMAIN exports[i].name : exports[i].name[k] \notin Special
     /\ i # j => exports[i].name # exports[j].name
     /\ bind_path(exports[i]) # exports[j].lkl

\* A file handle stays on its share.  For shares with different names that
\* hold none of the four escaped characters, the fsid that nfsd.export gives to
\* a path leads back to that path, and every fsid the two handlers know leads
\* to an export with that fsid; the others are refused by both.
HandlesStay(exports) ==
  Distinct(exports) /\ exports # <<>> =>
    \A idx \in 0 .. Len(exports) + 1 :
       IF idx <= Len(exports) THEN ExportOf(exports, idx) = [neg |-> FALSE, fsid |-> idx]
       ELSE ExportOf(exports, idx) = Negative

\* What the comment at nfsd_main.c:132 says of qword_get_user: it reads a word
\* the way the kernel wrote it, octal escapes included.
EscapesDecoded(word) == qword_get_user(qword_add(word)) = word
=============================================================================
