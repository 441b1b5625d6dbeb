------------------------------ MODULE Backends ------------------------------
(***************************************************************************)
(* The block backends under a disk: how anyfs_disk_add picks one           *)
(* (core/anyfs_backend.c), how each opens an image and answers a request   *)
(* of the kernel (raw_backend.c, gio_backend.c, qemu_backend.c).           *)
(*                                                                         *)
(* An image is a function from its sectors to what they hold.  A request   *)
(* is [type, sector, bufs]: the lengths of its buffers in sectors; writing *)
(* puts Fresh(p) into sector p.  outs[i] is what the host's call for       *)
(* buffer i does: "ok", "fails" or "short" (it stops after one sector).    *)
(* The kernel asks for whole sectors inside the capacity only (external).  *)
(***************************************************************************)
EXTENDS Integers, Sequences, Functions

Fresh(p) == 100 + p

----------------------------------------------------------------------------
(* Choice of the backend *)

\* A Windows name is [ns, dev, part]: ns the prefix ("\\.\", "\\?\", "//./"
\* or none), dev what follows, part whether \PartitionK or a trailing
\* backslash ends it.
win_device_path(name) ==
  IF name.ns # "" /\ name.dev = "PhysicalDrive" /\ name.part
    THEN [ns |-> "\\\\.\\", dev |-> "HarddiskPartition", part |-> FALSE]
  ELSE IF name.ns # "" /\ name.dev = "Volume" THEN [ns |-> "\\\\.\\", dev |-> "Volume", part |-> FALSE]
  ELSE name

\* The build is [os, has], has the backends in it: "raw" always.  used says of
\* every slot of g_disks whether it is in use; slot 0 stands for a refusal.
anyfs_disk_add(build, name, node, flags, env, used) ==
  LET free   == {i \in DOMAIN used : ~ used[i]}
      path   == IF build.os = "win" THEN win_device_path(name) ELSE name
      asked  == SelectSeq(<<"qemu", "gio", "raw">>, LAMBDA b : b \in flags \cap build.has)
      forRaw == \/ build.os = "mac" /\ node \in {"blk", "chr"}
                \/ build.os = "win" /\ path.ns \in {"\\\\.\\", "//./"} /\ path.dev # "PhysicalDrive"
      auto   == IF "qemu" \in build.has /\ ~ forRaw THEN "qemu" ELSE "raw"
  IN  [slot |-> IF free = {} THEN 0 ELSE CHOOSE i \in free : \A j \in free : i <= j,
       path |-> path,
       ops  |-> IF asked # <<>> THEN asked[1] ELSE IF env \in build.has \ {"gio"} THEN env ELSE auto]

----------------------------------------------------------------------------
(* Opening: bad is the set of host calls that fail *)

Refused == [rc |-> -1, held |-> {}, capacity |-> 0, mode |-> "r"]

\* The program is gone, and what it held with it.
Crashed == [Refused EXCEPT !.rc = -2]

OpenMode(flags) == IF "readonly" \in flags THEN "r" ELSE "rw"

IS_DISK_NODE(os, node) == node = "blk" \/ (os = "mac" /\ node = "chr")

\* A disk is sized by ioctl, anything else by fstat.
raw_blk_open(os, node, size, flags, bad) ==
  IF {"open", "stat", "calloc"} \cap bad # {} \/ (IS_DISK_NODE(os, node) /\ "size" \in bad) THEN Refused
  ELSE [rc |-> 0, held |-> {"file"}, mode |-> OpenMode(flags),
        capacity |-> IF IS_DISK_NODE(os, node) \/ node = "file" THEN size ELSE 0]

\* Windows: the length of a file, or when that fails the one of a disk.
raw_blk_open_win(node, size, flags, bad) ==
  LET sized == (node = "file" /\ "stat" \notin bad) \/ "size" \notin bad
  IN  IF "open" \in bad \/ ~ sized \/ "calloc" \in bad THEN Refused
      ELSE [rc |-> 0, held |-> {"file"}, mode |-> OpenMode(flags), capacity |-> size]

\* A node whose length g_file_query_info gives as 0 is asked by ioctl; its
\* failure is not looked at.
gio_blk_open(node, size, bad) ==
  IF "stat" \in bad \/ "open" \in bad THEN Refused
  ELSE [rc |-> 0, held |-> {"file", "stream"}, mode |-> "r",
        capacity |-> IF node = "file" \/ "size" \notin bad THEN size ELSE 0]

\* open_image: with SNAPSHOT the image is read through an overlay that takes
\* the writes.  (The raw backend does not know this flag.)
open_image(flags) == IF "snapshot" \in flags THEN "overlay" ELSE OpenMode(flags)

\* On the QEMU thread: open_fn gives a backend without a length back.  The
\* calloc after it is not checked.
qemu_blk_open(size, flags, bad) ==
  IF {"start", "call", "open", "size"} \cap bad # {} THEN Refused
  ELSE IF "calloc" \in bad THEN Crashed
  ELSE [rc |-> 0, held |-> {"blk"}, capacity |-> size, mode |-> open_image(flags)]

blk_open(ops, os, node, size, flags, bad) ==
  CASE ops = "raw" /\ os # "win" -> raw_blk_open(os, node, size, flags, bad)
    [] ops = "raw" /\ os = "win" -> raw_blk_open_win(node, size, flags, bad)
    [] ops = "gio" -> gio_blk_open(node, size, bad)
    [] ops = "qemu" -> qemu_blk_open(size, flags, bad)

----------------------------------------------------------------------------
(* Requests *)

Begin(img, req) == [status |-> "run", off |-> req.sector, img |-> img, data |-> <<>>, synced |-> FALSE]

Ends(st, status) == [st EXCEPT !.status = status]

Slice(img, off, n) == [i \in 1 .. n |-> img[off + i - 1]]

\* A short read leaves the rest of the buffer as it was.
Got(st, n, out) ==
  LET k == IF out = "short" THEN 1 ELSE n
  IN  [st EXCEPT !.data = @ \o Slice(st.img, st.off, k) \o [i \in 1 .. n - k |-> "stale"], !.off = @ + n]

Put(st, n, out) ==
  LET k == IF out = "short" THEN 1 ELSE n
  IN  [st EXCEPT !.img = [p \in DOMAIN @ |-> IF p \in st.off .. st.off + k - 1 THEN Fresh(p) ELSE @[p]],
                 !.off = @ + n]

\* The first failing call ends the request; the buffers before it are done.
Each(step(_, _, _), img, req, outs) ==
  LET f[i \in 0 .. Len(req.bufs)] ==
        IF i = 0 THEN Begin(img, req)
        ELSE IF f[i - 1].status # "run" THEN f[i - 1] ELSE step(f[i - 1], req.bufs[i], outs[i])
      st == f[Len(req.bufs)]
  IN  IF st.status = "run" THEN Ends(st, "OK") ELSE st

\* A flush ends the request at its first buffer.
raw_step(type, st, n, out) ==
  CASE type \in {"READ", "WRITE"} /\ out = "fails" -> Ends(st, "IOERR")
    [] type = "READ" /\ out # "fails"  -> Got(st, n, out)
    [] type = "WRITE" /\ out # "fails" -> Put(st, n, out)
    [] type \in {"FLUSH", "FLUSH_OUT"} ->
         IF out = "fails" THEN Ends(st, "IOERR") ELSE [Ends(st, "OK") EXCEPT !.synced = TRUE]
    [] OTHER -> Ends(st, "UNSUP")

\* The loop switches on the type for every buffer: a flush without buffers
\* reaches no fsync.
raw_request(img, req, outs) == Each(LAMBDA st, n, out : raw_step(req.type, st, n, out), img, req, outs)

\* On Windows the failure of a flush is not looked at.
raw_request_win(img, req, outs) ==
  LET step(st, n, out) ==
        IF req.type \in {"FLUSH", "FLUSH_OUT"} /\ out = "fails" THEN Ends(st, "OK")
        ELSE raw_step(req.type, st, n, out)
  IN  Each(step, img, req, outs)

\* Flush and write are answered before the loop, anything else reads.  A read
\* goes on until the buffer is full or the file ends, and how much it got is
\* not looked at.
gio_request(img, req, outs) ==
  LET step(st, n, out) == IF out = "fails" THEN Ends(st, "IOERR") ELSE Got(st, n, out)
  IN  CASE req.type \in {"FLUSH", "FLUSH_OUT"} -> Ends(Begin(img, req), "OK")
        [] req.type = "WRITE" -> Ends(Begin(img, req), "IOERR")
        [] OTHER -> Each(step, img, req, outs)

\* QEMU's reads and writes are never short; FLUSH_OUT is not known here.
io_co(img, req, outs) ==
  LET step(st, n, out) ==
        CASE out = "fails" \/ req.type \notin {"READ", "WRITE", "FLUSH"} -> Ends(st, "IOERR")
          [] out # "fails" /\ req.type = "READ"  -> Got(st, n, "ok")
          [] out # "fails" /\ req.type = "WRITE" -> Put(st, n, "ok")
          [] OTHER -> [st EXCEPT !.synced = TRUE, !.off = @ + n]
  IN  Each(step, img, req, outs)

\* A handle that was opened for reading refuses the writing call.
blk_request(ops, os, mode, img, req, outs) ==
  LET denied == [i \in DOMAIN outs |-> IF req.type = "WRITE" /\ mode = "r" THEN "fails" ELSE outs[i]]
  IN  CASE ops = "raw" /\ os # "win" -> raw_request(img, req, denied)
        [] ops = "raw" /\ os = "win" -> raw_request_win(img, req, denied)
        [] ops = "gio" -> gio_request(img, req, denied)
        [] ops = "qemu" -> io_co(img, req, denied)

\* What the image itself holds then.
Image(mode, img, r) == IF mode = "overlay" THEN img ELSE r.img

----------------------------------------------------------------------------

\* A disk gets a slot of its own or is refused when there is none.  A flag
\* beats the environment and the guess, a backend that is not built is never
\* chosen, and on Windows the names the drive list gives to partitions
\* and volumes end at a device that the raw backend opens with write sharing.
BackendFits(build, name, node, flags, env, used) ==
  LET r     == anyfs_disk_add(build, name, node, flags, env, used)
      known == flags \cap build.has
  IN  /\ IF r.slot = 0 THEN \A i \in DOMAIN used : used[i] ELSE ~ used[r.slot]
      /\ r.ops \in build.has
      /\ known # {} => r.ops \in known
      /\ build.os = "win" /\ known = {} /\ env = "" /\ name.ns # "" /\ name.dev \in {"PhysicalDrive", "Volume"}
           => /\ (name.part \/ name.dev = "Volume") <=> (r.path.dev # "PhysicalDrive")
              /\ r.path.dev # "PhysicalDrive" => r.ops = "raw" /\ r.path.ns = "\\\\.\\"

\* An image is open exactly when the open succeeded, at its real size; one
\* that was opened read-only is never open for writing, by any backend.
OpensClean(ops, os, node, size, flags, bad) ==
  LET r == blk_open(ops, os, node, size, flags, bad)
  IN  /\ r.rc = 0 <=> r.held # {}
      /\ r.rc = 0 /\ node # "chr" /\ "size" \notin bad => r.capacity = size
      /\ "readonly" \in flags => r.mode # "rw"
      /\ "snapshot" \in flags /\ ops = "qemu" => r.mode # "rw"

\* What a backend answers OK it did, unless the host cut a call short: a read
\* gave the sectors asked for in order, a write changed them for the readers
\* of the disk.  Whatever it answers, the image changes in the sectors of a
\* write only, and never when it was opened for reading or with an overlay.
\* A read that the host serves whole is answered the same by every backend,
\* and a flush that carries a buffer and is answered OK reached the host.
RequestServed(ops, os, mode, img, req, outs) ==
  LET r     == blk_request(ops, os, mode, img, req, outs)
      total == SumFunction(req.bufs)
      whole == ops = "qemu" \/ \A i \in DOMAIN outs : outs[i] # "short"
      here  == req.sector .. req.sector + total - 1
  IN  /\ r.status = "OK" /\ req.type = "READ" /\ whole => r.data = Slice(img, req.sector, total)
      /\ r.status = "OK" /\ req.type = "WRITE" /\ whole => \A p \in here : r.img[p] = Fresh(p)
      /\ \A p \in DOMAIN img :
           p \notin here \/ req.type # "WRITE" \/ mode # "rw" => Image(mode, img, r)[p] = img[p]
      /\ req.type = "READ" /\ (\A i \in DOMAIN outs : outs[i] = "ok") => r.status = "OK"
      /\ req.type = "FLUSH" /\ r.status = "OK" /\ req.bufs # <<>> /\ ops # "gio" /\ os # "win" => r.synced
=============================================================================
