--------------------------------- MODULE UrlFs ---------------------------------
(* URLFS (core/src/url-fs.ts): a remote file read in chunks over HTTP with Range *)
(* requests, behind an LRU cache.  Byte p of the file is the number p.           *)
EXTENDS Integers, Sequences

CONSTANTS FileSize, CHUNK_SIZE, MAX_CACHED_CHUNKS

ASSUME UrlAssumption == /\ FileSize \in Nat \ {0} /\ CHUNK_SIZE \in Nat \ {0}
                        /\ MAX_CACHED_CHUNKS \in Nat \ {0}

VARIABLES
  uphase,    \* "new", "failed", "idle", "reading", "returned", "threw", "spins"
  server,    \* the server honours Range
  usize,     \* backend.size
  ucache,    \* backend.cache in insertion order: chunk index and bytes
  args,      \* position and length of the read
  copied,    \* what the read has put into the buffer
  usurprise  \* what the server once sent in place of what it was asked for:
             \* "short", the beginning of it; "other", something else

urlvars == <<uphase, server, usize, ucache, args, copied, usurprise>>

Lowest(a, b) == IF a < b THEN a ELSE b
Bytes(a, b) == [i \in 1..(b - a) |-> a + i - 1]     \* bytes a to b - 1 of the file

UrlInit ==
  /\ uphase = "new" /\ server \in BOOLEAN /\ usize = 0 /\ ucache = <<>>
  /\ args = [pos |-> 0, len |-> 0] /\ copied = <<>> /\ usurprise = {}

-----------------------------------------------------------------------------
(* probeUrl: HEAD tells the size or not, and Accept-Ranges or not; unless both *)
(* are known a one-byte Range GET has to be answered with 206.                 *)
probeUrl(head, range, get) ==
  IF head /\ range THEN FileSize
  ELSE IF get \in {"total", "nototal"} /\ (head \/ get = "total") THEN FileSize
  ELSE 0     \* throws

mount ==
  /\ uphase = "new"
  /\ \E head, range \in BOOLEAN, get \in {"total", "nototal", "whole", "other", "neterror"} :
       /\ range \/ get \in {"total", "nototal"} => server
       /\ usize' = probeUrl(head, range, get)
  /\ uphase' = IF usize' = 0 THEN "failed" ELSE "idle"
  /\ UNCHANGED <<server, ucache, args, copied, usurprise>>

-----------------------------------------------------------------------------
(* stream_ops.read: nothing at or behind the end of the file. *)
readStart ==
  /\ uphase = "idle"
  /\ \E pos \in 0..(FileSize + 1), len \in 0..FileSize : args' = [pos |-> pos, len |-> len]
  /\ copied' = <<>>
  /\ uphase' = IF args'.pos >= usize THEN "returned" ELSE "reading"
  /\ UNCHANGED <<server, usize, ucache, usurprise>>

End == Lowest(args.pos + args.len, usize)
At == args.pos + Len(copied)

(* What the server may answer to a range: its bytes or all but the last one,  *)
(* the bytes of another range, the whole file, or a 200 with part of it.      *)
Sends(status, from, to) == [status |-> status, from |-> from, to |-> to]
Answers(start, end) ==
  {Sends(206, start, end), Sends(206, start, end - 1), Sends(206, 0, end - start),
   Sends(200, 0, FileSize), Sends(200, 0, 1)}

Surprise(start, end, a) ==
  IF a \in {Sends(206, start, end), Sends(200, 0, FileSize)} THEN {}
  ELSE IF a.status = 206 /\ a.from = start THEN {"short"} ELSE {"other"}

(* Mutant: a whole body in place of a range is taken as it is. *)
BodyAsSent(start, end, a) == Bytes(a.from, a.to)

(* fetchChunk: of a 200 longer than the range, the range; else what came. *)
Body(start, end, a) ==
  IF a.status = 200 /\ a.to > end - start
  THEN SubSeq(Bytes(0, a.to), start + 1, Lowest(end, a.to)) ELSE Bytes(a.from, a.to)

(* getChunk puts a fetched chunk at the end and drops the oldest. *)
Evict(c) == IF Len(c) > MAX_CACHED_CHUNKS THEN Tail(c) ELSE c

(* getChunk puts a chunk it has at the end again. *)
Touch(c, i) ==
  [j \in 1..Len(c) |-> IF j < i THEN c[j] ELSE IF j < Len(c) THEN c[j + 1] ELSE c[i]]

(* What the loop of read does with a chunk.  It does not end when the chunk   *)
(* has nothing at the position.                                               *)
CopyFrom(chunk, idx) ==
  LET off == At - idx * CHUNK_SIZE
      want == Lowest(End - At, Len(chunk) - off)
  IN IF want > 0 THEN /\ copied' = copied \o SubSeq(chunk, off + 1, off + want)
                      /\ UNCHANGED uphase
     ELSE uphase' = "spins" /\ UNCHANGED copied

(* One turn of the loop of read. *)
readChunk ==
  /\ uphase = "reading" /\ At < End
  /\ LET idx == At \div CHUNK_SIZE
         start == idx * CHUNK_SIZE
         end == Lowest(start + CHUNK_SIZE, usize)
     IN \/ /\ \E i \in 1..Len(ucache) :
                /\ ucache[i].idx = idx
                /\ CopyFrom(ucache[i].bytes, idx) /\ ucache' = Touch(ucache, i)
           /\ UNCHANGED usurprise
        \/ /\ \A i \in 1..Len(ucache) : ucache[i].idx # idx
           /\ \/ \E a \in Answers(start, end) :
                   LET body == Body(start, end, a) IN
                   /\ CopyFrom(body, idx)
                   /\ ucache' = Evict(Append(ucache, [idx |-> idx, bytes |-> body]))
                   /\ usurprise' = usurprise \cup Surprise(start, end, a)
              \/ uphase' = "threw" /\ UNCHANGED <<copied, ucache, usurprise>>
  /\ UNCHANGED <<server, usize, args>>

readEnds ==
  /\ uphase = "reading" /\ At >= End
  /\ uphase' = "returned"
  /\ UNCHANGED <<server, usize, ucache, args, copied, usurprise>>

(* The caller has the result; the next read may come. *)
delivered ==
  /\ uphase \in {"returned", "threw"} /\ uphase' = "idle"
  /\ args' = [pos |-> 0, len |-> 0] /\ copied' = <<>>
  /\ UNCHANGED <<server, usize, ucache, usurprise>>

UrlNext == mount \/ readStart \/ readChunk \/ readEnds \/ delivered

UrlSpec == UrlInit /\ [][UrlNext]_urlvars

-----------------------------------------------------------------------------
(* A file that is mounted can be read in parts; a read that returns has put    *)
(* the bytes of the file at its position into the buffer, as many as were      *)
(* asked for up to the end, whatever the cache held and however the server     *)
(* answered, unless that sent other bytes than those of the range or of the    *)
(* file, which nothing checks; the loop runs for ever only over a chunk that   *)
(* was not what was asked for; and the cache holds a chunk once and keeps its  *)
(* limit.                                                                      *)
ReadsWhole ==
  /\ uphase \notin {"new", "failed"} => server
  /\ uphase = "returned" /\ "other" \notin usurprise =>
       copied = IF args.pos >= FileSize THEN <<>>
                ELSE Bytes(args.pos, Lowest(args.pos + args.len, FileSize))
  /\ uphase = "spins" => usurprise # {}
  /\ Len(ucache) <= MAX_CACHED_CHUNKS
  /\ \A i, j \in 1..Len(ucache) : ucache[i].idx = ucache[j].idx => i = j
=============================================================================
