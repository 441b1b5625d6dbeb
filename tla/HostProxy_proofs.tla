-------------------------- MODULE HostProxy_proofs --------------------------
(***************************************************************************)
(* Safety of the splice for any number of connections, any ring capacity   *)
(* and any number of bytes.  The argument is that of a single-producer     *)
(* single-consumer ring: the positions from the tail to what was taken     *)
(* hold the bytes of those positions, the producer writes only outside     *)
(* them and the consumer reads only inside.  The one step that moves a     *)
(* tail without being its consumer, lkl_do_force_close, is harmless        *)
(* because Control says that the consumer has stopped.                     *)
(***************************************************************************)
EXTENDS HostProxy, Integers, TLAPS

\* A leaf that names no prover is for Zenon.
USE ZenonT(60)

-----------------------------------------------------------------------------
(* Remainders by the capacity of a ring. *)

(* A number is its quotient and its remainder. *)
LEMMA ModSplit ==
  ASSUME NEW C \in Nat \ {0}, NEW a \in Nat
  PROVE  /\ a % C \in 0..(C - 1)
         /\ a \div C \in Nat
         /\ a = C * (a \div C) + (a % C)
BY SMTT(60)

(* A remainder is unique. *)
LEMMA ModUnique ==
  ASSUME NEW C \in Nat \ {0}, NEW q \in Int, NEW r \in Int,
         NEW x \in 0..(C - 1), NEW y \in 0..(C - 1), C * q + x = C * r + y
  PROVE  x = y
<1>1. C * (q - r) = y - x /\ C * (r - q) = x - y
  BY SMTT(60)
<1>2. q - r >= 1 => C * (q - r) >= C
  BY SMTT(60)
<1>3. r - q >= 1 => C * (r - q) >= C
  BY SMTT(60)
<1> QED
  BY <1>1, <1>2, <1>3, SMTT(60)

(* A step of d below the end of the buffer does not wrap ... *)
LEMMA ModStay ==
  ASSUME NEW C \in Nat \ {0}, NEW a \in Nat, NEW d \in Nat, (a % C) + d < C
  PROVE  (a + d) % C = (a % C) + d
<1>1. a = C * (a \div C) + (a % C) /\ a \div C \in Nat /\ a % C \in 0..(C - 1)
  BY ModSplit
<1>0. a + d \in Nat
  BY SMTT(60)
<1>2. a + d = C * ((a + d) \div C) + ((a + d) % C) /\ (a + d) \div C \in Nat
        /\ (a + d) % C \in 0..(C - 1)
  BY <1>0, ModSplit
<1>3. C * ((a + d) \div C) + ((a + d) % C) = C * (a \div C) + ((a % C) + d)
  BY <1>1, <1>2, SMTT(60)
<1>4. (a % C) + d \in 0..(C - 1)
  BY <1>1, SMTT(60)
<1> QED
  BY <1>1, <1>2, <1>3, <1>4, ModUnique, SMTT(60)

(* ... and one that reaches it wraps once. *)
LEMMA ModWrap ==
  ASSUME NEW C \in Nat \ {0}, NEW a \in Nat, NEW d \in Nat, d < C, (a % C) + d >= C
  PROVE  (a + d) % C = (a % C) + d - C
<1>1. a = C * (a \div C) + (a % C) /\ a \div C \in Nat /\ a % C \in 0..(C - 1)
  BY ModSplit
<1>0. a + d \in Nat
  BY SMTT(60)
<1>2. a + d = C * ((a + d) \div C) + ((a + d) % C) /\ (a + d) \div C \in Nat
        /\ (a + d) % C \in 0..(C - 1)
  BY <1>0, ModSplit
<1>3. C * (a \div C + 1) = C * (a \div C) + C /\ a \div C + 1 \in Int
  BY <1>1, SMTT(60)
<1>4. C * ((a + d) \div C) + ((a + d) % C) = C * (a \div C + 1) + ((a % C) + d - C)
  BY <1>1, <1>2, <1>3, SMTT(60)
<1>5. (a % C) + d - C \in 0..(C - 1)
  BY <1>1, SMTT(60)
<1>6. \A q, r \in Int, x, y \in 0..(C - 1) : C * q + x = C * r + y => x = y
  BY ModUnique
<1>7. (a + d) \div C \in Int /\ (a + d) % C \in 0..(C - 1)
  BY <1>2, SMTT(60)
<1> QED
  BY <1>3, <1>4, <1>5, <1>6, <1>7

(* How far slot i lies behind the head, as RecvSome computes it: a slot of  *)
(* the run of m bytes gets its place in the run, a slot that holds an older *)
(* byte, e places before the head, is not in the run.                       *)
LEMMA RunSlot ==
  ASSUME NEW C \in Nat \ {0}, NEW a \in Nat, NEW d \in Nat, (a % C) + d < C
  PROVE  (((a + d) % C) + C - (a % C)) % C = d
<1>1. a % C \in 0..(C - 1) /\ d \in 0..(C - 1)
  BY ModSplit, SMTT(60)
<1>2. ((a + d) % C) + C - (a % C) = d + C
  <2>1. (a + d) % C = (a % C) + d
    BY ModStay
  <2> QED
    BY <1>1, <2>1, SMTT(60)
<1>3. (d + C) % C = d
  <2>1. d + C = C * ((d + C) \div C) + ((d + C) % C) /\ (d + C) \div C \in Int
          /\ (d + C) % C \in 0..(C - 1)
    BY ModSplit, SMTT(60)
  <2>2. d + C = C * 1 + d
    BY SMTT(60)
  <2> QED
    BY <1>1, <2>1, <2>2, ModUnique, SMTT(60)
<1> QED
  BY <1>2, <1>3

(* The distance, around the ring, back to a position less than a turn      *)
(* ahead.                                                                  *)
LEMMA OldSlot ==
  ASSUME NEW C \in Nat \ {0}, NEW p \in Nat, NEW e \in 1..(C - 1)
  PROVE  ((p % C) + C - ((p + e) % C)) % C = C - e
<1>1. /\ p % C \in 0..(C - 1) /\ C - e \in 0..(C - 1) /\ C + C - e \in Nat
      /\ e \in Nat /\ e < C
  BY ModSplit, SMTT(60)
<1>2. CASE (p % C) + e < C
  <2>1. (p + e) % C = (p % C) + e
    BY <1>1, <1>2, ModStay
  <2>2. (p % C) + C - ((p + e) % C) = C - e
    BY <1>1, <2>1, SMTT(60)
  <2>3. C - e = C * ((C - e) \div C) + ((C - e) % C) /\ (C - e) \div C \in Int
          /\ (C - e) % C \in 0..(C - 1)
    BY ModSplit, <1>1, SMTT(60)
  <2>4. C - e = C * 0 + (C - e)
    BY <1>1, SMTT(60)
  <2>5. C * ((C - e) \div C) + ((C - e) % C) = C * 0 + (C - e) /\ 0 \in Int
    BY <2>3, <2>4, SMTT(60)
  <2>6. (C - e) % C = C - e
    BY <1>1, <2>3, <2>5, ModUnique
  <2> QED
    BY <2>2, <2>6
<1>3. CASE (p % C) + e >= C
  <2>1. (p + e) % C = (p % C) + e - C
    BY <1>1, <1>3, ModWrap
  <2>2. (p % C) + C - ((p + e) % C) = C + C - e
    BY <1>1, <2>1, SMTT(60)
  <2>5. \A x \in Nat : /\ x = C * (x \div C) + (x % C)
                       /\ x \div C \in Int /\ x % C \in 0..(C - 1)
    BY ModSplit, SMTT(60)
  <2>3. C + C - e = C * ((C + C - e) \div C) + ((C + C - e) % C)
          /\ (C + C - e) \div C \in Int /\ (C + C - e) % C \in 0..(C - 1)
    BY <1>1, <2>5
  <2>4. C + C - e = C * 1 + (C - e)
    BY <1>1, SMTT(60)
  <2>6. C * ((C + C - e) \div C) + ((C + C - e) % C) = C * 1 + (C - e) /\ 1 \in Int
    BY <2>3, <2>4, SMTT(60)
  <2>7. (C + C - e) % C = C - e
    BY <1>1, <2>3, <2>6, ModUnique
  <2> QED
    BY <2>2, <2>7
<1>4. (p % C) + e < C \/ (p % C) + e >= C
  <2>1. \A x \in 0..(C - 1) : x + e < C \/ x + e >= C
    BY SMTT(60)
  <2> QED
    BY <1>1, <2>1
<1> QED
  BY <1>2, <1>3, <1>4

(* A run of m bytes appended to what reached a peer. *)
LEMMA AppendRun ==
  ASSUME NEW S, NEW q \in Seq(S), NEW m \in Nat, NEW f \in [1..m -> S]
  PROVE  /\ q \o f \in Seq(S)
         /\ Len(q \o f) = Len(q) + m
         /\ \A i \in 1..Len(q) : (q \o f)[i] = q[i]
         /\ \A i \in 1..m : (q \o f)[Len(q) + i] = f[i]
<1>1. f \in Seq(S) /\ Len(f) = m
  BY SMTT(60)
<1>2. /\ q \o f \in Seq(S)
      /\ Len(q \o f) = Len(q) + Len(f)
      /\ \A i \in 1..(Len(q) + Len(f)) :
           (q \o f)[i] = IF i <= Len(q) THEN q[i] ELSE f[i - Len(q)]
  BY <1>1, SMTT(60)
<1>3. Len(q) \in Nat
  BY SMTT(60)
<1>4. ASSUME NEW i \in 1..m
      PROVE  (q \o f)[Len(q) + i] = f[i]
  <2>1. /\ Len(q) + i \in 1..(Len(q) + Len(f)) /\ ~(Len(q) + i <= Len(q))
        /\ (Len(q) + i) - Len(q) = i
    BY <1>1, <1>3, SMTT(60)
  <2> QED
    BY <1>2, <2>1
<1>5. \A i \in 1..Len(q) : (q \o f)[i] = q[i]
  BY <1>1, <1>2, <1>3, SMTT(60)
<1> QED
  BY <1>1, <1>2, <1>4, <1>5

-----------------------------------------------------------------------------
(* The inductive invariant. *)

Labels == {"poll", "accept", "hup", "hup_request", "io_request", "next", "free", "snap",
           "connect", "force", "collect", "recv", "pcommit", "send", "ccommit", "shut",
           "left"}
IoLabels == {"recv", "pcommit", "send", "ccommit", "shut"}
Requesting == {"io_request", "hup_request"}
Moving == {"pcommit", "ccommit"}

(* The types of what the argument uses, in the groups that steps change. *)
TableShape ==
  waiting \subseteq Conns /\ conns \subseteq Conns
  /\ lkl_fd \in [Conns -> {"none", "open", "closed"}]
FlagShape ==
  eof \in [Sides -> SUBSET Conns] /\ shut \in [Sides -> SUBSET Conns]
  /\ told \in [Sides -> SUBSET Conns]
IndexShape ==
  /\ head \in [Sides -> [Conns -> Nat]] /\ tail \in [Sides -> [Conns -> Nat]]
  /\ taken \in [Sides -> [Conns -> Nat]] /\ sent \in [Sides -> [Conns -> Nat]]
BufShape == buf \in [Sides -> [Conns -> [0..(RING_CAP - 1) -> Nat]]]
OutShape == out \in [Sides -> [Conns -> Seq(Nat)]]
LocalShape ==
  /\ pc \in [Sides -> Labels] /\ n \in [Sides -> Nat]
  /\ todo \in [Sides -> SUBSET Conns] /\ hup \in [Sides -> SUBSET Conns]
  /\ cur \in [Sides -> Conns \cup {NoConn}]
  /\ \A s \in Sides : pc[s] \in IoLabels \cup Requesting => cur[s] \in Conns
  /\ pc["l"] \notin Requesting

Shape == TableShape /\ FlagShape /\ IndexShape /\ BufShape /\ OutShape /\ LocalShape

(* Who works on what: a side that has stored bytes has not seen the end, a   *)
(* side that has fetched some has not been shut; a connection the LKL thread *)
(* is about to connect is not in the hands of the host thread, so that it    *)
(* may set that thread's flags; and a close is requested only after the host *)
(* thread gave up writing.                                                   *)
Control ==
  /\ pc["h"] \in IoLabels \cup {"io_request"} => lkl_fd[cur["h"]] # "none"
  /\ pc["l"] = "connect" => \A c \in todo["l"] : lkl_fd[c] = "none"
  /\ pc["h"] \in Requesting => cur["h"] \in shut["h"]
  /\ \A s \in Sides : pc[s] = "pcommit" => cur[s] \notin eof[s]
  /\ \A s \in Sides : pc[s] = "ccommit" => cur[s] \notin shut[s]
  /\ close_req \subseteq shut["h"]

(* Bytes stored, or fetched, whose index has not been moved yet. *)
Stored(s, c) == IF pc[s] = "pcommit" /\ cur[s] = c THEN n[s] ELSE 0
Fetched(s, c) == IF pc[s] = "ccommit" /\ cur[s] = c THEN n[s] ELSE 0

(* The slot of position p of a ring, and how far slot i lies behind p. *)
Slot(p) == p % RING_CAP
Behind(p, i) == (i + RING_CAP - (p % RING_CAP)) % RING_CAP

(* The ring filled from side s. *)
Ring(s, c) ==
  /\ taken[s][c] = head[s][c] + Stored(s, c)
  /\ taken[s][c] <= tail[s][c] + RING_CAP
  /\ tail[s][c] + Fetched(Other(s), c) <= head[s][c]
  /\ \A p \in tail[s][c]..(taken[s][c] - 1) : buf[s][c][Slot(p)] = p + 1

(* What reached the peer on side s: what was fetched for it, in order; less  *)
(* only if the rest was dropped when s was shut.  Once the peer was told of  *)
(* the end nothing is taken for it any more.                                 *)
Delivery(s, c) ==
  /\ \A i \in 1..Len(out[s][c]) : out[s][c][i] = i
  /\ Len(out[s][c]) <= tail[Other(s)][c] + Fetched(s, c)
  /\ c \notin shut[s] => Len(out[s][c]) = tail[Other(s)][c] + Fetched(s, c)
  /\ c \in told[s] => /\ c \in shut[s] /\ c \in eof[Other(s)]
                      /\ Len(out[s][c]) = taken[Other(s)][c]

Splice == \A s \in Sides, c \in Conns : Ring(s, c) /\ Delivery(s, c)

ProxyInv == Shape /\ Control /\ Splice

-----------------------------------------------------------------------------
(* The sum of two naturals, and a member of an interval that starts at 1. *)
LEMMA SumNat ==
  ASSUME NEW a \in Nat, NEW b \in Nat
  PROVE  a + b \in Nat
BY SMTT(60)

\* A number from 1 on is a natural number.
LEMMA FromOne ==
  ASSUME NEW x \in Int, NEW m \in 1..x
  PROVE  m \in Nat
BY SMTT(60)

(* An index that moves on stays an index. *)
LEMMA IndexUp ==
  ASSUME NEW f \in [Sides -> [Conns -> Nat]], NEW s \in Sides, NEW c \in Conns,
         NEW d \in Nat
  PROVE  [f EXCEPT ![s][c] = @ + d] \in [Sides -> [Conns -> Nat]]
<1>1. f[s][c] + d \in Nat
  BY SumNat
<1> QED
  BY <1>1

(* The bytes that can be fetched, or stored, are a number. *)
LEMMA RoomInt ==
  ASSUME NEW s, NEW c, head[s][c] \in Nat, tail[s][c] \in Nat,
         sent[s][c] \in Nat, taken[s][c] \in Nat
  PROVE  /\ ring_readable(s, c) \in Int
         /\ SmallerOf(ring_writable(s, c), sent[s][c] - taken[s][c]) \in Int
<1>1. \A h, t \in Nat : RING_CAP - (h - t) \in Int /\ h - t \in Int
  BY ProxyAssumption, SMTT(60)
<1>2. \A x \in Nat : RING_CAP - (x % RING_CAP) \in Int
  <2>1. \A x \in 0..(RING_CAP - 1) : RING_CAP - x \in Int
    BY ProxyAssumption, SMTT(60)
  <2> QED
    BY <2>1, ProxyAssumption, ModSplit
<1> QED
  BY <1>1, <1>2 DEF SmallerOf, ring_readable, ring_writable

(* Every step keeps the types. *)
LEMMA ShapeStep ==
  ASSUME Shape, [Next]_vars
  PROVE  Shape'
<1> USE ProxyAssumption DEF Sides, Other
<1>t. TableShape /\ (UNCHANGED <<waiting, conns, lkl_fd>> => TableShape')
  BY DEF Shape, TableShape
<1>f. FlagShape /\ (UNCHANGED <<eof, shut, told>> => FlagShape')
  BY DEF Shape, FlagShape
<1>i. IndexShape /\ (UNCHANGED <<head, tail, taken, sent>> => IndexShape')
  BY DEF Shape, IndexShape
<1>b. BufShape /\ (UNCHANGED buf => BufShape')
  BY DEF Shape, BufShape
<1>o. OutShape /\ (UNCHANGED out => OutShape')
  BY DEF Shape, OutShape
<1>l. LocalShape /\ (UNCHANGED <<pc, n, todo, hup, cur>> => LocalShape')
  BY DEF Shape, LocalShape
<1>1. ASSUME NEW s \in Sides, RecvSkip(s) PROVE Shape'
  BY <1>t, <1>f, <1>i, <1>b, <1>o, <1>l, <1>1 DEF Shape, RecvSkip,
     LocalShape, Labels, IoLabels, Requesting, Goto, table, flags, rings,
     locals, peers
<1>2. ASSUME NEW s \in Sides, RecvEnd(s) PROVE Shape'
  BY <1>t, <1>f, <1>i, <1>b, <1>o, <1>l, <1>2 DEF Shape, RecvEnd, FlagShape,
     LocalShape, Labels, IoLabels, Requesting, Goto, table, flags, rings,
     locals, peers
<1>3. ASSUME NEW s \in Sides, RecvSome(s) PROVE Shape'
  <2> DEFINE c == cur[s]
             h == head[s][c]
             room == SmallerOf(ring_writable(s, c), sent[s][c] - taken[s][c])
             Row(m) == [i \in DOMAIN buf[s][c] |->
                          LET j == (i + RING_CAP - (h % RING_CAP)) % RING_CAP
                          IN IF j < m THEN taken[s][c] + j + 1 ELSE buf[s][c][i]]
  <2>1. TableShape' /\ FlagShape' /\ OutShape'
    BY <1>t, <1>f, <1>o, <1>3 DEF RecvSome, table, flags
  <2>2. /\ c \in Conns /\ h \in Nat /\ tail[s][c] \in Nat /\ taken[s][c] \in Nat
        /\ sent[s][c] \in Nat
    <3>1. c \in Conns
      BY <1>l, <1>3 DEF RecvSome, LocalShape, IoLabels
    <3> HIDE DEF c
    <3> QED
      BY <1>i, <3>1 DEF IndexShape
  <2>3. \A x \in Nat : x % RING_CAP \in 0..(RING_CAP - 1)
    BY ModSplit
  <2>4. PICK m \in 1..room :
          /\ buf' = [buf EXCEPT ![s][c] = Row(m)]
          /\ taken' = [taken EXCEPT ![s][c] = @ + m]
          /\ n' = [n EXCEPT ![s] = m]
    BY <1>b, <2>2, <1>3 DEF RecvSome, BufShape
  <2>5. m \in Nat
    <3>1. room \in Int
      BY <2>2, RoomInt
    <3> HIDE DEF room, Row
    <3> QED
      BY <3>1, FromOne
  <2>6. IndexShape'
    <3>1. taken' = [taken EXCEPT ![s][c] = @ + m] /\ UNCHANGED <<head, tail, sent>>
      BY <2>4, <1>3 DEF RecvSome
    <3> QED
      BY <1>i, <2>2, <2>5, <3>1, IndexUp DEF IndexShape
  <2>7. BufShape'
    <3> HIDE DEF c, h
    <3>1. \A i \in 0..(RING_CAP - 1) :
            (i + RING_CAP - (h % RING_CAP)) % RING_CAP \in Nat
      <4>1. \A i \in 0..(RING_CAP - 1) : i + RING_CAP - (h % RING_CAP) \in Nat
        BY <2>2, <2>3, SMTT(60)
      <4> QED
        BY <2>3, <4>1, SMTT(60)
    <3>2. Row(m) \in [0..(RING_CAP - 1) -> Nat]
      <4>1. DOMAIN buf[s][c] = 0..(RING_CAP - 1)
              /\ \A i \in 0..(RING_CAP - 1) : buf[s][c][i] \in Nat
        <5> HIDE DEF Row
        <5>1. buf[s][c] \in [0..(RING_CAP - 1) -> Nat]
          BY <1>b, <2>2 DEF BufShape
        <5> QED
          BY <5>1
      <4>2. \A j \in Nat : taken[s][c] + j + 1 \in Nat
        <5>1. \A x \in Nat : x + 1 \in Nat
          BY SMTT(60)
        <5> QED
          BY <2>2, <5>1, SumNat
      <4>3. \A i \in 0..(RING_CAP - 1) : Row(m)[i] \in Nat
        BY <3>1, <4>1, <4>2
      <4> QED
        BY <4>1, <4>3
    <3>3. buf' = [buf EXCEPT ![s][c] = Row(m)]
      BY <2>4
    <3> HIDE DEF Row
    <3> QED
      BY <1>b, <2>2, <3>2, <3>3 DEF BufShape
  <2>8. LocalShape'
    <3>1. /\ n' = [n EXCEPT ![s] = m] /\ pc' = [pc EXCEPT ![s] = "pcommit"]
          /\ pc[s] = "recv" /\ UNCHANGED <<todo, cur, hup>>
      BY <2>4, <1>3 DEF RecvSome, Goto
    <3> QED
      BY <1>l, <2>5, <3>1 DEF LocalShape, Labels, IoLabels, Requesting
  <2> QED
    BY <2>1, <2>6, <2>7, <2>8 DEF Shape
<1>4. ASSUME NEW s \in Sides, Pcommit(s) PROVE Shape'
  <2>1. TableShape' /\ FlagShape' /\ BufShape' /\ OutShape'
    BY <1>t, <1>f, <1>b, <1>o, <1>4 DEF Pcommit, table, flags, peers
  <2>2. cur[s] \in Conns /\ n[s] \in Nat
    BY <1>l, <1>4 DEF Pcommit, LocalShape, IoLabels
  <2>3. IndexShape'
    BY <1>i, <1>4, <2>2, IndexUp DEF Pcommit, IndexShape, peers
  <2>4. LocalShape'
    <3>1. 0 \in Nat
      BY SMTT(60)
    <3> QED
      BY <1>l, <1>4, <3>1 DEF Pcommit, LocalShape, Labels, IoLabels, Requesting, Goto
  <2> QED
    BY <2>1, <2>3, <2>4 DEF Shape
<1>5. ASSUME NEW s \in Sides, SendSkip(s) PROVE Shape'
  BY <1>t, <1>f, <1>i, <1>b, <1>o, <1>l, <1>5 DEF Shape, SendSkip,
     LocalShape, Labels, IoLabels, Requesting, Goto, table, flags, rings,
     locals, peers
<1>6. ASSUME NEW s \in Sides, SendSome(s) PROVE Shape'
  <2> DEFINE c == cur[s]
             o == Other(s)
             Run(m) == [i \in 1..m |-> buf[o][c][(tail[o][c] + i - 1) % RING_CAP]]
  <2>1. TableShape' /\ FlagShape' /\ IndexShape' /\ BufShape'
    BY <1>t, <1>f, <1>i, <1>b, <1>6 DEF SendSome, table, flags, rings
  <2>2. /\ c \in Conns /\ o \in Sides /\ tail[o][c] \in Nat /\ head[o][c] \in Nat
        /\ sent[o][c] \in Nat /\ taken[o][c] \in Nat
    <3>1. c \in Conns /\ o \in Sides
      BY <1>l, <1>6 DEF SendSome, LocalShape, IoLabels
    <3> HIDE DEF o, c
    <3> QED
      BY <1>i, <3>1 DEF IndexShape
  <2>3. \A x \in Nat : x % RING_CAP \in 0..(RING_CAP - 1)
    BY ModSplit
  <2>4. PICK m \in 1..ring_readable(o, c) :
          out' = [out EXCEPT ![s][c] = @ \o Run(m)] /\ n' = [n EXCEPT ![s] = m]
    BY <1>6 DEF SendSome
  <2>5. m \in Nat
    <3> HIDE DEF o, c, Run
    <3>1. ring_readable(o, c) \in Int
      BY <2>2, RoomInt
    <3> QED
      BY <3>1, FromOne
  <2>6. OutShape'
    <3>1. Run(m) \in [1..m -> Nat]
      <4> HIDE DEF o, c
      <4>1. \A i \in 1..m : tail[o][c] + i - 1 \in Nat
        <5>1. \A t, x \in Nat : \A i \in 1..x : t + i - 1 \in Nat
          BY SMTT(60)
        <5> QED
          BY <2>2, <2>5, <5>1
      <4>2. \A i \in 1..m : (tail[o][c] + i - 1) % RING_CAP \in 0..(RING_CAP - 1)
        BY <2>3, <4>1
      <4>3. buf[o][c] \in [0..(RING_CAP - 1) -> Nat]
        <5> HIDE DEF Run
        <5> QED
          BY <1>b, <2>2 DEF BufShape
      <4> QED
        BY <4>2, <4>3
    <3>2. out[s][c] \in Seq(Nat)
      BY <1>o, <2>2 DEF OutShape
    <3> HIDE DEF Run, c, o
    <3>3. out[s][c] \o Run(m) \in Seq(Nat)
      BY <2>5, <3>1, <3>2, AppendRun
    <3> QED
      BY <1>o, <2>2, <2>4, <3>3 DEF OutShape
  <2>7. LocalShape'
    <3>1. /\ n' = [n EXCEPT ![s] = m] /\ pc' = [pc EXCEPT ![s] = "ccommit"]
          /\ pc[s] = "send" /\ UNCHANGED <<todo, cur, hup>>
      BY <2>4, <1>6 DEF SendSome, Goto
    <3> QED
      BY <1>l, <2>5, <3>1 DEF LocalShape, Labels, IoLabels, Requesting
  <2> QED
    BY <2>1, <2>6, <2>7 DEF Shape
<1>7. ASSUME NEW s \in Sides, SendFail(s) PROVE Shape'
  BY <1>t, <1>f, <1>i, <1>b, <1>o, <1>l, <1>7 DEF Shape, SendFail,
     FlagShape, LocalShape, Labels, IoLabels, Requesting, Goto, table,
     flags, rings, locals, peers
<1>8. ASSUME NEW s \in Sides, Ccommit(s) PROVE Shape'
  <2>1. TableShape' /\ FlagShape' /\ BufShape' /\ OutShape'
    BY <1>t, <1>f, <1>b, <1>o, <1>8 DEF Ccommit, table, flags, peers
  <2>2. cur[s] \in Conns /\ n[s] \in Nat
    BY <1>l, <1>8 DEF Ccommit, LocalShape, IoLabels
  <2>3. IndexShape'
    BY <1>i, <1>8, <2>2, IndexUp DEF Ccommit, IndexShape, peers
  <2>4. LocalShape'
    <3>1. 0 \in Nat
      BY SMTT(60)
    <3> QED
      BY <1>l, <1>8, <3>1 DEF Ccommit, LocalShape, Labels, IoLabels, Requesting, Goto
  <2> QED
    BY <2>1, <2>3, <2>4 DEF Shape
<1>9. ASSUME NEW s \in Sides, Shut(s) PROVE Shape'
  BY <1>t, <1>f, <1>i, <1>b, <1>o, <1>l, <1>9, SMTT(60) DEF Shape, Shut, FlagShape,
     LocalShape, Labels, IoLabels, Requesting, Goto, table, flags, rings,
     locals, peers
<1>10. ASSUME HostPoll PROVE Shape'
  BY <1>t, <1>f, <1>i, <1>b, <1>o, <1>l, <1>10 DEF Shape, HostPoll, HangUps,
     TableShape, LocalShape, Labels, IoLabels, Requesting, Goto, table,
     flags, rings, locals, peers
<1>11. ASSUME HostAccept PROVE Shape'
  BY <1>t, <1>f, <1>i, <1>b, <1>o, <1>l, <1>11, SMTT(60) DEF Shape, HostAccept,
     TableShape, LocalShape, Labels, IoLabels, Requesting, Goto, table,
     flags, rings, locals, peers
<1>12. ASSUME HostHup PROVE Shape'
  BY <1>t, <1>f, <1>i, <1>b, <1>o, <1>l, <1>12, SMTT(60) DEF Shape, HostHup,
     FlagShape, LocalShape, Labels, IoLabels, Requesting, Goto, table,
     flags, rings, locals, peers
<1>13. ASSUME HostRequest PROVE Shape'
  BY <1>t, <1>f, <1>i, <1>b, <1>o, <1>l, <1>13 DEF Shape, HostRequest,
     LocalShape, Labels, IoLabels, Requesting, Goto, table, flags, rings,
     locals, peers
<1>14. ASSUME HostSweep PROVE Shape'
  BY <1>t, <1>f, <1>i, <1>b, <1>o, <1>l, <1>14 DEF Shape, HostSweep,
     TableShape, LocalShape, Labels, IoLabels, Requesting, Goto, table,
     flags, rings, locals, peers
<1>15. ASSUME HostTurn PROVE Shape'
  BY <1>t, <1>f, <1>i, <1>b, <1>o, <1>l, <1>15, SMTT(60) DEF Shape, HostTurn,
     TableShape, LocalShape, Labels, IoLabels, Requesting, Goto, table,
     flags, rings, locals, peers
<1>16. ASSUME HostFree PROVE Shape'
  BY <1>t, <1>f, <1>i, <1>b, <1>o, <1>l, <1>16, SMTT(60) DEF Shape, HostFree,
     TableShape, LocalShape, Labels, IoLabels, Requesting, Goto, table,
     flags, rings, locals, peers
<1>17. ASSUME LklSnap PROVE Shape'
  BY <1>t, <1>f, <1>i, <1>b, <1>o, <1>l, <1>17 DEF Shape, LklSnap,
     TableShape, LocalShape, Labels, IoLabels, Requesting, Goto, table,
     flags, rings, locals, peers
<1>18. ASSUME LklConnect PROVE Shape'
  BY <1>t, <1>f, <1>i, <1>b, <1>o, <1>l, <1>18, SMTT(60) DEF Shape, LklConnect,
     TableShape, FlagShape, LocalShape, Labels, IoLabels, Requesting, Goto,
     table, flags, rings, locals, peers
<1>19. ASSUME LklForceClose PROVE Shape'
  <2>1. BufShape' /\ OutShape'
    BY <1>b, <1>o, <1>19 DEF LklForceClose, peers
  <2>2. TableShape' /\ FlagShape'
    BY <1>t, <1>f, <1>19 DEF LklForceClose, TableShape, FlagShape, peers
  <2>3. IndexShape'
    BY <1>i, <1>19 DEF LklForceClose, IndexShape, peers
  <2>4. LocalShape'
    BY <1>l, <1>19 DEF LklForceClose, LocalShape, Labels, IoLabels, Requesting, Goto
  <2> QED
    BY <2>1, <2>2, <2>3, <2>4 DEF Shape
<1>20. ASSUME LklCollect PROVE Shape'
  BY <1>t, <1>f, <1>i, <1>b, <1>o, <1>l, <1>20 DEF Shape, LklCollect,
     TableShape, LocalShape, Labels, IoLabels, Requesting, Goto, table,
     flags, rings, locals, peers
<1>21. ASSUME LklPoll PROVE Shape'
  BY <1>t, <1>f, <1>i, <1>b, <1>o, <1>l, <1>21 DEF Shape, LklPoll, HangUps,
     LocalShape, Labels, IoLabels, Requesting, Goto, table, flags, rings,
     locals, peers
<1>22. ASSUME LklTurn PROVE Shape'
  BY <1>t, <1>f, <1>i, <1>b, <1>o, <1>l, <1>22, SMTT(60) DEF Shape, LklTurn,
     FlagShape, LocalShape, Labels, IoLabels, Requesting, Goto, table,
     flags, rings, locals, peers
<1>23. ASSUME Stop PROVE Shape'
  BY <1>t, <1>f, <1>i, <1>b, <1>o, <1>l, <1>23 DEF Shape, Stop, table,
     flags, rings, locals, peers
<1>24. ASSUME StopDone PROVE Shape'
  BY <1>t, <1>f, <1>i, <1>b, <1>o, <1>l, <1>24 DEF Shape, StopDone, table,
     flags, rings, locals, peers
<1>25. ASSUME NEW c \in Conns, Connect(c) PROVE Shape'
  BY <1>t, <1>f, <1>i, <1>b, <1>o, <1>l, <1>25 DEF Shape, Connect,
     TableShape, table, flags, rings, locals, peers
<1>26. ASSUME NEW c \in Conns, NEW s \in Sides, PeerSend(s, c) PROVE Shape'
  <2>1. TableShape' /\ FlagShape' /\ BufShape' /\ OutShape' /\ LocalShape'
    BY <1>t, <1>f, <1>b, <1>o, <1>l, <1>26 DEF PeerSend, table, flags, rings, locals
  <2>2. 1 \in Nat
    BY SMTT(60)
  <2>3. IndexShape'
    BY <1>i, <1>26, <2>2, IndexUp DEF PeerSend, IndexShape, rings
  <2> QED
    BY <2>1, <2>3 DEF Shape
<1>27. ASSUME NEW c \in Conns, NEW s \in Sides, PeerEnd(s, c) PROVE Shape'
  BY <1>t, <1>f, <1>i, <1>b, <1>o, <1>l, <1>27 DEF Shape, PeerEnd, table,
     flags, rings, locals, peers
<1>28. ASSUME UNCHANGED vars PROVE Shape'
  BY <1>t, <1>f, <1>i, <1>b, <1>o, <1>l, <1>28 DEF Shape, vars, table,
     flags, rings, locals, peers
<1>29. ASSUME HostPollFails \/ LklPollFails PROVE Shape'
  BY <1>t, <1>f, <1>i, <1>b, <1>o, <1>l, <1>29 DEF Shape, HostPollFails, LklPollFails,
     LocalShape, Labels, IoLabels, Requesting, Goto, table, flags, rings,
     locals, peers
<1> QED
  BY <1>1, <1>2, <1>3, <1>4, <1>5, <1>6, <1>7, <1>8, <1>9, <1>10, <1>11,
     <1>12, <1>13, <1>14, <1>15, <1>16, <1>17, <1>18, <1>19, <1>20, <1>21,
     <1>22, <1>23, <1>24, <1>25, <1>26, <1>27, <1>28, <1>29 DEF Next, Host, Lkl,
     Io, Peers

(* Every step keeps Control. *)
LEMMA ControlStep ==
  ASSUME Shape, Control, [Next]_vars
  PROVE  Control'
<1> USE DEF Sides, Other
<1>0. TableShape /\ FlagShape /\ LocalShape
  BY DEF Shape
<1>1. ASSUME NEW s \in Sides, RecvSkip(s) PROVE Control'
  BY <1>0, <1>1 DEF Control, TableShape, FlagShape, LocalShape, IoLabels,
     Requesting, RecvSkip, Goto, table, flags, rings, locals, peers
<1>2. ASSUME NEW s \in Sides, RecvEnd(s) PROVE Control'
  BY <1>0, <1>2 DEF Control, TableShape, FlagShape, LocalShape, IoLabels,
     Requesting, RecvEnd, Goto, table, flags, rings, locals, peers
<1>3. ASSUME NEW s \in Sides, RecvSome(s) PROVE Control'
  BY <1>0, <1>3 DEF Control, TableShape, FlagShape, LocalShape, IoLabels,
     Requesting, RecvSome, Goto, table, flags, rings, locals, peers
<1>4. ASSUME NEW s \in Sides, Pcommit(s) PROVE Control'
  BY <1>0, <1>4 DEF Control, TableShape, FlagShape, LocalShape, IoLabels,
     Requesting, Pcommit, Goto, table, flags, rings, locals, peers
<1>5. ASSUME NEW s \in Sides, SendSkip(s) PROVE Control'
  BY <1>0, <1>5 DEF Control, TableShape, FlagShape, LocalShape, IoLabels,
     Requesting, SendSkip, Goto, table, flags, rings, locals, peers
<1>6. ASSUME NEW s \in Sides, SendSome(s) PROVE Control'
  BY <1>0, <1>6 DEF Control, TableShape, FlagShape, LocalShape, IoLabels,
     Requesting, SendSome, Goto, table, flags, rings, locals, peers
<1>7. ASSUME NEW s \in Sides, SendFail(s) PROVE Control'
  BY <1>0, <1>7 DEF Control, TableShape, FlagShape, LocalShape, IoLabels,
     Requesting, SendFail, Goto, table, flags, rings, locals, peers
<1>8. ASSUME NEW s \in Sides, Ccommit(s) PROVE Control'
  BY <1>0, <1>8 DEF Control, TableShape, FlagShape, LocalShape, IoLabels,
     Requesting, Ccommit, Goto, table, flags, rings, locals, peers
<1>9. ASSUME NEW s \in Sides, Shut(s) PROVE Control'
  BY <1>0, <1>9, SMTT(60) DEF Control, TableShape, FlagShape, LocalShape, IoLabels,
     Requesting, Shut, Goto, table, flags, rings, locals, peers
<1>10. ASSUME HostPoll PROVE Control'
  BY <1>0, <1>10 DEF Control, TableShape, FlagShape, LocalShape, IoLabels,
     Requesting, HostPoll, Goto, table, flags, rings, locals, peers
<1>11. ASSUME HostAccept PROVE Control'
  BY <1>0, <1>11 DEF Control, TableShape, FlagShape, LocalShape, IoLabels,
     Requesting, HostAccept, Goto, table, flags, rings, locals, peers
<1>12. ASSUME HostHup PROVE Control'
  BY <1>0, <1>12, SMTT(60) DEF Control, TableShape, FlagShape, LocalShape, IoLabels,
     Requesting, HostHup, Goto, table, flags, rings, locals, peers
<1>13. ASSUME HostRequest PROVE Control'
  BY <1>0, <1>13 DEF Control, TableShape, FlagShape, LocalShape, IoLabels,
     Requesting, HostRequest, Goto, table, flags, rings, locals, peers
<1>14. ASSUME HostSweep PROVE Control'
  BY <1>0, <1>14 DEF Control, TableShape, FlagShape, LocalShape, IoLabels,
     Requesting, HostSweep, Goto, table, flags, rings, locals, peers
<1>15. ASSUME HostTurn PROVE Control'
  BY <1>0, <1>15, SMTT(60) DEF Control, TableShape, FlagShape, LocalShape, IoLabels,
     Requesting, HostTurn, Goto, table, flags, rings, locals, peers
<1>16. ASSUME HostFree PROVE Control'
  BY <1>0, <1>16, SMTT(60) DEF Control, TableShape, FlagShape, LocalShape, IoLabels,
     Requesting, HostFree, Goto, table, flags, rings, locals, peers
<1>17. ASSUME LklSnap PROVE Control'
  BY <1>0, <1>17 DEF Control, TableShape, FlagShape, LocalShape, IoLabels,
     Requesting, LklSnap, Goto, table, flags, rings, locals, peers
<1>18. ASSUME LklConnect PROVE Control'
  BY <1>0, <1>18, SMTT(60) DEF Control, TableShape, FlagShape, LocalShape, IoLabels,
     Requesting, LklConnect, Goto, table, flags, rings, locals, peers
<1>19. ASSUME LklForceClose PROVE Control'
  BY <1>0, <1>19 DEF Control, TableShape, FlagShape, LocalShape, IoLabels,
     Requesting, LklForceClose, Goto, table, flags, rings, locals, peers
<1>20. ASSUME LklCollect PROVE Control'
  BY <1>0, <1>20 DEF Control, TableShape, FlagShape, LocalShape, IoLabels,
     Requesting, LklCollect, Goto, table, flags, rings, locals, peers
<1>21. ASSUME LklPoll PROVE Control'
  BY <1>0, <1>21 DEF Control, TableShape, FlagShape, LocalShape, IoLabels,
     Requesting, LklPoll, Goto, table, flags, rings, locals, peers
<1>22. ASSUME LklTurn PROVE Control'
  BY <1>0, <1>22, SMTT(60) DEF Control, TableShape, FlagShape, LocalShape, IoLabels,
     Requesting, LklTurn, Goto, table, flags, rings, locals, peers
<1>23. ASSUME Stop PROVE Control'
  BY <1>0, <1>23 DEF Control, TableShape, FlagShape, LocalShape, IoLabels,
     Requesting, Stop, Goto, table, flags, rings, locals, peers
<1>24. ASSUME StopDone PROVE Control'
  BY <1>0, <1>24 DEF Control, TableShape, FlagShape, LocalShape, IoLabels,
     Requesting, StopDone, Goto, table, flags, rings, locals, peers
<1>25. ASSUME NEW c \in Conns, Connect(c) PROVE Control'
  BY <1>0, <1>25 DEF Control, TableShape, FlagShape, LocalShape, IoLabels,
     Requesting, Connect, Goto, table, flags, rings, locals, peers
<1>26. ASSUME NEW c \in Conns, NEW s \in Sides, PeerSend(s, c) PROVE Control'
  BY <1>0, <1>26 DEF Control, TableShape, FlagShape, LocalShape, IoLabels,
     Requesting, PeerSend, Goto, table, flags, rings, locals, peers
<1>27. ASSUME NEW c \in Conns, NEW s \in Sides, PeerEnd(s, c) PROVE Control'
  BY <1>0, <1>27 DEF Control, TableShape, FlagShape, LocalShape, IoLabels,
     Requesting, PeerEnd, Goto, table, flags, rings, locals, peers
<1>28. ASSUME UNCHANGED vars PROVE Control'
  BY <1>28 DEF Control, vars, table, flags, rings, locals, peers
<1>29. ASSUME HostPollFails \/ LklPollFails PROVE Control'
  BY <1>0, <1>29 DEF Control, TableShape, FlagShape, LocalShape, IoLabels,
     Requesting, HostPollFails, LklPollFails, Goto, table, flags, rings, locals, peers
<1> QED
  BY <1>1, <1>2, <1>3, <1>4, <1>5, <1>6, <1>7, <1>8, <1>9, <1>10, <1>11,
     <1>12, <1>13, <1>14, <1>15, <1>16, <1>17, <1>18, <1>19, <1>20, <1>21,
     <1>22, <1>23, <1>24, <1>25, <1>26, <1>27, <1>28, <1>29 DEF Next, Host, Lkl,
     Io, Peers

(* A step that moves no byte and no index, and at most sets flags. *)
LEMMA Quiet ==
  ASSUME Splice, UNCHANGED <<head, tail, buf, taken, out, told>>,
         \A s \in Sides : eof[s] \subseteq eof'[s] /\ shut[s] \subseteq shut'[s],
         \A s \in Sides : \/ pc'[s] = pc[s] /\ cur'[s] = cur[s] /\ n'[s] = n[s]
                          \/ pc[s] \notin Moving /\ pc'[s] \notin Moving
  PROVE  Splice'
<1>1. \A s \in Sides, c \in Conns :
        Stored(s, c)' = Stored(s, c) /\ Fetched(s, c)' = Fetched(s, c)
  BY DEF Stored, Fetched, Moving
<1>2. \A s \in Sides : Other(s) \in Sides
  BY DEF Sides, Other
<1>3. \A s \in Sides, c \in Conns : Ring(s, c)'
  BY <1>1, <1>2, SMTT(60) DEF Splice, Ring
<1>4. \A s \in Sides, c \in Conns : Delivery(s, c)'
  BY <1>1, <1>2, SMTT(60) DEF Splice, Delivery
<1> QED
  BY <1>3, <1>4 DEF Splice

(* The steps that move no byte and no index. *)
LEMMA QuietStep ==
  ASSUME Shape, Splice
  PROVE  /\ \A s \in Sides : RecvSkip(s) \/ RecvEnd(s) \/ SendSkip(s) \/ SendFail(s) => Splice'
         /\ HostPoll \/ HostPollFails \/ HostAccept \/ HostHup \/ HostRequest \/ HostSweep \/ HostTurn
              \/ HostFree \/ LklSnap \/ LklConnect \/ LklCollect \/ LklPoll
              \/ LklPollFails \/ LklTurn \/ Stop \/ StopDone => Splice'
         /\ Peers \/ UNCHANGED vars => Splice'
<1> USE DEF Sides
<1>0. FlagShape /\ LocalShape
  BY DEF Shape
<1>1. ASSUME NEW s \in Sides, RecvSkip(s) PROVE Splice'
  BY <1>0, <1>1, Quiet DEF FlagShape, LocalShape, Moving, RecvSkip, Goto,
     table, flags, rings, locals, peers
<1>2. ASSUME NEW s \in Sides, RecvEnd(s) PROVE Splice'
  BY <1>0, <1>2, Quiet DEF FlagShape, LocalShape, Moving, RecvEnd, Goto,
     table, flags, rings, locals, peers
<1>3. ASSUME NEW s \in Sides, SendSkip(s) PROVE Splice'
  BY <1>0, <1>3, Quiet DEF FlagShape, LocalShape, Moving, SendSkip, Goto,
     table, flags, rings, locals, peers
<1>4. ASSUME NEW s \in Sides, SendFail(s) PROVE Splice'
  BY <1>0, <1>4, Quiet DEF FlagShape, LocalShape, Moving, SendFail, Goto,
     table, flags, rings, locals, peers
<1>5. ASSUME HostPoll PROVE Splice'
  BY <1>0, <1>5, Quiet DEF FlagShape, LocalShape, Moving, HostPoll, Goto,
     table, flags, rings, locals, peers
<1>6. ASSUME HostAccept PROVE Splice'
  BY <1>0, <1>6, Quiet DEF FlagShape, LocalShape, Moving, HostAccept, Goto,
     table, flags, rings, locals, peers
<1>7. ASSUME HostHup PROVE Splice'
  BY <1>0, <1>7, Quiet, SMTT(60) DEF FlagShape, LocalShape, Moving, HostHup, Goto,
     table, flags, rings, locals, peers
<1>8. ASSUME HostRequest PROVE Splice'
  BY <1>0, <1>8, Quiet DEF FlagShape, LocalShape, Moving, HostRequest, Goto,
     table, flags, rings, locals, peers
<1>9. ASSUME HostSweep PROVE Splice'
  BY <1>0, <1>9, Quiet DEF FlagShape, LocalShape, Moving, HostSweep, Goto,
     table, flags, rings, locals, peers
<1>10. ASSUME HostTurn PROVE Splice'
  BY <1>0, <1>10, Quiet DEF FlagShape, LocalShape, Moving, HostTurn, Goto,
     table, flags, rings, locals, peers
<1>11. ASSUME HostFree PROVE Splice'
  BY <1>0, <1>11, Quiet DEF FlagShape, LocalShape, Moving, HostFree, Goto,
     table, flags, rings, locals, peers
<1>12. ASSUME LklSnap PROVE Splice'
  BY <1>0, <1>12, Quiet DEF FlagShape, LocalShape, Moving, LklSnap, Goto,
     table, flags, rings, locals, peers
<1>13. ASSUME LklConnect PROVE Splice'
  BY <1>0, <1>13, Quiet, SMTT(60) DEF FlagShape, LocalShape, Moving, LklConnect, Goto,
     table, flags, rings, locals, peers
<1>14. ASSUME LklCollect PROVE Splice'
  BY <1>0, <1>14, Quiet DEF FlagShape, LocalShape, Moving, LklCollect, Goto,
     table, flags, rings, locals, peers
<1>15. ASSUME LklPoll PROVE Splice'
  BY <1>0, <1>15, Quiet DEF FlagShape, LocalShape, Moving, LklPoll, Goto,
     table, flags, rings, locals, peers
<1>16. ASSUME LklTurn PROVE Splice'
  BY <1>0, <1>16, Quiet, SMTT(60) DEF FlagShape, LocalShape, Moving, LklTurn, Goto,
     table, flags, rings, locals, peers
<1>17. ASSUME Stop PROVE Splice'
  BY <1>0, <1>17, Quiet DEF FlagShape, LocalShape, Moving, Stop, Goto,
     table, flags, rings, locals, peers
<1>18. ASSUME StopDone PROVE Splice'
  BY <1>0, <1>18, Quiet DEF FlagShape, LocalShape, Moving, StopDone, Goto,
     table, flags, rings, locals, peers
<1>19. ASSUME NEW c \in Conns, Connect(c) PROVE Splice'
  BY <1>0, <1>19, Quiet DEF FlagShape, LocalShape, Moving, Connect, Goto,
     table, flags, rings, locals, peers
<1>20. ASSUME NEW c \in Conns, NEW s \in Sides, PeerSend(s, c) PROVE Splice'
  BY <1>0, <1>20, Quiet DEF FlagShape, LocalShape, Moving, PeerSend, Goto,
     table, flags, rings, locals, peers
<1>21. ASSUME NEW c \in Conns, NEW s \in Sides, PeerEnd(s, c) PROVE Splice'
  BY <1>0, <1>21, Quiet DEF FlagShape, LocalShape, Moving, PeerEnd, Goto,
     table, flags, rings, locals, peers
<1>22. ASSUME UNCHANGED vars PROVE Splice'
  BY <1>22, Quiet DEF vars, table, flags, rings, locals, peers
<1>23. ASSUME HostPollFails \/ LklPollFails PROVE Splice'
  BY <1>0, <1>23, Quiet DEF FlagShape, LocalShape, Moving, HostPollFails, LklPollFails,
     Goto, table, flags, rings, locals, peers
<1> QED
  BY <1>1, <1>2, <1>3, <1>4, <1>5, <1>6, <1>7, <1>8, <1>9, <1>10, <1>11,
     <1>12, <1>13, <1>14, <1>15, <1>16, <1>17, <1>18, <1>19, <1>20, <1>21,
     <1>22, <1>23 DEF Peers

(* The types of the numbers, and the two sides. *)
LEMMA Numbers ==
  ASSUME Shape
  PROVE  /\ \A t \in Sides, d \in Conns :
              /\ head[t][d] \in Nat /\ tail[t][d] \in Nat
              /\ taken[t][d] \in Nat /\ sent[t][d] \in Nat
              /\ Len(out[t][d]) \in Nat
              /\ Stored(t, d) \in Nat /\ Fetched(t, d) \in Nat
         /\ \A t \in Sides : n[t] \in Nat /\ Other(t) \in Sides /\ Other(t) # t
                             /\ Other(Other(t)) = t
         /\ RING_CAP \in Nat \ {0}
<1>1. \A t \in Sides, d \in Conns :
        /\ head[t][d] \in Nat /\ tail[t][d] \in Nat
        /\ taken[t][d] \in Nat /\ sent[t][d] \in Nat
  BY DEF Shape, IndexShape
<1>2. \A t \in Sides, d \in Conns : Len(out[t][d]) \in Nat
  BY SMTT(60) DEF Shape, OutShape
<1>3. \A t \in Sides : n[t] \in Nat
  BY DEF Shape, LocalShape
<1>4. \A t \in Sides, d \in Conns : Stored(t, d) \in Nat /\ Fetched(t, d) \in Nat
  BY <1>3 DEF Stored, Fetched
<1>5. \A t \in Sides : Other(t) \in Sides /\ Other(t) # t /\ Other(Other(t)) = t
  BY DEF Sides, Other
<1> QED
  BY <1>1, <1>2, <1>3, <1>4, <1>5, ProxyAssumption

(* The slots: in range; the d-th slot of a run that does not wrap; and the  *)
(* slot of an older position, which a run of fewer than RING_CAP - e bytes  *)
(* does not reach.                                                          *)
LEMMA Slots ==
  /\ \A x \in Nat : Slot(x) \in 0..(RING_CAP - 1)
  /\ \A x \in Nat : \A i \in 0..(RING_CAP - 1) : Behind(x, i) \in 0..(RING_CAP - 1)
  /\ \A a, d \in Nat : Slot(a) + d < RING_CAP => Behind(a, Slot(a + d)) = d
  /\ \A p \in Nat, e \in 1..(RING_CAP - 1) : Behind(p + e, Slot(p)) = RING_CAP - e
<1> USE ProxyAssumption
<1>1. \A x \in Nat : x % RING_CAP \in 0..(RING_CAP - 1)
  BY ModSplit
<1>2. ASSUME NEW x \in Nat, NEW i \in 0..(RING_CAP - 1)
      PROVE  (i + RING_CAP - (x % RING_CAP)) % RING_CAP \in 0..(RING_CAP - 1)
  <2>1. x % RING_CAP \in 0..(RING_CAP - 1)
    BY <1>1
  <2>2. i + RING_CAP - (x % RING_CAP) \in Nat
    BY <2>1, SMTT(60)
  <2> QED
    BY <1>1, <2>2
<1>3. ASSUME NEW a \in Nat, NEW d \in Nat, (a % RING_CAP) + d < RING_CAP
      PROVE  (((a + d) % RING_CAP) + RING_CAP - (a % RING_CAP)) % RING_CAP = d
  BY <1>3, RunSlot
<1>4. ASSUME NEW p \in Nat, NEW e \in 1..(RING_CAP - 1)
      PROVE  ((p % RING_CAP) + RING_CAP - ((p + e) % RING_CAP)) % RING_CAP
               = RING_CAP - e
  BY OldSlot
<1> QED
  BY <1>1, <1>2, <1>3, <1>4 DEF Slot, Behind

-----------------------------------------------------------------------------
(* The steps that move bytes or indices. *)

(* ring_pcommit: what was stored is now before the head. *)
LEMMA PcommitKeeps ==
  ASSUME Shape, Splice, NEW s \in Sides, Pcommit(s)
  PROVE  Splice'
<1> DEFINE c == cur[s]
<1>a. pc[s] = "pcommit" /\ UNCHANGED <<tail, buf, cur, taken, told, out, eof, shut>>
  BY DEF Pcommit, flags, peers
<1>0. c \in Conns
  BY <1>a DEF Shape, LocalShape, IoLabels
<1>c. \A t \in Sides : t # s => pc'[t] = pc[t] /\ n'[t] = n[t]
  BY DEF Shape, LocalShape, Pcommit, Goto
<1>d. pc'[s] \notin Moving
  BY DEF Shape, LocalShape, Pcommit, Goto, Moving
<1>1. \A t \in Sides, d \in Conns :
        head'[t][d] = IF t = s /\ d = c THEN head[t][d] + n[s] ELSE head[t][d]
  BY <1>0 DEF Shape, IndexShape, Pcommit
<1>2. \A t \in Sides, d \in Conns :
        /\ Stored(t, d)' = IF t = s /\ d = c THEN 0 ELSE Stored(t, d)
        /\ Fetched(t, d)' = Fetched(t, d)
  BY <1>0, <1>a, <1>c, <1>d DEF Stored, Fetched, Moving
<1>3. Stored(s, c) = n[s]
  BY <1>a DEF Stored
<1> HIDE DEF c
<1>4. ASSUME NEW t \in Sides, NEW d \in Conns PROVE Ring(t, d)'
  <2>1. /\ taken[t][d] = head[t][d] + Stored(t, d)
        /\ taken[t][d] <= tail[t][d] + RING_CAP
        /\ tail[t][d] + Fetched(Other(t), d) <= head[t][d]
        /\ \A p \in tail[t][d]..(taken[t][d] - 1) : buf[t][d][Slot(p)] = p + 1
    BY DEF Splice, Ring
  <2>2. /\ head[t][d] \in Nat /\ tail[t][d] \in Nat /\ taken[t][d] \in Nat
        /\ Stored(t, d) \in Nat /\ Fetched(Other(t), d) \in Nat /\ n[s] \in Nat
        /\ Other(t) \in Sides /\ RING_CAP \in Nat
    BY Numbers
  <2>3. /\ head'[t][d] = IF t = s /\ d = c THEN head[t][d] + n[s] ELSE head[t][d]
        /\ Stored(t, d)' = IF t = s /\ d = c THEN 0 ELSE Stored(t, d)
        /\ t = s /\ d = c => Stored(t, d) = n[s]
        /\ Fetched(Other(t), d)' = Fetched(Other(t), d)
        /\ tail'[t][d] = tail[t][d]
        /\ taken'[t][d] = taken[t][d] /\ buf'[t][d] = buf[t][d]
    BY <2>2, <1>a, <1>0, <1>1, <1>2, <1>3, Numbers
  <2>4. /\ taken'[t][d] = head'[t][d] + Stored(t, d)'
        /\ taken'[t][d] <= tail'[t][d] + RING_CAP
        /\ tail'[t][d] + Fetched(Other(t), d)' <= head'[t][d]
        /\ tail'[t][d] \in Nat /\ tail[t][d] <= tail'[t][d]
    BY <2>1, <2>2, <2>3, SMTT(60)
  <2>5. \A p \in tail'[t][d]..(taken'[t][d] - 1) : buf'[t][d][Slot(p)] = p + 1
    BY <2>1, <2>2, <2>3, <2>4
  <2> QED
    BY <2>4, <2>5 DEF Ring
<1>5. ASSUME NEW t \in Sides, NEW d \in Conns PROVE Delivery(t, d)'
  <2>1. Delivery(t, d) /\ Ring(Other(t), d)
    BY Numbers DEF Splice
  <2>2. /\ head[Other(t)][d] \in Nat /\ tail[Other(t)][d] \in Nat
        /\ Len(out[t][d]) \in Nat /\ Fetched(t, d) \in Nat /\ Other(t) \in Sides
        /\ Other(Other(t)) = t /\ Stored(Other(t), d) \in Nat
    BY Numbers
  <2> QED
    BY <2>1, <2>2, <1>a, <1>2 DEF Delivery, Ring
<1> QED
  BY <1>4, <1>5 DEF Splice

(* ring_ccommit: what was fetched is now behind the tail. *)
LEMMA CcommitKeeps ==
  ASSUME Shape, Splice, NEW s \in Sides, Ccommit(s)
  PROVE  Splice'
<1> DEFINE c == cur[s]
<1>a. pc[s] = "ccommit" /\ UNCHANGED <<head, buf, cur, taken, told, out, eof, shut>>
  BY DEF Ccommit, flags, peers
<1>0. c \in Conns
  BY <1>a DEF Shape, LocalShape, IoLabels
<1>c. \A t \in Sides : t # s => pc'[t] = pc[t] /\ n'[t] = n[t]
  BY DEF Shape, LocalShape, Ccommit, Goto
<1>d. pc'[s] \notin Moving
  BY DEF Shape, LocalShape, Ccommit, Goto, Moving
<1>1. \A t \in Sides, d \in Conns :
        tail'[t][d] = IF t = Other(s) /\ d = c THEN tail[t][d] + n[s] ELSE tail[t][d]
  BY <1>0, Numbers DEF Shape, IndexShape, Ccommit
<1>2. \A t \in Sides, d \in Conns :
        /\ Fetched(t, d)' = IF t = s /\ d = c THEN 0 ELSE Fetched(t, d)
        /\ Stored(t, d)' = Stored(t, d)
  BY <1>0, <1>a, <1>c, <1>d DEF Stored, Fetched, Moving
<1>3. Fetched(s, c) = n[s]
  BY <1>a DEF Fetched
<1> HIDE DEF c
<1>4. ASSUME NEW t \in Sides, NEW d \in Conns PROVE Ring(t, d)'
  <2>1. /\ taken[t][d] = head[t][d] + Stored(t, d)
        /\ taken[t][d] <= tail[t][d] + RING_CAP
        /\ tail[t][d] + Fetched(Other(t), d) <= head[t][d]
        /\ \A p \in tail[t][d]..(taken[t][d] - 1) : buf[t][d][Slot(p)] = p + 1
    BY DEF Splice, Ring
  <2>2. /\ head[t][d] \in Nat /\ tail[t][d] \in Nat /\ taken[t][d] \in Nat
        /\ Stored(t, d) \in Nat /\ Fetched(Other(t), d) \in Nat /\ n[s] \in Nat
        /\ Other(t) \in Sides /\ RING_CAP \in Nat
    BY Numbers
  <2>3. /\ tail'[t][d] = IF t = Other(s) /\ d = c THEN tail[t][d] + n[s] ELSE tail[t][d]
        /\ Fetched(Other(t), d)' = IF t = Other(s) /\ d = c THEN 0 ELSE Fetched(Other(t), d)
        /\ t = Other(s) /\ d = c => Fetched(Other(t), d) = n[s]
        /\ Stored(t, d)' = Stored(t, d)
        /\ head'[t][d] = head[t][d]
        /\ taken'[t][d] = taken[t][d] /\ buf'[t][d] = buf[t][d]
    BY <2>2, <1>a, <1>0, <1>1, <1>2, <1>3, Numbers
  <2>4. /\ taken'[t][d] = head'[t][d] + Stored(t, d)'
        /\ taken'[t][d] <= tail'[t][d] + RING_CAP
        /\ tail'[t][d] + Fetched(Other(t), d)' <= head'[t][d]
        /\ tail'[t][d] \in Nat /\ tail[t][d] <= tail'[t][d]
    BY <2>1, <2>2, <2>3, SMTT(60)
  <2>5. \A p \in tail'[t][d]..(taken'[t][d] - 1) : buf'[t][d][Slot(p)] = p + 1
    BY <2>1, <2>2, <2>3, <2>4, SMTT(60)
  <2> QED
    BY <2>4, <2>5 DEF Ring
<1>5. ASSUME NEW t \in Sides, NEW d \in Conns PROVE Delivery(t, d)'
  <2>1. Delivery(t, d)
    BY DEF Splice
  <2>2. tail'[Other(t)][d] + Fetched(t, d)' = tail[Other(t)][d] + Fetched(t, d)
    <3>1. Other(t) \in Sides /\ (Other(t) = Other(s) <=> t = s)
      BY Numbers
    <3>2. /\ tail'[Other(t)][d] = IF t = s /\ d = c THEN tail[Other(t)][d] + n[s]
                                 ELSE tail[Other(t)][d]
          /\ Fetched(t, d)' = IF t = s /\ d = c THEN 0 ELSE Fetched(t, d)
          /\ t = s /\ d = c => Fetched(t, d) = n[s]
      BY <1>1, <1>2, <1>3, <3>1
    <3>3. tail[Other(t)][d] \in Nat /\ n[s] \in Nat
      BY <3>1, Numbers
    <3> QED
      BY <3>2, <3>3, SMTT(60)
  <2> QED
    BY <1>a, <2>1, <2>2 DEF Delivery
<1> QED
  BY <1>4, <1>5 DEF Splice

(* Half-close: nothing is stored and nothing left in the ring. *)
LEMMA ShutKeeps ==
  ASSUME Shape, Control, Splice, NEW s \in Sides, Shut(s)
  PROVE  Splice'
<1> DEFINE c == cur[s]
           o == Other(s)
<1>a. pc[s] = "shut" /\ UNCHANGED <<n, cur, head, tail, buf, taken, out, eof>>
  BY DEF Shut, rings
<1>0. c \in Conns /\ o \in Sides
  BY <1>a, Numbers DEF Shape, LocalShape, IoLabels
<1>b. \A t \in Sides : IF t = s THEN pc'[t] = "next" ELSE pc'[t] = pc[t]
  BY DEF Shape, LocalShape, Shut, Goto
<1>1. \A t \in Sides, d \in Conns :
        Stored(t, d)' = Stored(t, d) /\ Fetched(t, d)' = Fetched(t, d)
  BY <1>a, <1>b DEF Stored, Fetched
<1>2. ASSUME NEW t \in Sides, NEW d \in Conns PROVE Ring(t, d)'
  <2>1. /\ taken[t][d] = head[t][d] + Stored(t, d)
        /\ taken[t][d] <= tail[t][d] + RING_CAP
        /\ tail[t][d] + Fetched(Other(t), d) <= head[t][d]
        /\ \A p \in tail[t][d]..(taken[t][d] - 1) : buf[t][d][Slot(p)] = p + 1
    BY DEF Splice, Ring
  <2>2. /\ head[t][d] \in Nat /\ tail[t][d] \in Nat /\ taken[t][d] \in Nat
        /\ Stored(t, d) \in Nat /\ Fetched(Other(t), d) \in Nat /\ n[s] \in Nat
        /\ Other(t) \in Sides /\ RING_CAP \in Nat
    BY Numbers
  <2>3. /\ Stored(t, d)' = Stored(t, d) /\ Fetched(Other(t), d)' = Fetched(Other(t), d)
        /\ head'[t][d] = head[t][d] /\ tail'[t][d] = tail[t][d]
        /\ taken'[t][d] = taken[t][d] /\ buf'[t][d] = buf[t][d]
    BY <2>2, <1>a, <1>1, Numbers
  <2>4. /\ taken'[t][d] = head'[t][d] + Stored(t, d)'
        /\ taken'[t][d] <= tail'[t][d] + RING_CAP
        /\ tail'[t][d] + Fetched(Other(t), d)' <= head'[t][d]
        /\ tail'[t][d] \in Nat /\ tail[t][d] <= tail'[t][d]
    BY <2>1, <2>2, <2>3, SMTT(60)
  <2>5. \A p \in tail'[t][d]..(taken'[t][d] - 1) : buf'[t][d][Slot(p)] = p + 1
    BY <2>1, <2>2, <2>3, <2>4
  <2> QED
    BY <2>4, <2>5 DEF Ring
<1>3. CASE UNCHANGED <<shut, told>>
  <2>1. ASSUME NEW t \in Sides, NEW d \in Conns PROVE Delivery(t, d)'
    <3>1. Delivery(t, d)
      BY DEF Splice
    <3> QED
      BY <1>a, <1>1, <1>3, <3>1 DEF Delivery
  <2> QED
    BY <1>2, <2>1 DEF Splice
<1>4. CASE ~UNCHANGED <<shut, told>>
  <2>1. /\ c \notin shut[s] /\ c \in eof[o] /\ head[o][c] = tail[o][c]
        /\ \A t \in Sides, d \in Conns :
             /\ d \in shut'[t] <=> d \in shut[t] \/ (t = s /\ d = c)
             /\ d \in told'[t] <=> d \in told[t] \/ (t = s /\ d = c)
    BY <1>4, SMTT(60) DEF Shape, FlagShape, Shut, ring_empty
  <2>2. Stored(o, c) = 0 /\ Fetched(s, c) = 0
    BY <1>a, <1>0, <2>1 DEF Control, Stored, Fetched
  <2>3. Len(out[s][c]) = taken[o][c]
    <3>1. Ring(o, c) /\ Delivery(s, c)
      BY <1>0 DEF Splice
    <3> QED
      BY <1>0, <2>1, <2>2, <3>1, Numbers DEF Ring, Delivery
  <2>4. ASSUME NEW t \in Sides, NEW d \in Conns PROVE Delivery(t, d)'
    <3>1. Delivery(t, d)
      BY DEF Splice
    <3> QED
      BY <1>a, <1>0, <1>1, <2>1, <2>3, <3>1, Numbers DEF Delivery
  <2> QED
    BY <1>2, <2>4 DEF Splice
<1> QED
  BY <1>3, <1>4

(* With no byte fetched, what was delivered ends before the head. *)
LEMMA Below ==
  ASSUME NEW l \in Nat, NEW x \in Nat, NEW h \in Nat, x + 0 <= h, l <= x + 0
  PROVE  l <= h + 0
BY SMTT(60)

(* lkl_do_force_close: neither consumer is between a send and its commit. *)
LEMMA ForceCloseKeeps ==
  ASSUME Shape, Control, Splice, LklForceClose
  PROVE  Splice'
<1> DEFINE C == {c \in conns \cap close_req : lkl_fd[c] = "open"}
<1>0. /\ UNCHANGED <<n, cur, head, buf, taken, out, told>>
      /\ pc["l"] = "force" /\ pc'["l"] = "collect" /\ pc'["h"] = pc["h"]
  BY DEF Shape, LocalShape, LklForceClose, Goto, peers, Sides
<1>1. \A t \in Sides, d \in Conns :
        Stored(t, d)' = Stored(t, d) /\ Fetched(t, d)' = Fetched(t, d)
  BY <1>0 DEF Stored, Fetched, Sides
<1>2. \A t \in Sides, d \in Conns :
        tail'[t][d] = IF d \in C THEN head[t][d] ELSE tail[t][d]
  BY DEF LklForceClose
<1>3. \A d \in C : d \in shut["h"] /\ \A t \in Sides : Fetched(t, d) = 0
  BY <1>0 DEF Control, Fetched, Sides
<1>4. \A t \in Sides : eof[t] \subseteq eof'[t] /\ shut[t] \subseteq shut'[t]
  BY DEF Shape, FlagShape, LklForceClose, Sides
<1>5. \A d \in C : \A t \in Sides : d \in shut'[t]
  BY <1>3, <1>4 DEF Shape, FlagShape, LklForceClose, Sides
<1> HIDE DEF C
<1>6. ASSUME NEW t \in Sides, NEW d \in Conns PROVE Ring(t, d)'
  <2>1. /\ taken[t][d] = head[t][d] + Stored(t, d)
        /\ taken[t][d] <= tail[t][d] + RING_CAP
        /\ tail[t][d] + Fetched(Other(t), d) <= head[t][d]
        /\ \A p \in tail[t][d]..(taken[t][d] - 1) : buf[t][d][Slot(p)] = p + 1
    BY DEF Splice, Ring
  <2>2. /\ head[t][d] \in Nat /\ tail[t][d] \in Nat /\ taken[t][d] \in Nat
        /\ Stored(t, d) \in Nat /\ Fetched(Other(t), d) \in Nat
        /\ Other(t) \in Sides /\ RING_CAP \in Nat
    BY Numbers
  <2>3. /\ Stored(t, d)' = Stored(t, d) /\ Fetched(Other(t), d)' = Fetched(Other(t), d)
        /\ head'[t][d] = head[t][d]
        /\ tail'[t][d] = IF d \in C THEN head[t][d] ELSE tail[t][d]
        /\ d \in C => Fetched(Other(t), d) = 0
        /\ taken'[t][d] = taken[t][d] /\ buf'[t][d] = buf[t][d]
    BY <2>2, <1>0, <1>1, <1>2, <1>3, Numbers
  <2>4. /\ taken'[t][d] = head'[t][d] + Stored(t, d)'
        /\ taken'[t][d] <= tail'[t][d] + RING_CAP
        /\ tail'[t][d] + Fetched(Other(t), d)' <= head'[t][d]
        /\ tail'[t][d] \in Nat /\ tail[t][d] <= tail'[t][d]
    BY <2>1, <2>2, <2>3, SMTT(60)
  <2>5. \A p \in tail'[t][d]..(taken'[t][d] - 1) : buf'[t][d][Slot(p)] = p + 1
    BY <2>1, <2>2, <2>3, <2>4, SMTT(60)
  <2> QED
    BY <2>4, <2>5 DEF Ring
<1>7. ASSUME NEW t \in Sides, NEW d \in Conns PROVE Delivery(t, d)'
  <2>1. Delivery(t, d) /\ Ring(Other(t), d)
    BY Numbers DEF Splice
  <2>2. /\ head[Other(t)][d] \in Nat /\ tail[Other(t)][d] \in Nat
        /\ Len(out[t][d]) \in Nat /\ Fetched(t, d) \in Nat /\ Other(t) \in Sides
        /\ Other(Other(t)) = t /\ Stored(Other(t), d) \in Nat
    BY Numbers
  <2>3. /\ tail[Other(t)][d] + Fetched(t, d) <= head[Other(t)][d]
        /\ Len(out[t][d]) <= tail[Other(t)][d] + Fetched(t, d)
        /\ taken[Other(t)][d] = head[Other(t)][d] + Stored(Other(t), d)
    BY <2>1, <2>2 DEF Delivery, Ring
  <2>4. /\ tail'[Other(t)][d] = IF d \in C THEN head[Other(t)][d] ELSE tail[Other(t)][d]
        /\ Fetched(t, d)' = Fetched(t, d) /\ (d \in C => Fetched(t, d) = 0)
        /\ out'[t] = out[t] /\ told'[t] = told[t] /\ taken'[Other(t)] = taken[Other(t)]
        /\ d \in C => d \in shut'[t]
    BY <2>2, <1>0, <1>1, <1>2, <1>3, <1>5
  <2>5. eof[Other(t)] \subseteq eof'[Other(t)] /\ shut[t] \subseteq shut'[t]
    BY <1>4, <2>2
  <2>6. CASE d \in C
    <3>1. Len(out[t][d]) <= head[Other(t)][d] + 0
      <4>1. Fetched(t, d) = 0
        BY <2>4, <2>6
      <4> QED
        BY <2>2, <2>3, <4>1, Below
    <3>2. tail'[Other(t)][d] + Fetched(t, d)' = head[Other(t)][d] + 0
      BY <2>4, <2>6
    <3> QED
      BY <2>1, <2>4, <2>5, <2>6, <3>1, <3>2 DEF Delivery
  <2>7. CASE d \notin C
    <3>1. tail'[Other(t)][d] + Fetched(t, d)' = tail[Other(t)][d] + Fetched(t, d)
      BY <2>4, <2>7
    <3> QED
      BY <2>1, <2>4, <2>5, <3>1 DEF Delivery
  <2> QED
    BY <2>6, <2>7
<1> QED
  BY <1>6, <1>7 DEF Splice

(* RecvSome: the bytes go to the slots behind the head, of which none holds *)
(* a byte the consumer has yet to take.                                     *)
LEMMA RecvSomeKeeps ==
  ASSUME Shape, Splice, NEW s \in Sides, RecvSome(s)
  PROVE  Splice'
<1>0. PICK c \in Conns : c = cur[s]
  BY DEF Shape, LocalShape, IoLabels, RecvSome
<1> DEFINE w == ring_writable(s, c)
           Place(i) == (i + RING_CAP - (head[s][c] % RING_CAP)) % RING_CAP
<1>a. /\ pc[s] = "recv" /\ c \notin eof[s]
      /\ UNCHANGED <<head, tail, cur, told, out, eof, shut>>
  BY <1>0 DEF RecvSome, flags
<1>b. \A t \in Sides : t # s => pc'[t] = pc[t] /\ n'[t] = n[t]
  BY DEF Shape, LocalShape, RecvSome, Goto
<1>c. pc'[s] = "pcommit"
  BY DEF Shape, LocalShape, RecvSome, Goto
<1>1. PICK m \in 1..SmallerOf(w, sent[s][c] - taken[s][c]) :
        /\ buf' = [buf EXCEPT ![s][c] =
             [i \in DOMAIN buf[s][c] |->
                IF Place(i) < m THEN taken[s][c] + Place(i) + 1 ELSE buf[s][c][i]]]
        /\ taken' = [taken EXCEPT ![s][c] = taken[s][c] + m]
        /\ n' = [n EXCEPT ![s] = m]
  BY <1>0 DEF RecvSome, Shape, BufShape, IndexShape
<1>2. \A t \in Sides, d \in Conns :
        taken'[t][d] = IF t = s /\ d = c THEN taken[t][d] + m ELSE taken[t][d]
  BY <1>0, <1>1 DEF Shape, IndexShape
<1>3. \A t \in Sides, d \in Conns : ~(t = s /\ d = c) => buf'[t][d] = buf[t][d]
  BY <1>0, <1>1 DEF Shape, BufShape
<1>4. \A i \in 0..(RING_CAP - 1) :
        buf'[s][c][i] = IF Behind(head[s][c], i) < m
                        THEN taken[s][c] + Behind(head[s][c], i) + 1 ELSE buf[s][c][i]
  BY <1>0, <1>1 DEF Shape, BufShape, Behind
<1>5. /\ \A t \in Sides, d \in Conns :
           /\ Stored(t, d)' = IF t = s /\ d = c THEN m ELSE Stored(t, d)
           /\ Fetched(t, d)' = Fetched(t, d)
      /\ Stored(s, c) = 0 /\ Fetched(s, c) = 0
  <2>1. n'[s] = m
    BY <1>1 DEF Shape, LocalShape
  <2> QED
    BY <1>0, <1>a, <1>b, <1>c, <2>1 DEF Stored, Fetched
<1>6. \A x \in Nat : Slot(x) \in 0..(RING_CAP - 1)
  BY Slots
<1>7. /\ m \in Nat /\ m >= 1
      /\ m <= RING_CAP - (head[s][c] - tail[s][c])
      /\ m <= RING_CAP - Slot(head[s][c])
  <2>1. /\ head[s][c] \in Nat /\ tail[s][c] \in Nat /\ taken[s][c] \in Nat
        /\ sent[s][c] \in Nat /\ RING_CAP \in Nat
        /\ Slot(head[s][c]) \in 0..(RING_CAP - 1)
    BY <1>0, <1>6, Numbers
  <2> QED
    <3>1. m \in 1..SmallerOf(w, sent[s][c] - taken[s][c])
      BY <1>1
    <3>2. w = SmallerOf(RING_CAP - (head[s][c] - tail[s][c]), RING_CAP - Slot(head[s][c]))
      BY DEF ring_writable, Slot
    <3> HIDE DEF w
    <3>3. /\ w \in Int /\ w <= RING_CAP - (head[s][c] - tail[s][c])
          /\ w <= RING_CAP - Slot(head[s][c])
      BY <2>1, <3>2, SMTT(60) DEF SmallerOf
    <3> QED
      BY <2>1, <3>1, <3>3, SMTT(60) DEF SmallerOf
<1>8. ASSUME NEW t \in Sides, NEW d \in Conns, ~(t = s /\ d = c) PROVE Ring(t, d)'
  <2>1. Ring(t, d) /\ Other(t) \in Sides
    BY Numbers DEF Splice
  <2> QED
    BY <1>2, <1>3, <1>5, <1>8, <1>a, <2>1 DEF Ring
<1>9. Ring(s, c)'
  <2>0. PICK h \in Nat, b \in Nat : h = head[s][c] /\ b = tail[s][c]
    BY <1>0, Numbers
  <2>1. /\ taken[s][c] = h /\ b + Fetched(Other(s), c) <= h
        /\ \A p \in b..(h - 1) : buf[s][c][Slot(p)] = p + 1
    <3>1. Ring(s, c)
      BY <1>0 DEF Splice
    <3> QED
      BY <1>5, <2>0, <3>1, SMTT(60) DEF Ring
  <2>2. /\ RING_CAP \in Nat \ {0} /\ Fetched(Other(s), c) \in Nat /\ Other(s) \in Sides
    BY <1>0, Numbers
  <2>3. b <= h /\ m <= RING_CAP - (h - b) /\ m <= RING_CAP - Slot(h)
    BY <1>7, <2>0, <2>1, <2>2, SMTT(60)
  <2>4. taken'[s][c] = h + m /\ Stored(s, c)' = m
    BY <1>0, <1>2, <1>5, <2>1
  <2>5. ASSUME NEW p \in b..(h + m - 1) PROVE buf'[s][c][Slot(p)] = p + 1
    <3>0. p \in Nat /\ p >= b /\ p < h + m
      BY <1>7, SMTT(60)
    <3>1. Slot(p) \in 0..(RING_CAP - 1) /\ Slot(h) \in 0..(RING_CAP - 1)
      BY <1>6, <3>0
    <3>2. CASE p < h
      <4>1. PICK e \in Nat : e = h - p
        BY <3>0, <3>2, SMTT(60)
      <4>2. e \in 1..(RING_CAP - 1) /\ p + e = h /\ ~(RING_CAP - e < m)
        BY <1>7, <2>2, <2>3, <3>0, <3>2, <4>1, SMTT(60)
      <4>3. Behind(h, Slot(p)) = RING_CAP - e
        BY <3>0, <4>2, Slots
      <4>4. buf'[s][c][Slot(p)] = buf[s][c][Slot(p)]
        BY <1>4, <2>0, <3>1, <4>2, <4>3
      <4>5. p \in b..(h - 1)
        BY <3>0, <3>2, SMTT(60)
      <4> QED
        BY <2>1, <4>4, <4>5
    <3>3. CASE p >= h
      <4>1. PICK e \in Nat : e = p - h
        BY <3>0, <3>3, SMTT(60)
      <4>2. h + e = p /\ e < m /\ Slot(h) + e < RING_CAP
        BY <1>7, <2>2, <2>3, <3>0, <3>1, <4>1, SMTT(60)
      <4>3. Behind(h, Slot(p)) = e
        BY <4>2, Slots
      <4>4. buf'[s][c][Slot(p)] = h + e + 1
        BY <1>4, <2>0, <2>1, <3>1, <4>2, <4>3
      <4> QED
        BY <4>2, <4>4
    <3> QED
      BY <3>0, <3>2, <3>3, SMTT(60)
  <2>6. h + m <= b + RING_CAP
    BY <1>7, <2>2, <2>3, SMTT(60)
  <2>7. head'[s][c] = h /\ tail'[s][c] = b /\ Fetched(Other(s), c)' = Fetched(Other(s), c)
    BY <1>0, <1>5, <1>a, <2>0, <2>2
  <2>8. /\ taken'[s][c] = head'[s][c] + Stored(s, c)'
        /\ taken'[s][c] <= tail'[s][c] + RING_CAP
        /\ tail'[s][c] + Fetched(Other(s), c)' <= head'[s][c]
    BY <2>1, <2>4, <2>6, <2>7
  <2>9. \A p \in tail'[s][c]..(taken'[s][c] - 1) : buf'[s][c][Slot(p)] = p + 1
    BY <2>4, <2>5, <2>7, SMTT(60)
  <2> QED
    BY <2>8, <2>9 DEF Ring
<1>10. ASSUME NEW t \in Sides, NEW d \in Conns PROVE Delivery(t, d)'
  <2>1. Delivery(t, d) /\ Other(t) \in Sides /\ Other(Other(t)) = t
    BY Numbers DEF Splice
  <2>2. d \in told[t] => taken'[Other(t)][d] = taken[Other(t)][d]
    BY <1>2, <1>a, <2>1 DEF Delivery
  <2> QED
    BY <1>5, <1>a, <2>1, <2>2 DEF Delivery
<1> QED
  BY <1>8, <1>9, <1>10 DEF Splice

(* SendSome: the slots behind the tail hold the next bytes. *)
LEMMA SendSomeKeeps ==
  ASSUME Shape, Splice, NEW s \in Sides, SendSome(s)
  PROVE  Splice'
<1>0. PICK c \in Conns : c = cur[s]
  BY DEF Shape, LocalShape, IoLabels, SendSome
<1> DEFINE o == Other(s)
           b == tail[o][c]
           Run(m) == [i \in 1..m |-> buf[o][c][Slot(b + i - 1)]]
<1>a. /\ pc[s] = "send" /\ c \notin shut[s]
      /\ UNCHANGED <<head, tail, buf, cur, taken, told, eof, shut>>
  BY <1>0 DEF SendSome, flags, rings
<1>b. \A t \in Sides : t # s => pc'[t] = pc[t] /\ n'[t] = n[t]
  BY DEF Shape, LocalShape, SendSome, Goto
<1>c. pc'[s] = "ccommit"
  BY DEF Shape, LocalShape, SendSome, Goto
<1>1. PICK m \in 1..ring_readable(o, c) :
        out' = [out EXCEPT ![s][c] = @ \o Run(m)] /\ n' = [n EXCEPT ![s] = m]
  BY <1>0 DEF SendSome, Slot
<1> HIDE DEF Run
<1>2. \A t \in Sides, d \in Conns : ~(t = s /\ d = c) => out'[t][d] = out[t][d]
  BY <1>0, <1>1 DEF Shape, OutShape
<1>3. out'[s][c] = out[s][c] \o Run(m)
  BY <1>0, <1>1 DEF Shape, OutShape
<1>4. /\ \A t \in Sides, d \in Conns :
           /\ Fetched(t, d)' = IF t = s /\ d = c THEN m ELSE Fetched(t, d)
           /\ Stored(t, d)' = Stored(t, d)
      /\ Fetched(s, c) = 0
  <2>1. n'[s] = m
    BY <1>1 DEF Shape, LocalShape
  <2> QED
    BY <1>0, <1>a, <1>b, <1>c, <2>1 DEF Stored, Fetched
<1>5. \A x \in Nat : Slot(x) \in 0..(RING_CAP - 1)
  BY Slots
<1>e. o \in Sides /\ o # s /\ \A t \in Sides : Other(t) = s => t = o
  BY Numbers
<1>f. \A t \in Sides : Other(t) = o => t = s
  BY Numbers
<1>6. /\ b \in Nat /\ head[o][c] \in Nat /\ taken[o][c] \in Nat
      /\ RING_CAP \in Nat /\ head[o][c] <= taken[o][c]
      /\ Slot(b) \in 0..(RING_CAP - 1)
  <2>1. /\ b \in Nat /\ head[o][c] \in Nat /\ taken[o][c] \in Nat
        /\ RING_CAP \in Nat /\ Stored(o, c) \in Nat
    BY <1>0, <1>e, Numbers
  <2>2. taken[o][c] = head[o][c] + Stored(o, c)
    BY <1>0, <1>e DEF Splice, Ring
  <2> QED
    BY <1>5, <2>1, <2>2, SMTT(60)
<1>7. m \in Nat /\ m >= 1 /\ b + m <= head[o][c]
  <2>1. m \in 1..ring_readable(o, c)
    BY <1>1
  <2>2. ring_readable(o, c) = SmallerOf(head[o][c] - b, RING_CAP - Slot(b))
    BY DEF ring_readable, Slot
  <2> HIDE DEF o, b
  <2>3. ring_readable(o, c) \in Int /\ ring_readable(o, c) <= head[o][c] - b
    BY <1>6, <2>2, SMTT(60) DEF SmallerOf
  <2> QED
    BY <1>6, <2>1, <2>3, SMTT(60)
<1>8. ASSUME NEW t \in Sides, NEW d \in Conns PROVE Ring(t, d)'
  <2>1. Ring(t, d) /\ Other(t) \in Sides
    BY Numbers DEF Splice
  <2>2. tail[t][d] + Fetched(Other(t), d)' <= head[t][d]
    <3>1. CASE Other(t) = s /\ d = c
      BY <1>0, <1>4, <1>7, <1>e, <3>1
    <3>2. CASE ~(Other(t) = s /\ d = c)
      BY <1>4, <2>1, <3>2 DEF Ring
    <3> QED
      BY <3>1, <3>2
  <2> QED
    BY <1>4, <1>a, <2>1, <2>2 DEF Ring
<1>9. ASSUME NEW t \in Sides, NEW d \in Conns, ~(t = s /\ d = c) PROVE Delivery(t, d)'
  <2>1. Delivery(t, d)
    BY DEF Splice
  <2> QED
    BY <1>2, <1>4, <1>9, <1>a, <2>1 DEF Delivery
<1>10. Delivery(s, c)'
  <2> DEFINE q == out[s][c]
  <2>1. /\ Len(q) = b /\ \A i \in 1..Len(q) : q[i] = i
        /\ c \notin told[s]
    <3>1. Delivery(s, c)
      BY <1>0 DEF Splice
    <3> QED
      BY <1>4, <1>6, <1>a, <3>1, SMTT(60) DEF Delivery
  <2>2. \A i \in 1..m : buf[o][c][Slot(b + i - 1)] = b + i
    <3>1. \A p \in b..(taken[o][c] - 1) : buf[o][c][Slot(p)] = p + 1
      BY <1>0, <1>e DEF Splice, Ring
    <3> HIDE DEF o, b
    <3>2. ASSUME NEW i \in 1..m
          PROVE  buf[o][c][Slot(b + i - 1)] = b + i
      <4>1. b + i - 1 \in b..(taken[o][c] - 1) /\ (b + i - 1) + 1 = b + i
        BY <1>6, <1>7, SMTT(60)
      <4> QED
        BY <3>1, <4>1
    <3> QED
      BY <3>2
  <2>3. Run(m) \in [1..m -> Nat] /\ \A i \in 1..m : Run(m)[i] = b + i
    <3>1. Run(m) = [i \in 1..m |-> buf[o][c][Slot(b + i - 1)]]
      BY DEF Run
    <3> HIDE DEF o, b
    <3>2. DOMAIN Run(m) = 1..m /\ \A i \in 1..m : Run(m)[i] = b + i
      BY <2>2, <3>1
    <3>3. \A i \in 1..m : b + i \in Nat
      BY <1>6, SMTT(60)
    <3> QED
      BY <3>1, <3>2, <3>3
  <2>4. q \in Seq(Nat)
    BY <1>0 DEF Shape, OutShape
  <2>5. /\ Len(q \o Run(m)) = Len(q) + m
        /\ \A i \in 1..Len(q) : (q \o Run(m))[i] = q[i]
        /\ \A i \in 1..m : (q \o Run(m))[Len(q) + i] = Run(m)[i]
    <3> HIDE DEF q
    <3> QED
      BY <1>7, <2>3, <2>4, AppendRun, SMTT(60)
  <2>6. ASSUME NEW i \in 1..(b + m) PROVE (q \o Run(m))[i] = i
    <3> HIDE DEF q, b
    <3>1. b \in Nat /\ m \in Nat
      BY <1>6, <1>7
    <3>2. i \in 1..b \/ \E j \in 1..m : i = b + j
      <4>1. i \in Nat /\ i >= 1 /\ i <= b + m
        BY <3>1, SMTT(60)
      <4>2. CASE i <= b
        BY <3>1, <4>1, <4>2, SMTT(60)
      <4>3. CASE i > b
        <5>1. i - b \in 1..m /\ i = b + (i - b)
          BY <3>1, <4>1, <4>3, SMTT(60)
        <5> QED
          BY <5>1
      <4> QED
        BY <3>1, <4>1, <4>2, <4>3, SMTT(60)
    <3>3. PICK z : z = q \o Run(m)
      OBVIOUS
    <3> QED
      BY <2>1, <2>3, <2>5, <3>2, <3>3
  <2>7. Len(out'[s][c]) = b + m /\ Fetched(s, c)' = m
    BY <1>0, <1>3, <1>4, <2>1, <2>5
  <2>8. tail'[Other(s)][c] = b
    BY <1>a
  <2> HIDE DEF o, b, q
  <2>9. \A i \in 1..Len(out'[s][c]) : out'[s][c][i] = i
    BY <1>3, <2>6, <2>7 DEF q
  <2>10. c \notin told'[s]
    BY <1>a, <2>1
  <2>11. Len(out'[s][c]) = tail'[Other(s)][c] + Fetched(s, c)'
    BY <2>7, <2>8
  <2>12. Len(out'[s][c]) \in Nat
    BY <1>6, <1>7, <2>7, SMTT(60)
  <2> QED
    BY <2>9, <2>10, <2>11, <2>12, SMTT(60) DEF Delivery
<1> QED
  BY <1>8, <1>9, <1>10 DEF Splice

-----------------------------------------------------------------------------
(* The invariant of the proxy holds at the start. *)
LEMMA InitInv ==
  ASSUME Init
  PROVE  ProxyInv
<1> USE ProxyAssumption DEF Init, Sides, Other
<1>1. TableShape /\ FlagShape /\ IndexShape /\ BufShape
  BY DEF TableShape, FlagShape, IndexShape, BufShape
<1>2. OutShape
  BY SMTT(60) DEF OutShape
<1>3. LocalShape /\ Control
  BY DEF LocalShape, Control, Labels, IoLabels, Requesting
<1>4. \A s \in Sides, c \in Conns : Stored(s, c) = 0 /\ Fetched(s, c) = 0
  BY DEF Stored, Fetched
<1>5. \A s \in Sides, c \in Conns : Ring(s, c)
  BY <1>4, SMTT(60) DEF Ring
<1>6. \A s \in Sides, c \in Conns : Delivery(s, c)
  BY <1>4, SMTT(60) DEF Delivery
<1> QED
  BY <1>1, <1>2, <1>3, <1>5, <1>6 DEF ProxyInv, Shape, Splice

(* Every step of the two threads keeps the invariant. *)
LEMMA StepInv ==
  ASSUME ProxyInv, [Next]_vars
  PROVE  ProxyInv'
<1> USE DEF ProxyInv
<1>1. Shape' /\ Control'
  BY ShapeStep, ControlStep
<1>2. ASSUME NEW s \in Sides, Io(s) PROVE Splice'
  BY <1>2, QuietStep, RecvSomeKeeps, PcommitKeeps, SendSomeKeeps, CcommitKeeps,
     ShutKeeps DEF Io
<1>3. CASE Host
  BY <1>1, <1>2, <1>3, QuietStep DEF Host, Sides
<1>4. CASE Lkl
  BY <1>1, <1>2, <1>4, QuietStep, ForceCloseKeeps DEF Lkl, Sides
<1>5. CASE Stop \/ StopDone \/ Peers \/ UNCHANGED vars
  BY <1>1, <1>5, QuietStep
<1> QED
  BY <1>3, <1>4, <1>5 DEF Next

(* The inductive invariant holds in every state of the splice. *)
THEOREM ProxyInvariant == Spec => []ProxyInv
<1>1. ProxyInv /\ [Next]_vars => ProxyInv'
  BY StepInv
<1> QED
  BY InitInv, <1>1, PTL DEF Spec

(* ring_writable, ring_pcommit, ring_ccommit: for any number of connections *)
(* and bytes and any ring capacity, each peer gets a prefix of what the     *)
(* other one sent.                                                          *)
THEOREM BytesInOrder == Spec => []InOrder
<1>1. ProxyInv => InOrder
  <2> SUFFICES ASSUME ProxyInv, NEW s \in Sides, NEW c \in Conns,
                      NEW i \in DOMAIN out[s][c]
               PROVE  out[s][c][i] = i
    BY DEF InOrder
  <2>1. out[s][c] \in Seq(Nat)
    BY DEF ProxyInv, Shape, OutShape
  <2>2. i \in 1..Len(out[s][c])
    BY <2>1, SMTT(60)
  <2> QED
    BY <2>2 DEF ProxyInv, Splice, Delivery
<1> QED
  BY ProxyInvariant, <1>1, PTL

(* lkl_do_force_close moves the tail of a ring only when the thread that    *)
(* takes from it has stopped.                                               *)
THEOREM SingleConsumer == Spec => []OneConsumer
<1>1. ProxyInv => OneConsumer
  BY DEF ProxyInv, Control, OneConsumer, Sides
<1> QED
  BY ProxyInvariant, <1>1, PTL

(* Half-shut propagation: a peer is told of the end only after it got every *)
(* byte the proxy read from the other one.                                  *)
THEOREM EndAfterData == Spec => []HalfCloseAfterData
<1>1. ProxyInv => HalfCloseAfterData
  BY DEF ProxyInv, Shape, FlagShape, Splice, Delivery, HalfCloseAfterData
<1> QED
  BY ProxyInvariant, <1>1, PTL
=============================================================================
