----------------------------- MODULE HostProxy -----------------------------
(***************************************************************************)
(* The TCP splice of the servers (host_proxy/host_proxy.c): a host thread  *)
(* and an LKL thread copy bytes between a host socket and an LKL socket    *)
(* through two single-producer single-consumer rings per connection.       *)
(*                                                                         *)
(* The two threads do the same work on their own socket, so a side is      *)
(* named "h" or "l" and everything is indexed by it: the ring filled from  *)
(* side s (h2l for "h", l2h for "l"), s_read_eof, s_wr_shut, the peer.     *)
(* The bytes a peer sends are 1, 2, ...  Both polls have a time-out and    *)
(* both threads try every connection after a poll, so wake-ups only save   *)
(* time and are left out; what poll reports matters only for the error and *)
(* hang-up bits.                                                           *)
(***************************************************************************)
EXTENDS Naturals, Sequences, FiniteSets

Sides == {"h", "l"}
Other(s) == IF s = "h" THEN "l" ELSE "h"

CONSTANTS
  Conns,        \* connections that clients make
  NoConn,
  Bytes,        \* bytes the peer on each side may send
  RING_CAP,
  MAX_CONNS,
  MayEnd,       \* TRUE: peers may finish sending or die, memory run out
  MayStop,      \* TRUE: host_proxy_stop may be called
  PollMayFail   \* TRUE: a poll may fail, other than with EINTR

ASSUME ProxyAssumption ==
  /\ NoConn \notin Conns /\ IsFiniteSet(Conns)
  /\ Bytes \in [Sides -> Nat] /\ RING_CAP \in Nat \ {0} /\ MAX_CONNS \in Nat \ {0}
  /\ MayEnd \in BOOLEAN /\ MayStop \in BOOLEAN /\ PollMayFail \in BOOLEAN

VARIABLES
  running, stopped,      \* G.running; host_proxy_stop returned
  waiting, conns, freed, \* in the listen queue; in G.conns; freed
  lkl_fd,                \* of each connection: "none", "open" or "closed"
  eof, shut,             \* s_read_eof and s_wr_shut: connections, per side
  close_req,             \* lkl_close_req
  head, tail, buf,       \* the rings, per filling side and connection
  pc, todo, cur, hup, k, n, \* of each thread; k bytes offered, n moved
  sent, taken,           \* bytes the peer sent; bytes the proxy read of them
  fin, dead,             \* peers that finished sending; that died
  told,                  \* peers to which the proxy sent a FIN
  out                    \* what reached each peer

table == <<waiting, conns, freed, lkl_fd>>
flags == <<eof, shut, close_req>>
rings == <<head, tail, buf>>
locals == <<pc, todo, cur, hup, k, n>>
peers == <<sent, taken, fin, dead, told, out>>
vars == <<running, stopped, table, flags, rings, locals, peers>>

Init ==
  /\ running = TRUE /\ stopped = FALSE
  /\ waiting = {} /\ conns = {} /\ freed = {}
  /\ lkl_fd = [c \in Conns |-> "none"]
  /\ eof = [s \in Sides |-> {}] /\ shut = [s \in Sides |-> {}]
  /\ close_req = {}
  /\ head = [s \in Sides |-> [c \in Conns |-> 0]] /\ tail = head
  /\ buf = [s \in Sides |-> [c \in Conns |-> [i \in 0..(RING_CAP - 1) |-> 0]]]
  /\ pc = [s \in Sides |-> IF s = "h" THEN "poll" ELSE "snap"]
  /\ todo = [s \in Sides |-> {}] /\ cur = [s \in Sides |-> NoConn]
  /\ hup = [s \in Sides |-> {}]
  /\ k = [s \in Sides |-> 0] /\ n = [s \in Sides |-> 0]
  /\ sent = [s \in Sides |-> [c \in Conns |-> 0]] /\ taken = sent
  /\ fin = [s \in Sides |-> {}] /\ dead = fin /\ told = fin
  /\ out = [s \in Sides |-> [c \in Conns |-> <<>>]]

-----------------------------------------------------------------------------
(* The rings. *)

SmallerOf(a, b) == IF a < b THEN a ELSE b

(* Mutant: the last byte of the buffer is never offered to the consumer. *)
ReadableShort(s, c) ==
  SmallerOf(head[s][c] - tail[s][c], RING_CAP - 1 - (tail[s][c] % RING_CAP))

(* Bytes that can be stored, or fetched, without wrapping. *)
ring_writable(s, c) ==
  SmallerOf(RING_CAP - (head[s][c] - tail[s][c]),
            RING_CAP - (head[s][c] % RING_CAP))

ring_readable(s, c) ==
  SmallerOf(head[s][c] - tail[s][c], RING_CAP - (tail[s][c] % RING_CAP))

ring_empty(s, c) == head[s][c] = tail[s][c]

Goto(s, label) == pc' = [pc EXCEPT ![s] = label]

-----------------------------------------------------------------------------
(* lkl_io and host_io: side s works on connection cur[s]. *)

(* One turn of the receive loop.  Nothing to read, or no room: on to the   *)
(* send loop.                                                              *)
RecvSkip(s) ==
  LET c == cur[s] IN
  /\ pc[s] = "recv"
  /\ \/ c \in eof[s] \/ ring_writable(s, c) = 0
     \/ sent[s][c] = taken[s][c] /\ c \notin fin[s] \cup dead[s]
  /\ Goto(s, "send")
  /\ UNCHANGED <<running, stopped, table, flags, rings, todo, cur, hup, k, n,
                 peers>>

RecvEnd(s) ==
  LET c == cur[s] IN
  /\ pc[s] = "recv" /\ c \notin eof[s] /\ ring_writable(s, c) > 0
  /\ c \in dead[s] \/ (c \in fin[s] /\ sent[s][c] = taken[s][c])
  /\ eof' = [eof EXCEPT ![s] = @ \cup {c}]
  /\ Goto(s, "send")
  /\ UNCHANGED <<running, stopped, table, shut, close_req, rings, todo, cur,
                 hup, k, n, peers>>

(* Bytes are stored behind the head ... *)
RecvSome(s) ==
  LET c == cur[s]
      w == ring_writable(s, c)
      left == sent[s][c] - taken[s][c] IN
  /\ pc[s] = "recv" /\ c \notin eof[s] /\ w > 0 /\ left > 0
  /\ \E m \in 1..SmallerOf(w, left) :
       /\ buf' = [buf EXCEPT ![s][c] =
            [i \in DOMAIN @ |->
               LET j == (i + RING_CAP - (head[s][c] % RING_CAP)) % RING_CAP
               IN IF j < m THEN taken[s][c] + j + 1 ELSE @[i]]]
       /\ taken' = [taken EXCEPT ![s][c] = @ + m]
       /\ n' = [n EXCEPT ![s] = m]
  /\ k' = [k EXCEPT ![s] = w]
  /\ Goto(s, "pcommit")
  /\ UNCHANGED <<running, stopped, table, flags, head, tail, todo, cur, hup,
                 sent, fin, dead, told, out>>

(* Mutant: the head moves over the whole room that was offered. *)
PcommitAll(s) ==
  /\ pc[s] = "pcommit"
  /\ head' = [head EXCEPT ![s][cur[s]] = @ + k[s]]
  /\ Goto(s, IF n[s] < k[s] THEN "send" ELSE "recv")
  /\ k' = [k EXCEPT ![s] = 0] /\ n' = [n EXCEPT ![s] = 0]
  /\ UNCHANGED <<running, stopped, table, flags, tail, buf, todo, cur, hup,
                 peers>>

(* ... and the head moves over what was stored. *)
Pcommit(s) ==
  /\ pc[s] = "pcommit"
  /\ head' = [head EXCEPT ![s][cur[s]] = @ + n[s]]
  /\ Goto(s, IF n[s] < k[s] THEN "send" ELSE "recv")
  /\ k' = [k EXCEPT ![s] = 0] /\ n' = [n EXCEPT ![s] = 0]
  /\ UNCHANGED <<running, stopped, table, flags, tail, buf, todo, cur, hup,
                 peers>>

(* One turn of the send loop, from the other side's ring.  Nothing to     *)
(* send, or the socket is full (EAGAIN): on to the half-close.            *)
SendSkip(s) ==
  LET c == cur[s] IN
  /\ pc[s] = "send"
  /\ c \in shut[s] \/ ring_readable(Other(s), c) = 0 \/ c \notin dead[s]
  /\ Goto(s, "shut")
  /\ UNCHANGED <<running, stopped, table, flags, rings, todo, cur, hup, k, n,
                 peers>>

SendSome(s) ==
  LET c == cur[s]
      o == Other(s)
      r == ring_readable(o, c) IN
  /\ pc[s] = "send" /\ c \notin shut[s] \cup dead[s] /\ r > 0
  /\ \E m \in 1..r :
       /\ out' = [out EXCEPT ![s][c] = @ \o
            [i \in 1..m |-> buf[o][c][(tail[o][c] + i - 1) % RING_CAP]]]
       /\ n' = [n EXCEPT ![s] = m]
  /\ k' = [k EXCEPT ![s] = r]
  /\ Goto(s, "ccommit")
  /\ UNCHANGED <<running, stopped, table, flags, rings, todo, cur, hup, sent,
                 taken, fin, dead, told>>

(* Mutant: the host thread asks for the close but goes on sending. *)
SendFailKeeps(s) ==
  LET c == cur[s] IN
  /\ pc[s] = "send" /\ c \notin shut[s] /\ c \in dead[s]
  /\ ring_readable(Other(s), c) > 0
  /\ shut' = IF s = "h" THEN shut ELSE [shut EXCEPT ![s] = @ \cup {c}]
  /\ eof' = IF s = "h" THEN [eof EXCEPT !["h"] = @ \cup {c}] ELSE eof
  /\ Goto(s, IF s = "h" THEN "io_request" ELSE "shut")
  /\ UNCHANGED <<running, stopped, table, close_req, rings, todo, cur, hup, k,
                 n, peers>>

(* The peer is dead: the host thread gives up both directions and asks for *)
(* a forced close; the LKL thread only stops writing.                      *)
SendFail(s) ==
  LET c == cur[s] IN
  /\ pc[s] = "send" /\ c \notin shut[s] /\ c \in dead[s]
  /\ ring_readable(Other(s), c) > 0
  /\ shut' = [shut EXCEPT ![s] = @ \cup {c}]
  /\ eof' = IF s = "h" THEN [eof EXCEPT !["h"] = @ \cup {c}] ELSE eof
  /\ Goto(s, IF s = "h" THEN "io_request" ELSE "shut")
  /\ UNCHANGED <<running, stopped, table, close_req, rings, todo, cur, hup, k,
                 n, peers>>

Ccommit(s) ==
  /\ pc[s] = "ccommit"
  /\ tail' = [tail EXCEPT ![Other(s)][cur[s]] = @ + n[s]]
  /\ Goto(s, IF n[s] < k[s] THEN "shut" ELSE "send")
  /\ k' = [k EXCEPT ![s] = 0] /\ n' = [n EXCEPT ![s] = 0]
  /\ UNCHANGED <<running, stopped, table, flags, head, buf, todo, cur, hup,
                 peers>>

(* Mutant: the half-close does not wait for the ring. *)
ShutEarly(s) ==
  LET c == cur[s] IN
  /\ pc[s] = "shut"
  /\ IF c \notin shut[s] /\ c \in eof[Other(s)]
     THEN /\ shut' = [shut EXCEPT ![s] = @ \cup {c}]
          /\ told' = [told EXCEPT ![s] = @ \cup {c}]
     ELSE UNCHANGED <<shut, told>>
  /\ Goto(s, "next")
  /\ UNCHANGED <<running, stopped, table, eof, close_req, rings, todo, cur,
                 hup, k, n, sent, taken, fin, dead, out>>

(* Half-close: the other side ended and its ring is drained. *)
Shut(s) ==
  LET c == cur[s] IN
  /\ pc[s] = "shut"
  /\ IF c \notin shut[s] /\ c \in eof[Other(s)] /\ ring_empty(Other(s), c)
     THEN /\ shut' = [shut EXCEPT ![s] = @ \cup {c}]
          /\ told' = [told EXCEPT ![s] = @ \cup {c}]
     ELSE UNCHANGED <<shut, told>>
  /\ Goto(s, "next")
  /\ UNCHANGED <<running, stopped, table, eof, close_req, rings, todo, cur,
                 hup, k, n, sent, taken, fin, dead, out>>

(* poll reports an error, or a hang-up: the peer died, or both directions *)
(* were shut down, with or without unread data.                           *)
HangUps(s, C) == {c \in C : c \in dead[s] \/ c \in fin[s] \cap told[s]}

-----------------------------------------------------------------------------
(* host_thread_fn. *)

HostLeft == pc["h"] = "left" \/ (pc["h"] = "poll" /\ ~running)

HostPoll ==
  /\ pc["h"] = "poll" /\ running
  /\ hup' = [hup EXCEPT !["h"] = HangUps("h", conns)]
  /\ Goto("h", IF waiting = {} THEN "hup" ELSE "accept")
  /\ UNCHANGED <<running, stopped, table, flags, rings, todo, cur, k, n, peers>>

(* poll fails: the thread leaves its loop, and nobody is told. *)
HostPollFails ==
  /\ pc["h"] = "poll" /\ running /\ PollMayFail
  /\ Goto("h", "left")
  /\ UNCHANGED <<running, stopped, table, flags, rings, todo, cur, hup, k, n,
                 peers>>

(* host_accept, until the listen queue is empty: a connection gets a slot *)
(* or, for want of one or of memory, is closed again.                     *)
HostAccept ==
  /\ pc["h"] = "accept"
  /\ \E c \in waiting :
       /\ waiting' = waiting \ {c}
       /\ \/ /\ Cardinality(conns) < MAX_CONNS
             /\ conns' = conns \cup {c} /\ UNCHANGED freed
          \/ /\ Cardinality(conns) = MAX_CONNS \/ MayEnd
             /\ freed' = freed \cup {c} /\ UNCHANGED conns
       /\ Goto("h", IF waiting' = {} THEN "hup" ELSE "accept")
  /\ UNCHANGED <<running, stopped, lkl_fd, flags, rings, todo, cur, hup, k, n,
                 peers>>

(* The flags of a connection whose host socket hung up ... *)
HostHup ==
  /\ pc["h"] = "hup"
  /\ \E c \in hup["h"] :
       /\ eof' = [eof EXCEPT !["h"] = @ \cup {c}]
       /\ shut' = [shut EXCEPT !["h"] = @ \cup {c}]
       /\ cur' = [cur EXCEPT !["h"] = c]
       /\ hup' = [hup EXCEPT !["h"] = @ \ {c}]
  /\ Goto("h", "hup_request")
  /\ UNCHANGED <<running, stopped, table, close_req, rings, todo, k, n, peers>>

(* ... and, after this or a failed send, the request to close its LKL      *)
(* socket, unless that side ended.                                         *)
HostRequest ==
  /\ pc["h"] \in {"hup_request", "io_request"}
  /\ close_req' = IF cur["h"] \in eof["l"] THEN close_req
                  ELSE close_req \cup {cur["h"]}
  /\ Goto("h", IF pc["h"] = "hup_request" THEN "hup" ELSE "shut")
  /\ UNCHANGED <<running, stopped, table, eof, shut, rings, todo, cur, hup, k,
                 n, peers>>

HostSweep ==
  /\ pc["h"] = "hup" /\ hup["h"] = {}
  /\ todo' = [todo EXCEPT !["h"] = conns]
  /\ Goto("h", "next")
  /\ UNCHANGED <<running, stopped, table, flags, rings, cur, hup, k, n, peers>>

(* Every connection with an LKL socket gets a turn of host_io. *)
HostTurn ==
  /\ pc["h"] = "next"
  /\ IF todo["h"] = {}
     THEN /\ todo' = [todo EXCEPT !["h"] = conns]
          /\ cur' = [cur EXCEPT !["h"] = NoConn]
          /\ Goto("h", "free")
     ELSE \E c \in todo["h"] :
            /\ todo' = [todo EXCEPT !["h"] = @ \ {c}]
            /\ IF lkl_fd[c] = "open"
               THEN cur' = [cur EXCEPT !["h"] = c] /\ Goto("h", "recv")
               ELSE UNCHANGED <<cur, pc>>
  /\ UNCHANGED <<running, stopped, table, flags, rings, hup, k, n, peers>>

conn_done(c) ==
  /\ \A s \in Sides : c \in eof[s] \cap shut[s]
  /\ ring_empty("h", c) /\ ring_empty("l", c)

(* conn_done and conn_free, which also closes the LKL socket. *)
HostFree ==
  /\ pc["h"] = "free"
  /\ IF todo["h"] = {}
     THEN Goto("h", "poll") /\ UNCHANGED <<todo, conns, freed, lkl_fd>>
     ELSE \E c \in todo["h"] :
            /\ todo' = [todo EXCEPT !["h"] = @ \ {c}]
            /\ IF conn_done(c)
               THEN /\ conns' = conns \ {c} /\ freed' = freed \cup {c}
                    /\ lkl_fd' = [lkl_fd EXCEPT ![c] =
                                     IF @ = "open" THEN "closed" ELSE @]
               ELSE UNCHANGED <<conns, freed, lkl_fd>>
            /\ UNCHANGED pc
  /\ UNCHANGED <<running, stopped, waiting, flags, rings, cur, hup, k, n, peers>>

-----------------------------------------------------------------------------
(* lkl_thread_fn. *)

LklLeft == pc["l"] = "left" \/ (pc["l"] = "snap" /\ ~running)

(* lkl_connect_new: the connections without an LKL socket ... *)
LklSnap ==
  /\ pc["l"] = "snap" /\ running
  /\ todo' = [todo EXCEPT !["l"] =
                {c \in conns \ eof["l"] : lkl_fd[c] = "none"}]
  /\ Goto("l", "connect")
  /\ UNCHANGED <<running, stopped, table, flags, rings, cur, hup, k, n, peers>>

(* ... are connected, or given up on both sides. *)
LklConnect ==
  /\ pc["l"] = "connect"
  /\ IF todo["l"] = {}
     THEN Goto("l", "force") /\ UNCHANGED <<todo, lkl_fd, eof, shut>>
     ELSE /\ \E c \in todo["l"] :
               /\ todo' = [todo EXCEPT !["l"] = @ \ {c}]
               /\ \/ /\ lkl_fd' = [lkl_fd EXCEPT ![c] = "open"]
                     /\ UNCHANGED <<eof, shut>>
                  \/ /\ MayEnd
                     /\ eof' = [s \in Sides |-> eof[s] \cup {c}]
                     /\ shut' = [s \in Sides |-> shut[s] \cup {c}]
                     /\ UNCHANGED lkl_fd
          /\ UNCHANGED pc
  /\ UNCHANGED <<running, stopped, waiting, conns, freed, close_req, rings,
                 cur, hup, k, n, peers>>

(* lkl_do_force_close: the LKL socket is closed and both rings dropped. *)
LklForceClose ==
  LET C == {c \in conns \cap close_req : lkl_fd[c] = "open"} IN
  /\ pc["l"] = "force"
  /\ lkl_fd' = [c \in Conns |-> IF c \in C THEN "closed" ELSE lkl_fd[c]]
  /\ eof' = [eof EXCEPT !["l"] = @ \cup C]
  /\ shut' = [shut EXCEPT !["l"] = @ \cup C]
  /\ tail' = [s \in Sides |->
                [c \in Conns |-> IF c \in C THEN head[s][c] ELSE tail[s][c]]]
  /\ Goto("l", "collect")
  /\ UNCHANGED <<running, stopped, waiting, conns, freed, close_req, head, buf,
                 todo, cur, hup, k, n, peers>>

(* cset: the connections with an LKL socket, read under the lock ... *)
LklCollect ==
  /\ pc["l"] = "collect"
  /\ todo' = [todo EXCEPT !["l"] = {c \in conns : lkl_fd[c] = "open"}]
  /\ Goto("l", "poll")
  /\ UNCHANGED <<running, stopped, table, flags, rings, cur, hup, k, n, peers>>

(* ... and used, without the lock, until after the poll. *)
LklPoll ==
  /\ pc["l"] = "poll"
  /\ hup' = [hup EXCEPT !["l"] = HangUps("l", todo["l"])]
  /\ Goto("l", "next")
  /\ UNCHANGED <<running, stopped, table, flags, rings, todo, cur, k, n, peers>>

LklPollFails ==
  /\ pc["l"] = "poll" /\ PollMayFail
  /\ Goto("l", "left")
  /\ UNCHANGED <<running, stopped, table, flags, rings, todo, cur, hup, k, n,
                 peers>>

LklTurn ==
  /\ pc["l"] = "next"
  /\ IF todo["l"] = {}
     THEN /\ cur' = [cur EXCEPT !["l"] = NoConn]
          /\ hup' = [hup EXCEPT !["l"] = {}]
          /\ Goto("l", "snap")
          /\ UNCHANGED <<todo, eof, shut>>
     ELSE \E c \in todo["l"] :
            /\ todo' = [todo EXCEPT !["l"] = @ \ {c}]
            /\ cur' = [cur EXCEPT !["l"] = c]
            /\ eof' = [eof EXCEPT !["l"] = @ \cup (hup["l"] \cap {c})]
            /\ shut' = [shut EXCEPT !["l"] = @ \cup (hup["l"] \cap {c})]
            /\ Goto("l", "recv")
            /\ UNCHANGED hup
  /\ UNCHANGED <<running, stopped, table, close_req, rings, k, n, peers>>

-----------------------------------------------------------------------------
(* host_proxy_stop, and the peers. *)

Stop ==
  /\ MayStop /\ running
  /\ running' = FALSE
  /\ UNCHANGED <<stopped, table, flags, rings, locals, peers>>

(* Both threads were joined. *)
StopDone ==
  /\ ~running /\ HostLeft /\ LklLeft /\ ~stopped
  /\ stopped' = TRUE
  /\ UNCHANGED <<running, table, flags, rings, locals, peers>>

(* A client connects to the listening socket. *)
Connect(c) ==
  /\ c \notin waiting \cup conns \cup freed
  /\ waiting' = waiting \cup {c}
  /\ UNCHANGED <<running, stopped, conns, freed, lkl_fd, flags, rings, locals,
                 peers>>

(* The peers whose socket exists.  What a client does before its           *)
(* connection is accepted shows only afterwards.                           *)
Connected(s, c) == c \in conns /\ (s = "l" => lkl_fd[c] = "open")

PeerSend(s, c) ==
  /\ Connected(s, c) /\ c \notin fin[s] \cup dead[s] /\ sent[s][c] < Bytes[s]
  /\ sent' = [sent EXCEPT ![s][c] = @ + 1]
  /\ UNCHANGED <<running, stopped, table, flags, rings, locals, taken, fin,
                 dead, told, out>>

PeerEnd(s, c) ==
  /\ MayEnd /\ Connected(s, c) /\ c \notin dead[s]
  /\ \/ /\ c \notin fin[s]
        /\ fin' = [fin EXCEPT ![s] = @ \cup {c}]
        /\ UNCHANGED dead
     \/ dead' = [dead EXCEPT ![s] = @ \cup {c}] /\ UNCHANGED fin
  /\ UNCHANGED <<running, stopped, table, flags, rings, locals, sent, taken,
                 told, out>>

-----------------------------------------------------------------------------
Io(s) ==
  \/ RecvSkip(s) \/ RecvEnd(s) \/ RecvSome(s) \/ Pcommit(s)
  \/ SendSkip(s) \/ SendSome(s) \/ SendFail(s) \/ Ccommit(s) \/ Shut(s)

Host == \/ Io("h") \/ HostPoll \/ HostPollFails \/ HostAccept \/ HostHup \/ HostRequest
        \/ HostSweep \/ HostTurn \/ HostFree

Lkl == \/ Io("l") \/ LklSnap \/ LklConnect \/ LklForceClose \/ LklCollect
       \/ LklPoll \/ LklPollFails \/ LklTurn

Peers ==
  \E c \in Conns :
    Connect(c) \/ \E s \in Sides : PeerSend(s, c) \/ PeerEnd(s, c)

Next == Host \/ Lkl \/ Stop \/ StopDone \/ Peers

Spec == Init /\ [][Next]_vars

(* Both threads keep running, and a peer that lives reads now and then, so *)
(* that a send is not refused for ever.                                    *)
FairSpec ==
  /\ Spec
  /\ WF_vars(Host) /\ WF_vars(Lkl)
  /\ \A s \in Sides : SF_vars(SendSome(s))

-----------------------------------------------------------------------------
TypeOK ==
  /\ running \in BOOLEAN /\ stopped \in BOOLEAN
  /\ waiting \subseteq Conns /\ conns \subseteq Conns /\ freed \subseteq Conns
  /\ lkl_fd \in [Conns -> {"none", "open", "closed"}]
  /\ eof \in [Sides -> SUBSET Conns] /\ shut \in [Sides -> SUBSET Conns]
  /\ close_req \subseteq Conns
  /\ head \in [Sides -> [Conns -> Nat]] /\ tail \in [Sides -> [Conns -> Nat]]
  /\ \A s \in Sides, c \in Conns :
       /\ head[s][c] \in tail[s][c]..(tail[s][c] + RING_CAP)
       /\ buf[s][c] \in [0..(RING_CAP - 1) -> 0..Bytes[s]]
       /\ taken[s][c] \in 0..sent[s][c] /\ sent[s][c] \in 0..Bytes[s]
       /\ out[s][c] \in Seq(0..Bytes[Other(s)])
  /\ todo \in [Sides -> SUBSET Conns] /\ cur \in [Sides -> Conns \cup {NoConn}]
  /\ hup \in [Sides -> SUBSET Conns]
  /\ k \in [Sides -> 0..RING_CAP] /\ n \in [Sides -> 0..RING_CAP]
  /\ fin \in [Sides -> SUBSET Conns] /\ dead \in [Sides -> SUBSET Conns]
  /\ told \in [Sides -> SUBSET Conns]

(* ring_writable, ring_pcommit, ring_ccommit: the bytes a peer gets are    *)
(* the bytes the other peer sent, in order, without gap, repetition or     *)
(* left-over of an earlier lap, whatever parts they are moved in.          *)
InOrder ==
  \A s \in Sides, c \in Conns : \A i \in DOMAIN out[s][c] : out[s][c][i] = i

(* "Single producer / consumer so release/acquire on head/tail suffices":  *)
(* the LKL thread moves the tail of l2h in lkl_do_force_close only when    *)
(* the host thread no longer takes from that ring.                         *)
OneConsumer ==
  \A c \in close_req :
    (pc["h"] = "ccommit" => cur["h"] # c) /\ c \in shut["h"]

(* A peer is told that no more bytes come (half-shut propagation) only     *)
(* after every byte read from the other peer was passed on, and none is    *)
(* read later.                                                             *)
HalfCloseAfterData ==
  \A s \in Sides : \A c \in told[s] : Len(out[s][c]) = taken[Other(s)][c]

(* Between peers that stay, every byte sent has arrived, in both           *)
(* directions.                                                             *)
AllArrived ==
  \A s \in Sides : \A c \in conns :
    (\E e \in Sides : c \in fin[e] \cup dead[e] \cup eof[e]) \/
    Len(out[Other(s)][c]) = sent[s][c]

(* lkl_do_force_close and conn_done: a connection the host thread asked to *)
(* close has been freed, whatever both sockets and both rings held.        *)
RequestedClosed == close_req \subseteq freed

(* conn_done and conn_free: a connection whose client died, or whose peers *)
(* have both ended, has given its slot back.  The one way to keep it for   *)
(* ever is a ring that still holds bytes for a socket that was given up.   *)
SlotsReturned ==
  \A c \in conns :
    c \in dead["h"] \/ (\A s \in Sides : c \in fin[s] \cup dead[s]) =>
      \E s \in Sides : c \in shut[s] /\ ~ring_empty(Other(s), c)

(* The splice always catches up, in both directions and through rings that *)
(* fill up: what can be delivered is, what the host thread asked to close  *)
(* is closed, and what has ended gives its slot back.                      *)
SpliceProgress == []<>(AllArrived /\ RequestedClosed /\ SlotsReturned)

(* "LKL thread: all lkl_sys_* calls" (line 7): nobody else closes a socket *)
(* the LKL thread is polling, or frees a connection it is about to use.    *)
LklThreadOwnsSockets ==
  /\ pc["l"] \in {"poll", "next"} => todo["l"] \cap freed = {}
  /\ pc["l"] \in {"recv", "pcommit", "send", "ccommit", "shut"} =>
       cur["l"] \notin freed

(* "Drop them so conn_done can fire": a connection whose client is gone is *)
(* eventually freed and its slot given back.                               *)
DeadConnsEnd ==
  \A c \in Conns : c \in conns /\ c \in dead["h"] /\ c \in dead["l"] ~> c \in freed

(* "In-flight connections keep running until both halves see EOF/error"    *)
(* (host_proxy.h): none is left behind when host_proxy_stop returns.       *)
StopFinishesConns == stopped => conns = {}
=============================================================================
