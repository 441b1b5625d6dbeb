------------------------ MODULE NativeSession_proofs ------------------------
(***************************************************************************)
(* Theorems about NativeSession: sessions call the addon in turn, on their *)
(* own fds, and are taken down in order, for any number of sessions, fds   *)
(* and operations.                                                         *)
(*                                                                         *)
(* The invariant is a conjunction over the sessions.  Own(s) speaks of the *)
(* state of s, of the calls and answers of s, and of nothing else, so a    *)
(* step of one session keeps it for the others (OthersKeep); only the fd   *)
(* numbers are shared, and Disjoint says that the kernel keeps them apart. *)
(***************************************************************************)
EXTENDS NativeSession, TLAPS

\* A leaf that names no prover is for Zenon.
USE ZenonT(60)

Entry == [kind : Kinds, fd : Fds \cup {NoFd}]
CallKinds == Kinds \cup {"init", "drop", "disk"}

Shape ==
  /\ phase \in [Sessions -> {"new", "init", "ready", "failed"}]
  /\ disposed \subseteq Sessions /\ fatal \subseteq Sessions /\ handle \subseteq Sessions
  /\ guarded \subseteq Sessions /\ awaited \subseteq Sessions
  /\ proxies \subseteq proxyId /\ proxyId \subseteq Sessions
  /\ fds \in [Sessions -> SUBSET Fds] /\ kfds \in [Sessions -> SUBSET Fds]
  /\ left \in [Sessions -> SUBSET Fds]
  /\ queue \in [Sessions -> Seq(Entry)]
  /\ run \in [Sessions -> Entry \cup {None}]
  /\ attach \in [Sessions -> {"idle", "starting", "opening", "stopping"}]
  /\ stage \in [Sessions -> {"open", "idle", "fds", "disk", "stopping", "done"}]
  /\ calls \subseteq [s : Sessions, kind : CallKinds, fd : Fds \cup {NoFd}]
  /\ answers \subseteq Results
  /\ disk \in [Sessions -> {"none"} \cup Attaches]

Disjoint == \A s, t \in Sessions : s # t => kfds[s] \cap kfds[t] = {}

Queued(s, K) == \E i \in DOMAIN queue[s] : queue[s][i].kind \in K

(* A session that is not ready has done nothing yet. *)
Fresh(s) ==
  phase[s] # "ready" =>
    /\ queue[s] = <<>> /\ run[s] = None /\ attach[s] = "idle"
    /\ s \notin handle \cup proxies \cup guarded \cup awaited
    /\ fds[s] = {} /\ kfds[s] = {} /\ left[s] = {} /\ disk[s] = "none"
    /\ phase[s] = "new" => s \notin fatal \cup disposed

(* Who waits for what: the operation whose turn it is, or _dispose. *)
Turns(s) ==
  /\ s \in guarded => run[s].kind \in Kinds \ Attaches /\ s \notin fatal \cup awaited
  /\ s \notin fatal /\ run[s] # None => run[s].kind \in Attaches \/ s \in guarded
  /\ s \in awaited => s \notin fatal /\ stage[s] \in {"fds", "disk"}
  /\ s \in disposed <=> stage[s] # "open"
  /\ stage[s] \notin {"open", "idle"} /\ s \notin fatal => Idle(s)

(* A call under way is the one the session waits for, if it still waits. *)
Matches(s, kind) ==
  /\ kind = "init" => phase[s] = "init"
  /\ kind # "init" => phase[s] = "ready"
  /\ kind \in Attaches => run[s].kind = kind
  /\ kind \in Kinds \ Attaches /\ s \notin fatal => s \in guarded /\ run[s].kind = kind
  /\ kind = "drop" /\ s \notin fatal => s \in awaited /\ stage[s] = "fds"
  /\ kind = "disk" /\ s \notin fatal => s \in awaited /\ stage[s] = "disk"

(* At most one call or answer of a session is under way. *)
UnderWay(s) ==
  /\ \A c, d \in calls : c.s = s /\ d.s = s => c = d
  /\ \A a, b \in answers : a.s = s /\ b.s = s => a = b
  /\ \A c \in calls, a \in answers : ~(c.s = s /\ a.s = s)
  /\ \A c \in calls : c.s = s => Matches(s, c.kind)
  /\ \A a \in answers : a.s = s => Matches(s, a.kind)

(* An fd that is queued for an operation is open until its turn: its close *)
(* is queued behind, once.                                                 *)
QueueFds(s) ==
  s \notin fatal =>
    \A i \in DOMAIN queue[s] :
      /\ queue[s][i].fd # NoFd => queue[s][i].fd \in kfds[s]
      /\ queue[s][i].kind = "close" =>
           /\ queue[s][i].fd \in kfds[s] \ fds[s]
           /\ \A j \in DOMAIN queue[s] : j > i => queue[s][j].fd # queue[s][i].fd

(* The books of a living session: an fd open in the kernel is in this.fds, *)
(* or left for _dispose, or was given to closeFd, or its open or its close *)
(* is under way.                                                           *)
Books(s) ==
  s \notin fatal =>
    /\ stage[s] \in {"open", "idle"} =>
         /\ fds[s] \subseteq kfds[s]
         /\ run[s].kind # "open" => kfds[s] \subseteq fds[s] \cup given
    /\ stage[s] = "fds" =>
         /\ left[s] \subseteq kfds[s]
         /\ s \notin awaited => kfds[s] \subseteq left[s] \cup given

CallFds(s) ==
  \A c \in calls : c.s = s =>
    /\ c.fd # NoFd => c.fd \in kfds[s]
    /\ c.kind \in {"close", "drop"} => c.fd \in Fds
    /\ s \notin fatal =>
         /\ c.kind = "open" => kfds[s] \subseteq fds[s] \cup given
         /\ c.kind = "close" =>
              c.fd \notin fds[s] /\ \A i \in DOMAIN queue[s] : queue[s][i].fd # c.fd
         /\ c.kind = "drop" =>
              c.fd \notin left[s] /\ kfds[s] \subseteq left[s] \cup given \cup {c.fd}
    /\ c.kind = "disk" => kfds[s] \subseteq given

AnswerFds(s) ==
  s \notin fatal => \A a \in answers : a.s = s =>
    /\ a.kind = "open" /\ ~a.ok => kfds[s] \subseteq fds[s] \cup given
    /\ a.kind = "open" /\ a.ok =>
         /\ a.fd \in kfds[s] \ fds[s]
         /\ kfds[s] \subseteq fds[s] \cup given \cup {a.fd}
         /\ \A i \in DOMAIN queue[s] : queue[s][i].fd # a.fd
    /\ a.kind = "drop" => kfds[s] \subseteq left[s] \cup given

(* One attach at a time, and none of a session that has a disk. *)
Attachment(s) ==
  /\ \A i \in DOMAIN queue[s] : queue[s][i].kind \in Attaches =>
       /\ run[s].kind \notin Attaches
       /\ \A j \in DOMAIN queue[s] : queue[s][j].kind \in Attaches => j = i
  /\ attach[s] = "opening" <=> run[s].kind = "url" \/ Queued(s, {"url"})
  /\ run[s].kind = "path" \/ Queued(s, {"path"}) => attach[s] = "idle"
  /\ attach[s] # "idle" \/ run[s].kind \in Attaches \/ Queued(s, Attaches) => s \notin handle

(* The disk of a living session is known to it or about to be, and stands *)
(* on its proxy.                                                          *)
DiskState(s) ==
  s \notin fatal =>
    /\ disk[s] # "none" => s \in handle \/ run[s].kind \in Attaches
    /\ disk[s] = "url" => s \in proxies
    /\ attach[s] = "opening" => s \in proxies
    /\ stage[s] = "disk" => disk[s] = "none" \/ s \in awaited
    /\ stage[s] \in {"stopping", "done"} => disk[s] = "none"
    /\ stage[s] = "done" /\ s \in proxies => attach[s] = "stopping"

DiskCalls(s) ==
  /\ \A c \in calls : c.s = s /\ c.kind \in Attaches => s \in fatal \/ disk[s] = "none"
  /\ \A a \in answers :
       a.s = s /\ (a.kind = "disk" \/ (a.kind \in Attaches /\ ~a.ok)) =>
         s \in fatal \/ disk[s] = "none"

Own(s) ==
  /\ Fresh(s) /\ Turns(s) /\ UnderWay(s)
  /\ QueueFds(s) /\ Books(s) /\ CallFds(s) /\ AnswerFds(s)
  /\ Attachment(s) /\ DiskState(s) /\ DiskCalls(s)

SessionInv == Shape /\ Disjoint /\ \A s \in Sessions : Own(s)

-----------------------------------------------------------------------------
(* Sequences *)

(* serialize appends: the entries that wait keep their places. *)
LEMMA AppendEntries ==
  ASSUME NEW S, NEW q \in Seq(S), NEW o \in S
  PROVE  /\ Append(q, o) \in Seq(S) /\ Append(q, o) # <<>>
         /\ \A i \in DOMAIN Append(q, o) :
              \/ i \in DOMAIN q /\ Append(q, o)[i] = q[i]
              \/ i \notin DOMAIN q /\ i = Len(q) + 1 /\ Append(q, o)[i] = o
         /\ \A i \in DOMAIN q :
              i \in DOMAIN Append(q, o) /\ Append(q, o)[i] = q[i] /\ i < Len(q) + 1
         /\ Len(q) + 1 \in DOMAIN Append(q, o) /\ Append(q, o)[Len(q) + 1] = o
  BY SMTT(60)

(* The turn takes the first entry: the others move up by one. *)
LEMMA TailEntries ==
  ASSUME NEW S, NEW q \in Seq(S), q # <<>>
  PROVE  /\ Tail(q) \in Seq(S) /\ Head(q) \in S
         /\ 1 \in DOMAIN q /\ Head(q) = q[1] /\ DOMAIN q \subseteq Nat
         /\ \A i \in DOMAIN Tail(q) :
              i \in Nat /\ i + 1 \in DOMAIN q /\ i + 1 > 1 /\ Tail(q)[i] = q[i + 1]
         /\ \A i \in DOMAIN q : i = 1 \/ (i - 1 \in DOMAIN Tail(q) /\ Tail(q)[i - 1] = q[i])
  BY SMTT(60)

-----------------------------------------------------------------------------
(* Steps that do not concern a session *)

(* Nothing of s changes, but that a call or an answer may be gone and that *)
(* an fd may be given to closeFd.                                          *)
Same(s) ==
  /\ phase'[s] = phase[s] /\ fds'[s] = fds[s] /\ kfds'[s] = kfds[s] /\ left'[s] = left[s]
  /\ queue'[s] = queue[s] /\ run'[s] = run[s] /\ attach'[s] = attach[s]
  /\ stage'[s] = stage[s] /\ disk'[s] = disk[s]
  /\ s \in disposed' <=> s \in disposed
  /\ s \in fatal' <=> s \in fatal
  /\ s \in handle' <=> s \in handle
  /\ s \in guarded' <=> s \in guarded
  /\ s \in awaited' <=> s \in awaited
  /\ s \in proxies' <=> s \in proxies
  /\ \A c \in calls' : c.s = s => c \in calls
  /\ \A a \in answers' : a.s = s => a \in answers
  /\ \A f \in kfds[s] : f \in given => f \in given'

(* What is not concerned keeps its invariant. *)
LEMMA OthersKeep ==
  ASSUME NEW s \in Sessions, Own(s), Same(s)
  PROVE  Own(s)'
  <1>1. Fresh(s)'
    BY DEF Own, Fresh, Same
  <1>2. Turns(s)'
    BY DEF Own, Turns, Same, Idle
  <1>3. UnderWay(s)'
    BY DEF Own, UnderWay, Matches, Same
  <1>4. QueueFds(s)' /\ Books(s)'
    BY DEF Own, QueueFds, Books, Same
  <1>5. CallFds(s)'
    BY DEF Own, CallFds, Same
  <1>6. AnswerFds(s)'
    BY SMTT(60) DEF Own, AnswerFds, Same
  <1>7. Attachment(s)'
    BY DEF Own, Attachment, Queued, Same
  <1>8. DiskState(s)' /\ DiskCalls(s)'
    BY DEF Own, DiskState, DiskCalls, Same
  <1> QED
    BY <1>1, <1>2, <1>3, <1>4, <1>5, <1>6, <1>7, <1>8 DEF Own

(* A step of s that opens no fd: it is enough to look at s. *)
LEMMA OneConcerned ==
  ASSUME SessionInv, NEW s \in Sessions, Shape', Own(s)',
         \A t \in Sessions \ {s} : Same(t), kfds'[s] \subseteq kfds[s]
  PROVE  SessionInv'
  <1>1. Disjoint'
    BY DEF SessionInv, Disjoint, Same
  <1>2. \A t \in Sessions \ {s} : Own(t)'
    BY OthersKeep DEF SessionInv
  <1> QED
    BY <1>1, <1>2 DEF SessionInv

-----------------------------------------------------------------------------
(* The first state *)

(* The invariant of the sessions holds at the start. *)
LEMMA InitInv == Init => SessionInv
  <1> SUFFICES ASSUME Init PROVE SessionInv
    OBVIOUS
  <1>1. Shape
    BY SMTT(60) DEF Init, Shape, None, Op
  <1>2. Disjoint
    BY DEF Init, Disjoint
  <1>3. ASSUME NEW s \in Sessions PROVE Own(s)
    <2>1. Fresh(s) /\ Turns(s) /\ UnderWay(s)
      BY DEF Init, Fresh, Turns, UnderWay, Idle, None, Op
    <2>2. QueueFds(s) /\ Books(s) /\ CallFds(s) /\ AnswerFds(s)
      BY SMTT(60) DEF Init, QueueFds, Books, CallFds, AnswerFds
    <2>3. Attachment(s) /\ DiskState(s) /\ DiskCalls(s)
      BY SMTT(60) DEF Init, Attachment, Queued, DiskState, DiskCalls, None, Op, Attaches
    <2> QED
      BY <2>1, <2>2, <2>3 DEF Own
  <1> QED
    BY <1>1, <1>2, <1>3 DEF SessionInv

-----------------------------------------------------------------------------
(* The application calls *)

(* What serialize does to the queue of s. *)
Enqueued(s, o) ==
  /\ queue' \in [Sessions -> Seq(Entry)]
  /\ \A t \in Sessions \ {s} : queue'[t] = queue[t]
  /\ \A i \in DOMAIN queue'[s] :
       \/ i \in DOMAIN queue[s] /\ queue'[s][i] = queue[s][i]
       \/ i \notin DOMAIN queue[s] /\ i = Len(queue[s]) + 1 /\ queue'[s][i] = o
  /\ \A i \in DOMAIN queue[s] :
       i \in DOMAIN queue'[s] /\ queue'[s][i] = queue[s][i] /\ i < Len(queue[s]) + 1
  /\ \E i \in DOMAIN queue'[s] : queue'[s][i] = o

(* serialize puts the operation at the end of the queue of a session that  *)
(* is not disposed.                                                        *)
LEMMA SerializeFacts ==
  ASSUME Shape, NEW s \in Sessions, NEW kind \in Kinds, NEW f \in Fds \cup {NoFd},
         Serialize(s, kind, f)
  PROVE  Enqueued(s, Op(kind, f)) /\ s \notin disposed
  <1> DEFINE o == Op(kind, f)
  <1>1. o \in Entry
    BY DEF Op, Entry
  <1>2. queue[s] \in Seq(Entry) /\ queue' = [queue EXCEPT ![s] = Append(queue[s], o)]
    BY DEF Shape, Serialize
  <1> HIDE DEF o
  <1>3. queue'[s] = Append(queue[s], o) /\ \A t \in Sessions \ {s} : queue'[t] = queue[t]
    BY <1>2 DEF Shape
  <1>4. queue' \in [Sessions -> Seq(Entry)]
    BY <1>1, <1>2, AppendEntries, SMTT(60) DEF Shape
  <1>5. Enqueued(s, o)
    BY <1>1, <1>2, <1>3, <1>4, AppendEntries, SMTT(60) DEF Enqueued
  <1> QED
    BY <1>5 DEF o, Serialize

(* An operation that joins the queue uses no fd, or one of this.fds: not one *)
(* whose open or close is under way.                                         *)
LEMMA EnqueuedFds ==
  ASSUME Shape, NEW s \in Sessions, NEW o, Own(s), Enqueued(s, o), stage[s] = "open",
         UNCHANGED <<fatal, kfds, calls, answers, left>>,
         o.fd \in fds[s] \cup {NoFd}, fds'[s] \subseteq fds[s],
         fds[s] \subseteq fds'[s] \cup given', given \subseteq given',
         o.kind = "close" => o.fd \in fds[s] \ fds'[s]
  PROVE  QueueFds(s)' /\ CallFds(s)' /\ AnswerFds(s)'
  <1>1. /\ QueueFds(s) /\ CallFds(s) /\ AnswerFds(s)
        /\ s \notin fatal => fds[s] \subseteq kfds[s]
    BY DEF Own, Books
  <1>2. \A i \in DOMAIN queue'[s] :
          \/ i \in DOMAIN queue[s] /\ queue'[s][i] = queue[s][i]
          \/ queue'[s][i] = o
    BY DEF Enqueued
  <1>3. ~(o.fd \in kfds[s] \ fds[s])
    BY NativeAssumption DEF Shape
  <1>4. \A x : x \in kfds[s] => x # NoFd
    BY NativeAssumption DEF Shape
  <1>5. CallFds(s)'
    <2> SUFFICES ASSUME NEW c \in calls, c.s = s
                 PROVE  /\ c.fd # NoFd => c.fd \in kfds[s]
                        /\ c.kind \in {"close", "drop"} => c.fd \in Fds
                        /\ s \notin fatal =>
                             /\ c.kind = "open" => kfds[s] \subseteq fds'[s] \cup given'
                             /\ c.kind = "close" =>
                                  /\ c.fd \notin fds'[s]
                                  /\ \A i \in DOMAIN queue'[s] : queue'[s][i].fd # c.fd
                             /\ c.kind = "drop" =>
                                  /\ c.fd \notin left[s]
                                  /\ kfds[s] \subseteq left[s] \cup given' \cup {c.fd}
                        /\ c.kind = "disk" => kfds[s] \subseteq given'
      BY DEF CallFds
    <2>1. /\ c.fd # NoFd => c.fd \in kfds[s]
          /\ c.kind \in {"close", "drop"} => c.fd \in Fds
          /\ c.kind = "disk" => kfds[s] \subseteq given'
      BY <1>1 DEF CallFds
    <2>2. ASSUME s \notin fatal, c.kind = "open" PROVE kfds[s] \subseteq fds'[s] \cup given'
      BY <1>1, <2>2 DEF CallFds
    <2>3. ASSUME s \notin fatal, c.kind = "close"
          PROVE  c.fd \notin fds'[s] /\ \A i \in DOMAIN queue'[s] : queue'[s][i].fd # c.fd
      <3>1. c.fd \notin fds[s] /\ \A i \in DOMAIN queue[s] : queue[s][i].fd # c.fd
        BY <1>1, <2>3 DEF CallFds
      <3>2. c.fd \in kfds[s]
        BY <2>1, <2>3, NativeAssumption
      <3> QED
        BY <1>2, <1>3, <3>1, <3>2
    <2>4. ASSUME s \notin fatal, c.kind = "drop"
          PROVE  c.fd \notin left[s] /\ kfds[s] \subseteq left[s] \cup given' \cup {c.fd}
      BY <1>1, <2>4 DEF CallFds
    <2> QED
      BY <2>1, <2>2, <2>3, <2>4
  <1>6. AnswerFds(s)'
    <2> SUFFICES ASSUME s \notin fatal, NEW a \in answers, a.s = s
                 PROVE  /\ a.kind = "open" /\ ~a.ok => kfds[s] \subseteq fds'[s] \cup given'
                        /\ a.kind = "open" /\ a.ok =>
                             /\ a.fd \in kfds[s] \ fds'[s]
                             /\ kfds[s] \subseteq fds'[s] \cup given' \cup {a.fd}
                             /\ \A i \in DOMAIN queue'[s] : queue'[s][i].fd # a.fd
                        /\ a.kind = "drop" => kfds[s] \subseteq left[s] \cup given'
      BY DEF AnswerFds
    <2>1. ASSUME a.kind = "open", ~a.ok PROVE kfds[s] \subseteq fds'[s] \cup given'
      BY <1>1, <2>1 DEF AnswerFds
    <2>2. ASSUME a.kind = "open", a.ok
          PROVE  /\ a.fd \in kfds[s] \ fds'[s]
                 /\ kfds[s] \subseteq fds'[s] \cup given' \cup {a.fd}
                 /\ \A i \in DOMAIN queue'[s] : queue'[s][i].fd # a.fd
      <3>1. /\ a.fd \in kfds[s] \ fds[s] /\ kfds[s] \subseteq fds[s] \cup given \cup {a.fd}
            /\ \A i \in DOMAIN queue[s] : queue[s][i].fd # a.fd
        BY <1>1, <2>2 DEF AnswerFds
      <3>2. \A i \in DOMAIN queue'[s] : queue'[s][i].fd # a.fd
        BY <1>2, <1>3, <3>1
      <3> QED
        BY <3>1, <3>2
    <2>3. ASSUME a.kind = "drop" PROVE kfds[s] \subseteq left[s] \cup given'
      BY <1>1, <2>3 DEF AnswerFds
    <2> QED
      BY <2>1, <2>2, <2>3
  <1>7. QueueFds(s)'
    <2> SUFFICES ASSUME s \notin fatal, NEW i \in DOMAIN queue'[s]
                 PROVE  /\ queue'[s][i].fd # NoFd => queue'[s][i].fd \in kfds[s]
                        /\ queue'[s][i].kind = "close" =>
                             /\ queue'[s][i].fd \in kfds[s] \ fds'[s]
                             /\ \A j \in DOMAIN queue'[s] :
                                  j > i => queue'[s][j].fd # queue'[s][i].fd
      BY DEF QueueFds
    <2>1. CASE i \in DOMAIN queue[s] /\ queue'[s][i] = queue[s][i]
      <3>1. /\ queue[s][i].fd # NoFd => queue[s][i].fd \in kfds[s]
            /\ queue[s][i].kind = "close" =>
                 /\ queue[s][i].fd \in kfds[s] \ fds[s]
                 /\ \A j \in DOMAIN queue[s] : j > i => queue[s][j].fd # queue[s][i].fd
        BY <1>1, <2>1 DEF QueueFds
      <3>2. ASSUME queue[s][i].kind = "close", NEW j \in DOMAIN queue'[s], j > i
            PROVE  queue'[s][j].fd # queue[s][i].fd
        BY <1>2, <1>3, <3>1, <3>2
      <3> QED
        BY <2>1, <3>1, <3>2
    <2>2. CASE ~(i \in DOMAIN queue[s] /\ queue'[s][i] = queue[s][i])
      <3>1. queue'[s][i] = o /\ i = Len(queue[s]) + 1
        BY <2>2 DEF Enqueued
      <3>2. \A j \in DOMAIN queue'[s] : ~(j > i)
        <4>1. queue[s] \in Seq(Entry)
          BY DEF Shape
        <4>2. DOMAIN queue[s] = 1..Len(queue[s]) /\ Len(queue[s]) \in Nat
          BY <4>1, SMTT(60)
        <4>3. \A l \in Nat : ~(l + 1 > l + 1) /\ \A j \in 1..l : ~(j > l + 1)
          BY SMTT(60)
        <4>4. \A j \in DOMAIN queue'[s] : j \in DOMAIN queue[s] \/ j = Len(queue[s]) + 1
          BY DEF Enqueued
        <4> QED
          BY <3>1, <4>2, <4>3, <4>4
      <3> QED
        BY <1>1, <3>1, <3>2
    <2> QED
      BY <2>1, <2>2
  <1> QED
    BY <1>5, <1>6, <1>7

(* The operations enter, listParts, meta, readdir, stat, readlink, realpath *)
(* and pread, and openFd.                                                   *)
LEMMA CallOpKeeps ==
  ASSUME SessionInv, NEW s \in Sessions, NEW kind \in {"op", "open"},
         NEW f \in fds[s] \cup {NoFd}, kind = "open" => f = NoFd, CallOp(s, kind, f)
  PROVE  SessionInv'
  <1> DEFINE o == Op(kind, f)
  <1>1. /\ Shape /\ Own(s) /\ s \in handle /\ f \in Fds \cup {NoFd}
        /\ kind \in Kinds \ (Attaches \cup {"close"}) /\ Serialize(s, kind, f)
    BY DEF SessionInv, CallOp, Shape, Kinds, Attaches
  <1>2. o.kind = kind /\ o.fd = f /\ Enqueued(s, o) /\ s \notin disposed
    BY <1>1, SerializeFacts DEF Op
  <1> HIDE DEF o
  <1>3. phase[s] = "ready" /\ stage[s] = "open"
    BY <1>1, <1>2 DEF Own, Fresh, Turns
  <1>4. UNCHANGED <<phase, disposed, fatal, handle, proxyId, fds, attach, run, guarded,
                    stage, left, awaited, calls, answers, disk, kfds, proxies, given>>
    BY DEF CallOp, closing, bridge, addon
  <1>5. Shape'
    BY <1>1, <1>2, <1>4 DEF Shape, Enqueued
  <1>6. \A t \in Sessions \ {s} : Same(t)
    BY <1>2, <1>4 DEF Same, Enqueued
  <1>7. NoFd \notin Fds /\ kfds[s] \subseteq Fds
    BY <1>1, NativeAssumption DEF Shape
  <1>8. Own(s)'
    <2>1. Fresh(s)' /\ Turns(s)' /\ UnderWay(s)'
      BY <1>1, <1>3, <1>4 DEF Own, Fresh, Turns, UnderWay, Matches
    <2>2. QueueFds(s)' /\ CallFds(s)' /\ AnswerFds(s)'
      BY <1>1, <1>2, <1>3, <1>4, <1>7, EnqueuedFds
    <2>3. Books(s)'
      BY <1>1, <1>2, <1>3, <1>4, <1>7 DEF Own, Books
    <2>4. Attachment(s)'
      BY <1>1, <1>2, <1>4 DEF Own, Attachment, Queued, Attaches, Enqueued
    <2>5. DiskState(s)' /\ DiskCalls(s)'
      BY <1>1, <1>4 DEF Own, DiskState, DiskCalls
    <2> QED
      BY <2>1, <2>2, <2>3, <2>4, <2>5 DEF Own
  <1> QED
    BY <1>4, <1>5, <1>6, <1>8, OneConcerned

(* closeFd *)
LEMMA CloseFdSafe ==
  ASSUME SessionInv, NEW s \in Sessions, NEW f \in fds[s], CloseFd(s, f)
  PROVE  SessionInv'
  <1> DEFINE o == Op("close", f)
  <1>1. Shape /\ Own(s) /\ f \in Fds /\ "close" \in Kinds \ Attaches /\ Serialize(s, "close", f)
    BY DEF SessionInv, CloseFd, CloseFdWith, Shape, Kinds, Attaches
  <1>2. o.kind = "close" /\ o.fd = f /\ Enqueued(s, o) /\ s \notin disposed
    BY <1>1, SerializeFacts DEF Op
  <1> HIDE DEF o
  <1>3. phase[s] = "ready" /\ stage[s] = "open"
    BY <1>1, <1>2 DEF Own, Fresh, Turns
  <1>4. /\ UNCHANGED <<phase, disposed, fatal, handle, proxyId, attach, run, guarded,
                       stage, left, awaited, calls, answers, disk, kfds, proxies>>
        /\ fds' = [fds EXCEPT ![s] = fds[s] \ {f}] /\ given' = given \cup {f}
    BY DEF CloseFd, CloseFdWith, closing, bridge, addon
  <1>5. Shape'
    BY <1>1, <1>2, <1>4 DEF Shape, Enqueued
  <1>6. \A t \in Sessions \ {s} : Same(t)
    BY <1>1, <1>2, <1>4 DEF Same, Enqueued, Shape
  <1>7. NoFd \notin Fds /\ kfds[s] \subseteq Fds /\ fds'[s] = fds[s] \ {f}
    BY <1>1, <1>4, NativeAssumption DEF Shape
  <1>8. Own(s)'
    <2>1. Fresh(s)' /\ Turns(s)' /\ UnderWay(s)'
      BY <1>1, <1>3, <1>4 DEF Own, Fresh, Turns, UnderWay, Matches
    <2>2. QueueFds(s)' /\ CallFds(s)' /\ AnswerFds(s)'
      <3>1. /\ fds'[s] \subseteq fds[s] /\ fds[s] \subseteq fds'[s] \cup given'
            /\ given \subseteq given' /\ f \in fds[s] \ fds'[s]
        BY <1>4, <1>7
      <3> QED
        BY <1>1, <1>2, <1>3, <1>4, <3>1, EnqueuedFds
    <2>3. Books(s)'
      BY <1>1, <1>3, <1>4, <1>7 DEF Own, Books
    <2>4. Attachment(s)'
      BY <1>1, <1>2, <1>4 DEF Own, Attachment, Queued, Attaches, Enqueued
    <2>5. DiskState(s)' /\ DiskCalls(s)'
      BY <1>1, <1>4 DEF Own, DiskState, DiskCalls
    <2> QED
      BY <2>1, <2>2, <2>3, <2>4, <2>5 DEF Own
  <1>9. kfds'[s] \subseteq kfds[s]
    BY <1>4
  <1> QED
    BY <1>5, <1>6, <1>8, <1>9, OneConcerned

(* attachPath *)
LEMMA AttachPathKeeps ==
  ASSUME SessionInv, NEW s \in Sessions, attachPath(s)
  PROVE  SessionInv'
  <1> DEFINE o == Op("path", NoFd)
  <1>1. /\ Shape /\ Own(s) /\ "path" \in Kinds /\ NoFd \in Fds \cup {NoFd}
        /\ Serialize(s, "path", NoFd) /\ phase[s] = "ready" /\ s \notin handle /\ ~Attaching(s)
    BY DEF SessionInv, attachPath, MayAttach, Kinds, Attaches
  <1>2. o.kind = "path" /\ o.fd = NoFd /\ Enqueued(s, o) /\ s \notin disposed
    BY <1>1, SerializeFacts DEF Op
  <1> HIDE DEF o
  <1>3. stage[s] = "open"
    BY <1>1, <1>2 DEF Own, Turns
  <1>4. UNCHANGED <<phase, disposed, fatal, handle, proxyId, fds, attach, run, guarded,
                    stage, left, awaited, calls, answers, disk, kfds, proxies, given>>
    BY DEF attachPath, closing, bridge, addon
  <1>5. Shape'
    BY <1>1, <1>2, <1>4 DEF Shape, Enqueued
  <1>6. \A t \in Sessions \ {s} : Same(t)
    BY <1>2, <1>4 DEF Same, Enqueued
  <1>7. NoFd \notin Fds /\ kfds[s] \subseteq Fds
    BY <1>1, NativeAssumption DEF Shape
  <1>8. Own(s)'
    <2>1. Fresh(s)' /\ Turns(s)' /\ UnderWay(s)'
      BY <1>1, <1>3, <1>4 DEF Own, Fresh, Turns, UnderWay, Matches
    <2>2. QueueFds(s)' /\ CallFds(s)' /\ AnswerFds(s)'
      BY <1>1, <1>2, <1>3, <1>4, <1>7, EnqueuedFds
    <2>3. Books(s)'
      BY <1>1, <1>2, <1>3, <1>4, <1>7 DEF Own, Books
    <2>4. Attachment(s)'
      BY <1>1, <1>2, <1>4 DEF Own, Attachment, Queued, Attaches, Enqueued, Attaching
    <2>5. DiskState(s)' /\ DiskCalls(s)'
      BY <1>1, <1>4 DEF Own, DiskState, DiskCalls
    <2> QED
      BY <2>1, <2>2, <2>3, <2>4, <2>5 DEF Own
  <1> QED
    BY <1>4, <1>5, <1>6, <1>8, OneConcerned

(* attachUrl, up to startProxy *)
LEMMA AttachUrlKeeps ==
  ASSUME SessionInv, NEW s \in Sessions, attachUrl(s)
  PROVE  SessionInv'
  <1>1. Shape /\ Own(s) /\ phase[s] = "ready" /\ s \notin handle \cup disposed /\ ~Attaching(s)
    BY DEF SessionInv, attachUrl, MayAttach
  <1>2. /\ UNCHANGED <<phase, disposed, fatal, handle, proxyId, fds, queue, run, guarded,
                       stage, left, awaited, calls, answers, disk, kfds, proxies, given>>
        /\ attach' = [attach EXCEPT ![s] = "starting"]
    BY DEF attachUrl, ops, closing, bridge, addon
  <1>3. stage[s] = "open" /\ attach'[s] = "starting"
    BY <1>1, <1>2 DEF Own, Turns, Shape
  <1>4. Shape' /\ kfds'[s] \subseteq kfds[s]
    BY <1>1, <1>2 DEF Shape
  <1>5. \A t \in Sessions \ {s} : Same(t)
    BY <1>1, <1>2 DEF Same, Shape
  <1>6. Own(s)'
    <2>1. Fresh(s)' /\ Turns(s)' /\ UnderWay(s)'
      BY <1>1, <1>2 DEF Own, Fresh, Turns, UnderWay, Matches, Idle
    <2>2. QueueFds(s)' /\ Books(s)' /\ CallFds(s)' /\ AnswerFds(s)'
      BY <1>1, <1>2 DEF Own, QueueFds, Books, CallFds, AnswerFds
    <2>3. Attachment(s)'
      BY <1>1, <1>2, <1>3 DEF Own, Attachment, Queued, Attaches, Attaching
    <2>4. DiskState(s)' /\ DiskCalls(s)'
      BY <1>1, <1>2, <1>3 DEF Own, DiskState, DiskCalls
    <2> QED
      BY <2>1, <2>2, <2>3, <2>4 DEF Own
  <1> QED
    BY <1>4, <1>5, <1>6, OneConcerned

(* attachUrl, when startProxy answers *)
LEMMA ProxyStartedKeeps ==
  ASSUME SessionInv, NEW s \in Sessions, ProxyStarted(s)
  PROVE  SessionInv'
  <1>1. Shape /\ Own(s) /\ attach[s] = "starting"
    BY DEF SessionInv, ProxyStarted
  <1>2. UNCHANGED <<phase, disposed, fatal, handle, fds, run, guarded, stage, left, awaited,
                    calls, answers, disk, kfds, given>>
    BY DEF ProxyStarted, closing, bridge, addon
  <1>3. /\ phase[s] = "ready" /\ s \notin handle /\ run[s].kind \notin Attaches
        /\ ~Queued(s, Attaches)
    BY <1>1 DEF Own, Fresh, Attachment, Queued, Attaches
  <1>4. s \notin fatal => disk[s] = "none"
    BY <1>1, <1>3 DEF Own, DiskState
  <1>5. kfds'[s] \subseteq kfds[s]
    BY <1>2
  <1>6. ASSUME attach' = [attach EXCEPT ![s] = "idle"], UNCHANGED <<proxies, proxyId, queue>>
        PROVE  SessionInv'
    <2>1. Shape' /\ attach'[s] = "idle"
      BY <1>1, <1>2, <1>6 DEF Shape
    <2>2. \A t \in Sessions \ {s} : Same(t)
      BY <1>1, <1>2, <1>6 DEF Same, Shape
    <2>3. Fresh(s)' /\ Turns(s)' /\ UnderWay(s)'
      BY <1>1, <1>2, <1>3, <1>6 DEF Own, Fresh, Turns, UnderWay, Matches, Idle
    <2>4. QueueFds(s)' /\ Books(s)' /\ CallFds(s)' /\ AnswerFds(s)'
      BY <1>1, <1>2, <1>6 DEF Own, QueueFds, Books, CallFds, AnswerFds
    <2>5. Attachment(s)'
      BY <1>1, <1>2, <1>3, <1>6, <2>1 DEF Own, Attachment, Queued, Attaches
    <2>6. DiskState(s)' /\ DiskCalls(s)'
      BY <1>1, <1>2, <1>4, <1>6, <2>1 DEF Own, DiskState, DiskCalls
    <2> QED
      BY <1>5, <2>1, <2>2, <2>3, <2>4, <2>5, <2>6, OneConcerned DEF Own
  <1>7. ASSUME proxies' = proxies \cup {s}, proxyId' = proxyId \cup {s}, s \in disposed,
               attach' = [attach EXCEPT ![s] = "stopping"], UNCHANGED queue
        PROVE  SessionInv'
    <2>1. Shape' /\ attach'[s] = "stopping"
      BY <1>1, <1>2, <1>7 DEF Shape
    <2>2. \A t \in Sessions \ {s} : Same(t)
      BY <1>1, <1>2, <1>7 DEF Same, Shape
    <2>3. Fresh(s)' /\ Turns(s)' /\ UnderWay(s)'
      BY <1>1, <1>2, <1>3, <1>7 DEF Own, Fresh, Turns, UnderWay, Matches, Idle
    <2>4. QueueFds(s)' /\ Books(s)' /\ CallFds(s)' /\ AnswerFds(s)'
      BY <1>1, <1>2, <1>7 DEF Own, QueueFds, Books, CallFds, AnswerFds
    <2>5. Attachment(s)'
      BY <1>1, <1>2, <1>3, <1>7, <2>1 DEF Own, Attachment, Queued, Attaches
    <2>6. DiskState(s)' /\ DiskCalls(s)'
      BY <1>1, <1>2, <1>4, <1>7, <2>1 DEF Own, DiskState, DiskCalls
    <2> QED
      BY <1>5, <2>1, <2>2, <2>3, <2>4, <2>5, <2>6, OneConcerned DEF Own
  <1>8. ASSUME proxies' = proxies \cup {s}, proxyId' = proxyId \cup {s},
               attach' = [attach EXCEPT ![s] = "opening"], Serialize(s, "url", NoFd)
        PROVE  SessionInv'
    <2> DEFINE o == Op("url", NoFd)
    <2>1. "url" \in Kinds /\ NoFd \in Fds \cup {NoFd}
      BY DEF Kinds, Attaches
    <2>2. o.kind = "url" /\ o.fd = NoFd /\ Enqueued(s, o) /\ s \notin disposed
      BY <1>1, <1>8, <2>1, SerializeFacts DEF Op
    <2> HIDE DEF o
    <2>3. Shape' /\ attach'[s] = "opening" /\ stage[s] = "open" /\ s \in proxies'
      BY <1>1, <1>2, <1>8, <2>2 DEF Shape, Enqueued, Own, Turns
    <2>4. \A t \in Sessions \ {s} : Same(t)
      BY <1>1, <1>2, <1>8, <2>2 DEF Same, Shape, Enqueued
    <2>5. NoFd \notin Fds /\ kfds[s] \subseteq Fds
      BY <1>1, NativeAssumption DEF Shape
    <2>6. Fresh(s)' /\ Turns(s)' /\ UnderWay(s)'
      BY <1>1, <1>2, <1>3, <2>3 DEF Own, Fresh, Turns, UnderWay, Matches
    <2>7. QueueFds(s)' /\ CallFds(s)' /\ AnswerFds(s)'
      BY <1>1, <1>2, <2>2, <2>3, <2>5, EnqueuedFds
    <2>8. Books(s)'
      BY <1>1, <1>2, <2>2, <2>3, <2>5 DEF Own, Books
    <2>9. Attachment(s)'
      BY <1>1, <1>2, <1>3, <2>2, <2>3 DEF Own, Attachment, Queued, Attaches, Enqueued
    <2>10. DiskState(s)' /\ DiskCalls(s)'
      BY <1>1, <1>2, <1>4, <2>3 DEF Own, DiskState, DiskCalls
    <2> QED
      BY <1>5, <2>3, <2>4, <2>6, <2>7, <2>8, <2>9, <2>10, OneConcerned DEF Own
  <1> QED
    BY <1>6, <1>7, <1>8 DEF ProxyStarted

(* attachUrl, when stopProxy answers after a failure *)
LEMMA AttachStoppedKeeps ==
  ASSUME SessionInv, NEW s \in Sessions, AttachStopped(s)
  PROVE  SessionInv'
  <1>1. Shape /\ Own(s) /\ attach[s] = "stopping"
    BY DEF SessionInv, AttachStopped
  <1>2. /\ UNCHANGED <<phase, disposed, fatal, handle, fds, queue, run, guarded, stage, left,
                       awaited, calls, answers, disk, kfds, given>>
        /\ attach' = [attach EXCEPT ![s] = "idle"]
        /\ proxies' = proxies \ {s}
        /\ proxyId' = proxyId \ {s} \/ proxyId' = proxyId
    BY DEF AttachStopped, ops, closing, bridge, addon
  <1>3. /\ phase[s] = "ready" /\ s \notin handle /\ run[s].kind \notin Attaches
        /\ ~Queued(s, Attaches)
    BY <1>1 DEF Own, Fresh, Attachment, Queued, Attaches
  <1>4. s \notin fatal => disk[s] = "none"
    BY <1>1, <1>3 DEF Own, DiskState
  <1>5. Shape' /\ attach'[s] = "idle" /\ kfds'[s] \subseteq kfds[s]
    BY <1>1, <1>2 DEF Shape
  <1>6. \A t \in Sessions \ {s} : Same(t)
    BY <1>1, <1>2 DEF Same, Shape
  <1>7. Fresh(s)' /\ Turns(s)' /\ UnderWay(s)'
    BY <1>1, <1>2, <1>3 DEF Own, Fresh, Turns, UnderWay, Matches, Idle
  <1>8. QueueFds(s)' /\ Books(s)' /\ CallFds(s)' /\ AnswerFds(s)'
    BY <1>1, <1>2 DEF Own, QueueFds, Books, CallFds, AnswerFds
  <1>9. Attachment(s)'
    BY <1>1, <1>2, <1>3, <1>5 DEF Own, Attachment, Queued, Attaches
  <1>10. DiskState(s)' /\ DiskCalls(s)'
    BY <1>1, <1>2, <1>4, <1>5 DEF Own, DiskState, DiskCalls
  <1> QED
    BY <1>5, <1>6, <1>7, <1>8, <1>9, <1>10, OneConcerned DEF Own

(* close *)
LEMMA CloseKeeps ==
  ASSUME SessionInv, NEW s \in Sessions, Close(s)
  PROVE  SessionInv'
  <1>1. Shape /\ Own(s) /\ phase[s] # "new" /\ s \notin disposed
    BY DEF SessionInv, Close
  <1>2. /\ UNCHANGED <<phase, fatal, handle, proxyId, fds, attach, queue, run, guarded, left,
                       awaited, calls, answers, disk, kfds, proxies, given>>
        /\ disposed' = disposed \cup {s} /\ stage' = [stage EXCEPT ![s] = "idle"]
    BY DEF Close, ops, bridge, addon
  <1>3. stage[s] = "open" /\ stage'[s] = "idle"
    BY <1>1, <1>2 DEF Own, Turns, Shape
  <1>4. Shape' /\ kfds'[s] \subseteq kfds[s]
    BY <1>1, <1>2 DEF Shape
  <1>5. \A t \in Sessions \ {s} : Same(t)
    BY <1>1, <1>2 DEF Same, Shape
  <1>6. Fresh(s)' /\ Turns(s)' /\ UnderWay(s)'
    BY <1>1, <1>2, <1>3 DEF Own, Fresh, Turns, UnderWay, Matches
  <1>7. QueueFds(s)' /\ Books(s)' /\ CallFds(s)' /\ AnswerFds(s)'
    BY <1>1, <1>2, <1>3 DEF Own, QueueFds, Books, CallFds, AnswerFds
  <1>8. Attachment(s)' /\ DiskState(s)' /\ DiskCalls(s)'
    BY <1>1, <1>2, <1>3 DEF Own, Attachment, Queued, DiskState, DiskCalls
  <1> QED
    BY <1>4, <1>5, <1>6, <1>7, <1>8, OneConcerned DEF Own

(* The constructor and boot *)
LEMMA CreateKeeps ==
  ASSUME SessionInv, NEW s \in Sessions, Create(s)
  PROVE  SessionInv'
  <1> DEFINE c0 == Call(s, "init", NoFd)
  <1>1. Shape /\ Own(s) /\ phase[s] = "new"
    BY DEF SessionInv, Create
  <1>2. UNCHANGED <<disposed, handle, proxyId, fds, attach, queue, run, guarded, stage, left,
                    awaited, answers, disk, kfds, proxies, given>>
    BY DEF Create, ops, closing, addon
  <1>3. /\ fatal' \in {fatal, fatal \cup {s}} /\ calls' \in {calls, calls \cup {c0}}
        /\ phase' \in {[phase EXCEPT ![s] = p] : p \in {"failed", "ready", "init"}}
        /\ calls' # calls => phase'[s] = "init"
    BY <1>1 DEF Create, Shape
  <1>4. /\ c0 \in [s : Sessions, kind : CallKinds, fd : Fds \cup {NoFd}]
        /\ c0.s = s /\ c0.kind = "init" /\ c0.fd = NoFd
    BY DEF Call, CallKinds
  <1> HIDE DEF c0
  <1>5. /\ phase'[s] \in {"failed", "ready", "init"}
        /\ \A t \in Sessions \ {s} : phase'[t] = phase[t]
        /\ phase' \in [Sessions -> {"new", "init", "ready", "failed"}]
    BY <1>1, <1>3 DEF Shape
  <1>6. Shape' /\ kfds'[s] \subseteq kfds[s]
    BY <1>1, <1>2, <1>3, <1>4, <1>5 DEF Shape
  <1>7. \A t \in Sessions \ {s} : Same(t)
    BY <1>2, <1>3, <1>4, <1>5 DEF Same
  <1>8. /\ queue[s] = <<>> /\ run[s] = None /\ attach[s] = "idle" /\ None.kind = "none"
        /\ s \notin handle \cup proxies \cup guarded \cup awaited \cup disposed
        /\ fds[s] = {} /\ kfds[s] = {} /\ left[s] = {} /\ disk[s] = "none" /\ stage[s] = "open"
    BY <1>1 DEF Own, Fresh, Turns, None, Op
  <1>9. \A x \in calls \cup answers : x.s # s
    BY <1>1 DEF Own, UnderWay, Matches
  <1>10. Fresh(s)' /\ Turns(s)'
    BY <1>2, <1>5, <1>8 DEF Fresh, Turns
  <1>11. UnderWay(s)'
    BY <1>2, <1>3, <1>4, <1>9 DEF UnderWay, Matches, Kinds, Attaches
  <1>12. QueueFds(s)' /\ Books(s)' /\ AnswerFds(s)'
    <2>1. QueueFds(s)'
      BY <1>2, <1>8, <1>9, SMTT(60) DEF QueueFds
    <2>2. Books(s)'
      BY <1>2, <1>8, <1>9 DEF Books
    <2>3. AnswerFds(s)'
      BY <1>2, <1>8, <1>9 DEF AnswerFds
    <2> QED
      BY <2>1, <2>2, <2>3
  <1>13. CallFds(s)'
    BY <1>2, <1>3, <1>4, <1>9 DEF CallFds
  <1>14. Attachment(s)' /\ DiskState(s)' /\ DiskCalls(s)'
    BY <1>2, <1>3, <1>4, <1>8, <1>9, SMTT(60)
       DEF Attachment, Queued, DiskState, DiskCalls, Attaches
  <1> QED
    BY <1>6, <1>7, <1>10, <1>11, <1>12, <1>13, <1>14, OneConcerned DEF Own

-----------------------------------------------------------------------------
(* The turn of an operation *)

(* What a turn does to the queue of s. *)
Dequeued(s) ==
  /\ queue' \in [Sessions -> Seq(Entry)]
  /\ \A t \in Sessions \ {s} : queue'[t] = queue[t]
  /\ 1 \in DOMAIN queue[s] /\ DOMAIN queue[s] \subseteq Nat
  /\ \A i \in DOMAIN queue'[s] :
       i \in Nat /\ i + 1 \in DOMAIN queue[s] /\ i + 1 > 1 /\ queue'[s][i] = queue[s][i + 1]
  /\ \A i \in DOMAIN queue[s] :
       i = 1 \/ (i - 1 \in DOMAIN queue'[s] /\ queue'[s][i - 1] = queue[s][i])

(* An operation begins when no other of its session is under way. *)
LEMMA TurnFacts ==
  ASSUME SessionInv, NEW s \in Sessions, Turn(s)
  PROVE  /\ Shape /\ Own(s) /\ Dequeued(s)
         /\ run[s] = None /\ None.kind = "none" /\ None \notin Entry
         /\ Head(queue[s]) = queue[s][1] /\ queue[s][1] \in Entry
         /\ phase[s] = "ready" /\ ~Idle(s) /\ s \notin guarded
  <1>1. /\ Shape /\ Own(s) /\ queue[s] \in Seq(Entry) /\ queue[s] # <<>> /\ run[s] = None
        /\ queue' = [queue EXCEPT ![s] = Tail(queue[s])]
    BY DEF SessionInv, Turn, TurnWith, Shape
  <1>2. queue'[s] = Tail(queue[s]) /\ \A t \in Sessions \ {s} : queue'[t] = queue[t]
    BY <1>1 DEF Shape
  <1>3. /\ queue' \in [Sessions -> Seq(Entry)]
        /\ Head(queue[s]) = queue[s][1] /\ queue[s][1] \in Entry
    BY <1>1, TailEntries, SMTT(60) DEF Shape
  <1>4. Dequeued(s)
    BY <1>1, <1>2, <1>3, TailEntries, SMTT(60) DEF Dequeued
  <1>5. None.kind = "none" /\ None \notin Entry /\ "none" \notin Kinds
    BY DEF None, Op, Entry, Kinds, Attaches
  <1>6. phase[s] = "ready" /\ ~Idle(s) /\ s \notin guarded
    BY <1>1, <1>5 DEF Own, Fresh, Turns, Idle
  <1> QED
    BY <1>1, <1>3, <1>4, <1>5, <1>6

(* What is said of the entries of a queue holds of those that move up. *)
LEMMA DequeuedFacts ==
  ASSUME Shape, NEW s \in Sessions, Own(s), Dequeued(s),
         UNCHANGED <<fatal, fds, kfds>>
  PROVE  /\ QueueFds(s)'
         /\ \A K \in {{"url"}, {"path"}, Attaches} :
              /\ Queued(s, K)' => Queued(s, K)
              /\ Queued(s, K) => queue[s][1].kind \in K \/ Queued(s, K)'
         /\ queue[s][1].kind \in Attaches => ~Queued(s, Attaches)'
         /\ \A i, j \in DOMAIN queue'[s] :
              queue'[s][i].kind \in Attaches /\ queue'[s][j].kind \in Attaches => j = i
  <1>1. QueueFds(s)'
    <2> SUFFICES ASSUME s \notin fatal, NEW i \in DOMAIN queue'[s]
                 PROVE  /\ queue'[s][i].fd # NoFd => queue'[s][i].fd \in kfds[s]
                        /\ queue'[s][i].kind = "close" =>
                             /\ queue'[s][i].fd \in kfds[s] \ fds[s]
                             /\ \A j \in DOMAIN queue'[s] :
                                  j > i => queue'[s][j].fd # queue'[s][i].fd
      BY DEF QueueFds
    <2>1. i + 1 \in DOMAIN queue[s] /\ queue'[s][i] = queue[s][i + 1]
      BY DEF Dequeued
    <2>2. ASSUME NEW j \in DOMAIN queue'[s], j > i
          PROVE  j + 1 \in DOMAIN queue[s] /\ queue'[s][j] = queue[s][j + 1] /\ j + 1 > i + 1
      BY <2>2, SMTT(60) DEF Dequeued
    <2> QED
      BY <2>1, <2>2 DEF Own, QueueFds
  <1>2. ASSUME NEW K PROVE Queued(s, K)' => Queued(s, K)
    BY DEF Queued, Dequeued
  <1>3. ASSUME NEW K PROVE Queued(s, K) => queue[s][1].kind \in K \/ Queued(s, K)'
    BY DEF Queued, Dequeued
  <1>4. ASSUME NEW i \in DOMAIN queue'[s], NEW j \in DOMAIN queue'[s],
               queue'[s][i].kind \in Attaches, queue'[s][j].kind \in Attaches
        PROVE  j = i
    <2>1. /\ i + 1 \in DOMAIN queue[s] /\ queue'[s][i] = queue[s][i + 1]
          /\ j + 1 \in DOMAIN queue[s] /\ queue'[s][j] = queue[s][j + 1] /\ i \in Nat /\ j \in Nat
      BY DEF Dequeued
    <2>2. j + 1 = i + 1
      BY <1>4, <2>1 DEF Own, Attachment
    <2> QED
      BY <2>1, <2>2, SMTT(60)
  <1>5. ASSUME queue[s][1].kind \in Attaches PROVE ~Queued(s, Attaches)'
    <2>1. ASSUME NEW i \in DOMAIN queue'[s] PROVE queue'[s][i].kind \notin Attaches
      <3>1. /\ i \in Nat /\ i + 1 \in DOMAIN queue[s] /\ queue'[s][i] = queue[s][i + 1]
            /\ 1 \in DOMAIN queue[s] /\ i + 1 > 1
        BY DEF Dequeued
      <3>2. queue[s][i + 1].kind \in Attaches => i + 1 = 1
        BY <1>5, <3>1 DEF Own, Attachment
      <3> QED
        BY <3>1, <3>2, SMTT(60)
    <2> QED
      BY <2>1 DEF Queued
  <1> QED
    BY <1>1, <1>2, <1>3, <1>4, <1>5

(* serialize refuses it: the session died or was closed. *)
LEMMA TurnRefused ==
  ASSUME SessionInv, NEW s \in Sessions, Turn(s), s \in fatal \cup disposed
  PROVE  SessionInv'
  <1> DEFINE o == queue[s][1]
  <1>1. /\ Shape /\ Own(s) /\ Dequeued(s) /\ run[s] = None /\ None.kind = "none"
        /\ phase[s] = "ready" /\ ~Idle(s) /\ s \notin guarded /\ Head(queue[s]) = o /\ o \in Entry
    BY TurnFacts
  <1>2. /\ UNCHANGED <<phase, disposed, fatal, handle, proxyId, fds, run, guarded, stage, left,
                       awaited, calls, answers, disk, kfds, proxies, given>>
        /\ attach' = IF o.kind # "url" THEN attach ELSE [attach EXCEPT ![s] = "stopping"]
    BY <1>1 DEF Turn, TurnWith, closing, addon
  <1>3. \A t \in Sessions \ {s} : attach'[t] = attach[t]
    BY <1>1, <1>2 DEF Shape
  <1>4. attach'[s] = IF o.kind # "url" THEN attach[s] ELSE "stopping"
    BY <1>1, <1>2 DEF Shape
  <1>5. Shape' /\ kfds'[s] \subseteq kfds[s]
    BY <1>1, <1>2 DEF Shape, Dequeued
  <1>6. \A t \in Sessions \ {s} : Same(t)
    BY <1>1, <1>2, <1>3 DEF Same, Dequeued
  <1>7. Fresh(s)' /\ Turns(s)' /\ UnderWay(s)'
    BY <1>1, <1>2 DEF Own, Fresh, Turns, UnderWay, Matches
  <1>8. QueueFds(s)'
    BY <1>1, <1>2, DequeuedFacts
  <1>9. Books(s)' /\ CallFds(s)' /\ AnswerFds(s)'
    <2>1. Books(s)'
      BY <1>1, <1>2 DEF Own, Dequeued, Books
    <2>2. CallFds(s)'
      BY <1>1, <1>2, SMTT(60) DEF Own, Dequeued, CallFds
    <2>3. AnswerFds(s)'
      BY <1>1, <1>2, SMTT(60) DEF Own, Dequeued, AnswerFds
    <2> QED
      BY <2>1, <2>2, <2>3
  <1>10. Attachment(s)'
    <2>1. /\ \A i, j \in DOMAIN queue'[s] :
               queue'[s][i].kind \in Attaches /\ queue'[s][j].kind \in Attaches => j = i
          /\ Queued(s, {"url"})' => Queued(s, {"url"})
          /\ Queued(s, {"path"})' => Queued(s, {"path"})
          /\ Queued(s, Attaches)' => Queued(s, Attaches)
          /\ Queued(s, {"url"}) => o.kind = "url" \/ Queued(s, {"url"})'
          /\ o.kind \in Attaches => ~Queued(s, Attaches)'
      BY <1>1, <1>2, DequeuedFacts
    <2>2. o.kind = "url" => Queued(s, {"url"})
      BY <1>1 DEF Queued, Dequeued
    <2>3. (Queued(s, {"url"})' \/ Queued(s, {"path"})') => Queued(s, Attaches)'
      BY DEF Queued, Attaches
    <2>4. Queued(s, {"url"}) => Queued(s, Attaches)
      BY DEF Queued, Attaches
    <2>5. run'[s].kind \notin Attaches
      BY <1>1, <1>2 DEF Attaches
    <2> QED
      BY <1>1, <1>2, <1>4, <2>1, <2>2, <2>3, <2>4, <2>5, SMTT(60) DEF Own, Attachment, Attaches
  <1>11. DiskState(s)' /\ DiskCalls(s)'
    BY <1>1, <1>2, <1>4, SMTT(60) DEF Own, DiskState, DiskCalls, Turns
  <1> QED
    BY <1>5, <1>6, <1>7, <1>8, <1>9, <1>10, <1>11, OneConcerned DEF Own

(* The bridge is called. *)
LEMMA TurnAccepted ==
  ASSUME SessionInv, NEW s \in Sessions, Turn(s), s \notin fatal \cup disposed
  PROVE  SessionInv' /\ \A c \in calls' \ calls : c.s \notin fatal'
  <1> DEFINE o == queue[s][1]
             c0 == Call(s, o.kind, o.fd)
  <1>1. /\ Shape /\ Own(s) /\ Dequeued(s) /\ run[s] = None /\ None.kind = "none"
        /\ phase[s] = "ready" /\ s \notin guarded /\ Head(queue[s]) = o /\ o \in Entry
    BY TurnFacts
  <1>2. /\ UNCHANGED <<phase, disposed, fatal, handle, proxyId, fds, attach, stage, left,
                       awaited, answers, disk, kfds, proxies, given>>
        /\ run' = [run EXCEPT ![s] = o] /\ calls' = calls \cup {c0}
        /\ guarded' = IF o.kind \in Kinds \ Attaches THEN guarded \cup {s} ELSE guarded
    BY <1>1 DEF Turn, TurnWith, closing, addon
  <1>3. c0.s = s /\ c0.kind = o.kind /\ c0.fd = o.fd
    BY DEF Call
  <1>4. /\ o.kind \in Kinds /\ o.fd \in Fds \cup {NoFd} /\ o # None /\ o.kind # "none"
        /\ c0 \in [s : Sessions, kind : CallKinds, fd : Fds \cup {NoFd}]
    BY <1>1 DEF Entry, Call, CallKinds, None, Op, Kinds, Attaches
  <1>5. run'[s] = o /\ \A t \in Sessions \ {s} : run'[t] = run[t]
    BY <1>1, <1>2 DEF Shape
  <1> HIDE DEF c0
  <1>6. Shape' /\ kfds'[s] \subseteq kfds[s]
    BY <1>1, <1>2, <1>4 DEF Shape, Dequeued
  <1>7. \A t \in Sessions \ {s} : Same(t)
    BY <1>1, <1>2, <1>3, <1>5 DEF Same, Dequeued
  <1>8. stage[s] = "open" /\ s \notin awaited
    BY <1>1 DEF Own, Turns
  <1>9. \A x \in calls \cup answers : x.s # s
    <2>1. /\ "none" \notin Attaches
          /\ \A k \in CallKinds : k \in Kinds \/ k \in {"init", "drop", "disk"}
      BY DEF Attaches, CallKinds
    <2>2. \A x \in calls \cup answers : x.kind \in CallKinds
      BY <1>1 DEF Shape, Results, CallKinds
    <2> QED
      BY <1>1, <1>8, <2>1, <2>2 DEF Own, UnderWay, Matches
  <1>10. Fresh(s)' /\ Turns(s)'
    BY <1>1, <1>2, <1>4, <1>5, <1>8 DEF Own, Fresh, Turns
  <1>11. UnderWay(s)'
    BY <1>1, <1>2, <1>3, <1>4, <1>5, <1>9 DEF UnderWay, Matches, Kinds, Attaches
  <1>12. QueueFds(s)' /\ Books(s)'
    BY <1>1, <1>2, <1>5, <1>8, DequeuedFacts DEF Own, Books
  <1>13. CallFds(s)'
    <2>1. NoFd \notin Fds /\ kfds[s] \subseteq Fds
      BY <1>1, NativeAssumption DEF Shape
    <2>2. o.kind = "close" =>
            o.fd \in kfds[s] \ fds[s] /\ \A i \in DOMAIN queue'[s] : queue'[s][i].fd # o.fd
      BY <1>1, SMTT(60) DEF Own, QueueFds, Dequeued
    <2>3. (o.fd # NoFd => o.fd \in kfds[s]) /\ kfds[s] \subseteq fds[s] \cup given
      BY <1>1, <1>8 DEF Own, QueueFds, Books, Dequeued
    <2>4. o.kind \notin {"drop", "disk"}
      BY <1>4 DEF Kinds, Attaches
    <2> QED
      BY <1>2, <1>3, <1>9, <2>1, <2>2, <2>3, <2>4 DEF CallFds
  <1>14. AnswerFds(s)'
    BY <1>2, <1>9 DEF AnswerFds
  <1>15. Attachment(s)'
    <2>1. /\ \A i, j \in DOMAIN queue'[s] :
               queue'[s][i].kind \in Attaches /\ queue'[s][j].kind \in Attaches => j = i
          /\ \A K \in {{"url"}, {"path"}, Attaches} :
               /\ Queued(s, K)' => Queued(s, K)
               /\ Queued(s, K) => o.kind \in K \/ Queued(s, K)'
          /\ o.kind \in Attaches => ~Queued(s, Attaches)'
      BY <1>1, <1>2, DequeuedFacts
    <2>2. \A K \in {{"url"}, {"path"}, Attaches} : o.kind \in K => Queued(s, K)
      BY <1>1 DEF Queued, Dequeued
    <2>3. \A i \in DOMAIN queue'[s] : queue'[s][i].kind \in Attaches => o.kind \notin Attaches
      BY <2>1 DEF Queued
    <2>4. run[s].kind \notin Attaches
      BY <1>1 DEF Attaches
    <2>5. "url" \in Attaches /\ "path" \in Attaches /\ {"url"} # {"path"}
      BY DEF Attaches
    <2> QED
      BY <1>1, <1>2, <1>5, <2>1, <2>2, <2>3, <2>4, <2>5 DEF Own, Attachment
  <1>16. DiskState(s)' /\ DiskCalls(s)'
    <2>1. o.kind \in Attaches => s \notin handle
      BY <1>1 DEF Own, Attachment, Queued, Dequeued
    <2>2. o.kind \in Attaches => disk[s] = "none"
      BY <1>1, <2>1 DEF Own, DiskState, Attaches
    <2> QED
      BY <1>1, <1>2, <1>3, <1>5, <1>8, <1>9, <2>2 DEF Own, DiskState, DiskCalls, Attaches
  <1>17. \A c \in calls' \ calls : c.s \notin fatal'
    BY <1>2, <1>3
  <1> QED
    BY <1>6, <1>7, <1>10, <1>11, <1>12, <1>13, <1>14, <1>15, <1>16, <1>17, OneConcerned DEF Own

-----------------------------------------------------------------------------
(* The end of a session *)

(* fireFatal, from the watchdog or from the host *)
LEMMA FireFatalKeeps ==
  ASSUME SessionInv, NEW S \in SUBSET Sessions, FireFatal(S), \A s \in S : phase[s] # "new",
         UNCHANGED <<phase, disposed, handle, proxyId, fds, attach, queue, stage, left, calls,
                     answers, disk, kfds, proxies, given>>
  PROVE  SessionInv'
  <1>1. Shape /\ Disjoint /\ \A s \in Sessions : Own(s)
    BY DEF SessionInv
  <1>2. /\ fatal' = fatal \cup S /\ guarded' = guarded \ S /\ awaited' = awaited \ S
        /\ run' = [s \in Sessions |-> IF s \in S \cap guarded THEN None ELSE run[s]]
    BY DEF FireFatal
  <1>3. Shape' /\ Disjoint'
    BY <1>1, <1>2 DEF Shape, Disjoint
  <1>4. ASSUME NEW s \in Sessions \ S PROVE Own(s)'
    <2>1. Same(s)
      BY <1>2 DEF Same
    <2> QED
      BY <1>1, <2>1, OthersKeep
  <1>5. ASSUME NEW s \in S PROVE Own(s)'
    <2>1. /\ Own(s) /\ s \in fatal' /\ s \notin guarded' \cup awaited' /\ s \in Sessions
          /\ phase[s] # "new" /\ run'[s] = IF s \in guarded THEN None ELSE run[s]
      BY <1>1, <1>2
    <2>2. s \in guarded => run[s].kind \notin Attaches
      BY <2>1 DEF Own, Turns
    <2>3. None.kind = "none" /\ "none" \notin Attaches
      BY DEF None, Op, Attaches
    <2>4. run'[s].kind \in Attaches <=> run[s].kind \in Attaches
      BY <2>1, <2>2, <2>3
    <2>5. run'[s].kind \in Attaches => run'[s] = run[s]
      BY <2>1, <2>2, <2>3
    <2>6. Fresh(s)' /\ Turns(s)'
      BY <2>1 DEF Own, Fresh, Turns
    <2>7. UnderWay(s)'
      BY <2>1, <2>4, <2>5 DEF Own, UnderWay, Matches
    <2>8. QueueFds(s)' /\ Books(s)' /\ CallFds(s)' /\ AnswerFds(s)'
      BY <2>1 DEF Own, QueueFds, Books, CallFds, AnswerFds
    <2>9. Attachment(s)'
      BY <2>1, <2>4, <2>5 DEF Own, Attachment, Queued, Attaches
    <2>10. DiskState(s)' /\ DiskCalls(s)'
      BY <2>1 DEF Own, DiskState, DiskCalls
    <2> QED
      BY <2>6, <2>7, <2>8, <2>9, <2>10 DEF Own
  <1> QED
    BY <1>3, <1>4, <1>5 DEF SessionInv

(* The timer of guard *)
LEMMA TimeoutKeeps ==
  ASSUME SessionInv, NEW s \in Sessions, Timeout(s)
  PROVE  SessionInv'
  <1>1. s \in guarded \cup awaited /\ Own(s)
    BY DEF SessionInv, Timeout
  <1>2. phase[s] = "ready"
    BY <1>1 DEF Own, Fresh
  <1> QED
    BY <1>2, FireFatalKeeps DEF Timeout, bridge, addon

(* The report of the main process *)
LEMMA HostFatalKeeps == ASSUME SessionInv, HostFatal PROVE SessionInv'
  <1> DEFINE S == {s \in Sessions : phase[s] # "new" /\ stage[s] # "done"} \ fatal
  <1>1. S \in SUBSET Sessions /\ FireFatal(S) /\ \A s \in S : phase[s] # "new"
    BY DEF HostFatal
  <1> HIDE DEF S
  <1> QED
    BY <1>1, FireFatalKeeps DEF HostFatal, bridge, addon

(* _dispose, when the queue drained or the session died *)
LEMMA DisposeIdleKeeps ==
  ASSUME SessionInv, NEW s \in Sessions, DisposeIdle(s)
  PROVE  SessionInv'
  <1>1. Shape /\ Own(s) /\ (s \in fatal \/ Idle(s)) /\ stage[s] = "idle"
    BY DEF SessionInv, DisposeIdle, StartDispose
  <1>2. /\ UNCHANGED <<phase, disposed, fatal, handle, proxyId, fds, attach, queue, run, guarded,
                       awaited, calls, answers, disk, kfds, proxies, given>>
        /\ stage' = [stage EXCEPT ![s] = "fds"] /\ left' = [left EXCEPT ![s] = fds[s]]
    BY DEF DisposeIdle, StartDispose, session, ops, bridge, addon
  <1>3. stage'[s] = "fds" /\ left'[s] = fds[s]
    BY <1>1, <1>2 DEF Shape
  <1>4. Shape' /\ kfds'[s] \subseteq kfds[s]
    BY <1>1, <1>2 DEF Shape
  <1>5. \A t \in Sessions \ {s} : Same(t)
    BY <1>1, <1>2 DEF Same, Shape
  <1>6. run[s] = None => run[s].kind # "open"
    BY SMTT(60) DEF None, Op
  <1>7. Fresh(s)' /\ Turns(s)'
    BY <1>1, <1>2, <1>3 DEF Own, Fresh, Turns, Idle
  <1>8. UnderWay(s)'
    BY <1>1, <1>2, <1>3 DEF Own, UnderWay, Matches
  <1>9. QueueFds(s)' /\ Books(s)'
    BY <1>1, <1>2, <1>3, <1>6 DEF Own, QueueFds, Books, Idle
  <1>10. \A x \in calls \cup answers : x.s = s /\ s \notin fatal => x.kind # "drop"
    BY <1>1 DEF Own, UnderWay, Matches
  <1>11. CallFds(s)' /\ AnswerFds(s)'
    BY <1>1, <1>2, <1>10 DEF Own, CallFds, AnswerFds
  <1>12. Attachment(s)' /\ DiskState(s)' /\ DiskCalls(s)'
    BY <1>1, <1>2, <1>3 DEF Own, Attachment, Queued, DiskState, DiskCalls
  <1> QED
    BY <1>4, <1>5, <1>7, <1>8, <1>9, <1>11, <1>12, OneConcerned DEF Own

(* A living session past the wait for its queue has nothing under way that *)
(* _dispose does not await, but its boot.                                  *)
LEMMA NothingUnderWay ==
  ASSUME Shape, NEW s \in Sessions, Own(s), s \notin fatal \cup awaited,
         stage[s] \notin {"open", "idle"}
  PROVE  /\ Idle(s) /\ s \notin guarded /\ run[s].kind = "none"
         /\ \A x \in calls \cup answers : x.s = s => x.kind = "init" /\ phase[s] = "init"
  <1>1. Idle(s) /\ run[s].kind = "none" /\ "none" \notin Kinds
    BY SMTT(60) DEF Own, Turns, Idle, None, Op, Kinds, Attaches
  <1>2. s \notin guarded
    BY <1>1 DEF Own, Turns
  <1>3. \A x \in calls \cup answers : x.kind \in Kinds \cup {"init", "drop", "disk"}
    BY DEF Shape, Results, CallKinds
  <1>4. "none" \notin Attaches
    BY DEF Attaches
  <1> QED
    BY <1>1, <1>2, <1>3, <1>4 DEF Own, UnderWay, Matches

(* _dispose closes an fd *)
LEMMA DisposeFdKeeps ==
  ASSUME SessionInv, NEW s \in Sessions, DisposeFd(s)
  PROVE  SessionInv' /\ \A c \in calls' \ calls : c.s \notin fatal'
  <1>1. Shape /\ Own(s) /\ stage[s] = "fds" /\ s \notin awaited \cup fatal
    BY DEF SessionInv, DisposeFd
  <1>2. PICK f \in left[s] : /\ left' = [left EXCEPT ![s] = left[s] \ {f}]
                             /\ calls' = calls \cup {Call(s, "drop", f)}
    BY DEF DisposeFd
  <1>3. /\ UNCHANGED <<phase, disposed, fatal, handle, proxyId, fds, attach, queue, run, guarded,
                       stage, answers, disk, kfds, proxies, given>>
        /\ awaited' = awaited \cup {s}
    BY DEF DisposeFd, session, ops, addon
  <1> DEFINE c0 == Call(s, "drop", f)
  <1>4. /\ c0 \in [s : Sessions, kind : CallKinds, fd : Fds \cup {NoFd}]
        /\ c0.s = s /\ c0.kind = "drop" /\ c0.fd = f /\ f \in Fds
    BY <1>1 DEF Call, CallKinds, Shape
  <1>5. calls' = calls \cup {c0}
    BY <1>2
  <1> HIDE DEF c0
  <1>6. phase[s] = "ready"
    BY <1>1, <1>2 DEF Own, Fresh
  <1>7. Idle(s) /\ s \notin guarded /\ \A x \in calls \cup answers : x.s # s
    BY <1>1, <1>6, NothingUnderWay
  <1>8. left'[s] = left[s] \ {f} /\ \A t \in Sessions \ {s} : left'[t] = left[t]
    BY <1>1, <1>2 DEF Shape
  <1>9. Shape' /\ kfds'[s] \subseteq kfds[s]
    BY <1>1, <1>2, <1>3, <1>4, <1>5 DEF Shape
  <1>10. \A t \in Sessions \ {s} : Same(t)
    BY <1>3, <1>4, <1>5, <1>8 DEF Same
  <1>11. Fresh(s)' /\ Turns(s)'
    BY <1>1, <1>3, <1>6, <1>7 DEF Own, Fresh, Turns, Idle
  <1>12. UnderWay(s)'
    BY <1>1, <1>3, <1>4, <1>5, <1>6, <1>7 DEF UnderWay, Matches, Kinds, Attaches
  <1>13. QueueFds(s)' /\ Books(s)'
    BY <1>1, <1>3, <1>8 DEF Own, QueueFds, Books
  <1>14. CallFds(s)' /\ AnswerFds(s)'
    BY <1>1, <1>2, <1>3, <1>4, <1>5, <1>7, <1>8 DEF Own, Books, CallFds, AnswerFds
  <1>15. Attachment(s)' /\ DiskState(s)'
    BY <1>1, <1>3 DEF Own, Attachment, Queued, DiskState
  <1>16. DiskCalls(s)'
    BY <1>3, <1>4, <1>5, <1>7 DEF DiskCalls, Attaches
  <1>17. \A c \in calls' \ calls : c.s \notin fatal'
    BY <1>1, <1>3, <1>4, <1>5
  <1> QED
    BY <1>9, <1>10, <1>11, <1>12, <1>13, <1>14, <1>15, <1>16, <1>17, OneConcerned DEF Own

(* _dispose closes the disk *)
LEMMA DisposeDiskCalls ==
  ASSUME SessionInv, NEW s \in Sessions, DisposeDisk(s), s \in handle \ fatal
  PROVE  SessionInv' /\ \A c \in calls' \ calls : c.s \notin fatal'
  <1> DEFINE c0 == Call(s, "disk", NoFd)
  <1>1. Shape /\ Own(s) /\ stage[s] = "fds" /\ s \notin awaited \cup fatal /\ left[s] = {}
    BY DEF SessionInv, DisposeDisk
  <1>2. /\ UNCHANGED <<phase, disposed, fatal, handle, proxyId, fds, attach, queue, run, guarded,
                       left, answers, disk, kfds, proxies, given>>
        /\ stage' = [stage EXCEPT ![s] = "disk"] /\ awaited' = awaited \cup {s}
        /\ calls' = calls \cup {c0}
    BY DEF DisposeDisk, ops, addon
  <1>3. /\ c0 \in [s : Sessions, kind : CallKinds, fd : Fds \cup {NoFd}]
        /\ c0.s = s /\ c0.kind = "disk" /\ c0.fd = NoFd
    BY DEF Call, CallKinds
  <1> HIDE DEF c0
  <1>4. phase[s] = "ready"
    BY <1>1 DEF Own, Fresh
  <1>5. Idle(s) /\ s \notin guarded /\ \A x \in calls \cup answers : x.s # s
    BY <1>1, <1>4, NothingUnderWay
  <1>6. stage'[s] = "disk" /\ \A t \in Sessions \ {s} : stage'[t] = stage[t]
    BY <1>1, <1>2 DEF Shape
  <1>7. Shape' /\ kfds'[s] \subseteq kfds[s]
    BY <1>1, <1>2, <1>3 DEF Shape
  <1>8. \A t \in Sessions \ {s} : Same(t)
    BY <1>2, <1>3, <1>6 DEF Same
  <1>9. Fresh(s)' /\ Turns(s)'
    BY <1>1, <1>2, <1>4, <1>5, <1>6 DEF Own, Fresh, Turns, Idle
  <1>10. UnderWay(s)'
    BY <1>1, <1>2, <1>3, <1>4, <1>5, <1>6 DEF UnderWay, Matches, Kinds, Attaches
  <1>11. QueueFds(s)' /\ Books(s)'
    BY <1>1, <1>2, <1>6 DEF Own, QueueFds, Books
  <1>12. CallFds(s)' /\ AnswerFds(s)'
    BY <1>1, <1>2, <1>3, <1>5 DEF Own, Books, CallFds, AnswerFds
  <1>13. Attachment(s)' /\ DiskState(s)'
    BY <1>1, <1>2, <1>6 DEF Own, Attachment, Queued, DiskState
  <1>14. DiskCalls(s)'
    BY <1>2, <1>3, <1>5 DEF DiskCalls, Attaches
  <1>15. \A c \in calls' \ calls : c.s \notin fatal'
    BY <1>1, <1>2, <1>3
  <1> QED
    BY <1>7, <1>8, <1>9, <1>10, <1>11, <1>12, <1>13, <1>14, <1>15, OneConcerned DEF Own

(* _dispose is done with the disk: it was closed, or there was none, or the *)
(* session died.                                                            *)
LEMMA DiskDoneKeeps ==
  ASSUME SessionInv, NEW s \in Sessions, s \notin awaited,
         DisposeDiskDone(s) \/ (DisposeDisk(s) /\ s \notin handle \ fatal)
  PROVE  SessionInv'
  <1>1. Shape /\ Own(s) /\ stage[s] \in {"fds", "disk"}
    BY DEF SessionInv, DisposeDisk, DisposeDiskDone
  <1>2. /\ UNCHANGED <<phase, disposed, fatal, proxyId, fds, attach, queue, run, guarded, left,
                       awaited, calls, answers, disk, kfds, proxies, given>>
        /\ stage' = [stage EXCEPT ![s] = AfterDisk(s)] /\ handle' = handle \ {s}
    BY DEF DisposeDisk, DisposeDiskDone, ops, bridge, addon
  <1>3. s \notin fatal => disk[s] = "none" /\ Idle(s)
    <2>1. CASE s \notin fatal /\ stage[s] = "fds"
      <3>1. s \notin handle
        BY <2>1 DEF DisposeDisk, DisposeDiskDone
      <3>2. Idle(s) /\ run[s].kind = "none"
        BY <1>1, <2>1, NothingUnderWay
      <3> QED
        BY <1>1, <2>1, <3>1, <3>2 DEF Own, DiskState, Attaches
    <2>2. CASE s \notin fatal /\ stage[s] = "disk"
      BY <1>1, <2>2 DEF Own, DiskState, Turns
    <2> QED
      BY <1>1, <2>1, <2>2
  <1>4. AfterDisk(s) \in {"stopping", "done"} /\ (AfterDisk(s) = "done" => s \notin proxies)
    BY <1>1 DEF AfterDisk, Shape
  <1>5. stage'[s] = AfterDisk(s) /\ \A t \in Sessions \ {s} : stage'[t] = stage[t]
    BY <1>1, <1>2 DEF Shape
  <1>6. Shape' /\ kfds'[s] \subseteq kfds[s]
    BY <1>1, <1>2, <1>4 DEF Shape
  <1>7. \A t \in Sessions \ {s} : Same(t)
    BY <1>2, <1>5 DEF Same
  <1>8. Fresh(s)' /\ Turns(s)'
    BY <1>1, <1>2, <1>3, <1>4, <1>5 DEF Own, Fresh, Turns, Idle
  <1>9. UnderWay(s)'
    BY <1>1, <1>2, <1>5 DEF Own, UnderWay, Matches
  <1>10. QueueFds(s)' /\ Books(s)' /\ CallFds(s)' /\ AnswerFds(s)'
    <2>1. QueueFds(s)'
      BY <1>1, <1>2, <1>4, <1>5 DEF Own, QueueFds
    <2>2. Books(s)'
      BY <1>1, <1>2, <1>4, <1>5 DEF Own, Books
    <2>3. CallFds(s)'
      BY <1>1, <1>2, <1>4, <1>5 DEF Own, CallFds
    <2>4. AnswerFds(s)'
      BY <1>1, <1>2, <1>4, <1>5 DEF Own, AnswerFds
    <2> QED
      BY <2>1, <2>2, <2>3, <2>4
  <1>11. Attachment(s)'
    BY <1>1, <1>2 DEF Own, Attachment, Queued
  <1>12. DiskState(s)' /\ DiskCalls(s)'
    BY <1>1, <1>2, <1>3, <1>4, <1>5 DEF Own, DiskState, DiskCalls
  <1> QED
    BY <1>6, <1>7, <1>8, <1>9, <1>10, <1>11, <1>12, OneConcerned DEF Own

(* _dispose, when stopProxy answers *)
LEMMA DisposeStoppedKeeps ==
  ASSUME SessionInv, NEW s \in Sessions, DisposeStopped(s)
  PROVE  SessionInv'
  <1>1. Shape /\ Own(s) /\ stage[s] = "stopping"
    BY DEF SessionInv, DisposeStopped
  <1>2. /\ UNCHANGED <<phase, disposed, fatal, handle, fds, attach, queue, run, guarded, left,
                       awaited, calls, answers, disk, kfds, given>>
        /\ stage' = [stage EXCEPT ![s] = "done"]
        /\ proxies' = proxies \ {s} /\ proxyId' = proxyId \ {s}
    BY DEF DisposeStopped, ops, bridge, addon
  <1>3. s \notin fatal => attach[s] # "opening" /\ disk[s] = "none"
    <2>1. SUFFICES ASSUME s \notin fatal PROVE attach[s] # "opening" /\ disk[s] = "none"
      OBVIOUS
    <2>2. s \notin awaited
      BY <1>1 DEF Own, Turns
    <2>3. Idle(s) /\ run[s].kind = "none"
      BY <1>1, <2>1, <2>2, NothingUnderWay
    <2> QED
      BY <1>1, <2>1, <2>3, SMTT(60) DEF Own, Attachment, Queued, DiskState, Idle
  <1>4. stage'[s] = "done" /\ \A t \in Sessions \ {s} : stage'[t] = stage[t]
    BY <1>1, <1>2 DEF Shape
  <1>5. Shape' /\ kfds'[s] \subseteq kfds[s]
    BY <1>1, <1>2 DEF Shape
  <1>6. \A t \in Sessions \ {s} : Same(t)
    BY <1>2, <1>4 DEF Same
  <1>7. Fresh(s)' /\ Turns(s)'
    BY <1>1, <1>2, <1>4 DEF Own, Fresh, Turns, Idle
  <1>8. UnderWay(s)'
    BY <1>1, <1>2, <1>4 DEF Own, UnderWay, Matches
  <1>9. QueueFds(s)' /\ Books(s)' /\ CallFds(s)' /\ AnswerFds(s)'
    BY <1>1, <1>2, <1>4 DEF Own, QueueFds, Books, CallFds, AnswerFds
  <1>10. Attachment(s)'
    BY <1>1, <1>2 DEF Own, Attachment, Queued
  <1>11. DiskState(s)' /\ DiskCalls(s)'
    BY <1>1, <1>2, <1>3, <1>4 DEF Own, DiskState, DiskCalls
  <1> QED
    BY <1>5, <1>6, <1>7, <1>8, <1>9, <1>10, <1>11, OneConcerned DEF Own

-----------------------------------------------------------------------------
(* Results in the renderer *)

(* What an answer leaves alone, whatever it answers. *)
LEMMA AnswerFacts ==
  ASSUME SessionInv, NEW a \in answers, Answer(a), NEW s \in Sessions, s = a.s
  PROVE  /\ Shape /\ Own(s) /\ a.kind \in CallKinds /\ Matches(s, a.kind)
         /\ answers' = answers \ {a}
         /\ \A x \in calls \cup answers' : x.s # s
         /\ UNCHANGED <<disposed, fatal, proxyId, queue, stage, left, calls, disk, kfds,
                        proxies, given>>
         /\ CallFds(s)' /\ AnswerFds(s)' /\ DiskCalls(s)' /\ UnderWay(s)'
  <1>1. Shape /\ Own(s) /\ a.kind \in CallKinds
    BY DEF SessionInv, Shape, Results, CallKinds
  <1>2. /\ answers' = answers \ {a}
        /\ UNCHANGED <<disposed, fatal, proxyId, queue, stage, left, calls, disk, kfds,
                       proxies, given>>
    BY DEF Answer, AnswerWith, addon
  <1>3. Matches(s, a.kind) /\ \A x \in calls \cup answers' : x.s # s
    BY <1>1, <1>2 DEF Own, UnderWay
  <1>4. CallFds(s)' /\ AnswerFds(s)' /\ DiskCalls(s)' /\ UnderWay(s)'
    BY <1>2, <1>3 DEF CallFds, AnswerFds, DiskCalls, UnderWay
  <1> QED
    BY <1>1, <1>2, <1>3, <1>4

(* Nothing of the other sessions changes. *)
LEMMA AnswerOthers ==
  ASSUME SessionInv, NEW a \in answers, Answer(a), NEW s \in Sessions, s = a.s
  PROVE  Shape' /\ (\A t \in Sessions \ {s} : Same(t)) /\ kfds'[s] \subseteq kfds[s]
  <1>1. /\ Shape /\ answers' = answers \ {a}
        /\ UNCHANGED <<disposed, fatal, proxyId, queue, stage, left, calls, disk, kfds,
                       proxies, given>>
    BY AnswerFacts
  <1>2. /\ phase' \in [Sessions -> {"new", "init", "ready", "failed"}]
        /\ \A t \in Sessions \ {s} : phase'[t] = phase[t]
    BY <1>1 DEF Shape, Answer, AnswerWith
  <1>3. /\ attach' \in [Sessions -> {"idle", "starting", "opening", "stopping"}]
        /\ \A t \in Sessions \ {s} : attach'[t] = attach[t]
    BY <1>1 DEF Shape, Answer, AnswerWith
  <1>4. fds' \in [Sessions -> SUBSET Fds] /\ \A t \in Sessions \ {s} : fds'[t] = fds[t]
    <2>1. a.kind = "open" /\ a.ok /\ s \in guarded => a.fd \in Fds
      <3>1. a.kind = "open" /\ a.ok /\ s \in guarded => a.fd \in kfds[s]
        BY AnswerFacts DEF Own, AnswerFds, Turns
      <3> QED
        BY <1>1, <3>1 DEF Shape
    <2>2. fds' \in {fds, [fds EXCEPT ![s] = fds[s] \cup {a.fd}]}
      BY DEF Answer, AnswerWith
    <2>3. fds' # fds => a.kind = "open" /\ a.ok /\ s \in guarded
      BY DEF Answer, AnswerWith
    <2>4. CASE fds' = fds
      BY <1>1, <2>4 DEF Shape
    <2>5. CASE fds' # fds
      <3>1. a.fd \in Fds /\ fds' = [fds EXCEPT ![s] = fds[s] \cup {a.fd}]
        BY <2>1, <2>2, <2>3, <2>5
      <3>2. fds \in [Sessions -> SUBSET Fds] /\ fds[s] \cup {a.fd} \in SUBSET Fds
        BY <1>1, <3>1 DEF Shape
      <3> QED
        BY <3>1, <3>2
    <2> QED
      BY <2>4, <2>5
  <1>5. run' \in [Sessions -> Entry \cup {None}] /\ \A t \in Sessions \ {s} : run'[t] = run[t]
    BY <1>1 DEF Shape, Answer, AnswerWith
  <1>6. /\ handle' \in {handle, handle \cup {s}} /\ guarded' \in {guarded, guarded \ {s}}
        /\ awaited' \in {awaited, awaited \ {s}}
    BY DEF Answer, AnswerWith
  <1>7. Shape'
    BY <1>1, <1>2, <1>3, <1>4, <1>5, <1>6 DEF Shape
  <1>8. \A t \in Sessions \ {s} : Same(t)
    BY <1>1, <1>2, <1>3, <1>4, <1>5, <1>6 DEF Same
  <1> QED
    BY <1>1, <1>7, <1>8

(* The kernel has booted, or not. *)
LEMMA AnswerInit ==
  ASSUME SessionInv, NEW a \in answers, Answer(a), NEW s \in Sessions, s = a.s, a.kind = "init"
  PROVE  Own(s)'
  <1>1. /\ Shape /\ Own(s) /\ phase[s] = "init"
        /\ UNCHANGED <<disposed, fatal, proxyId, queue, stage, left, calls, disk, kfds,
                       proxies, given>>
        /\ CallFds(s)' /\ AnswerFds(s)' /\ DiskCalls(s)' /\ UnderWay(s)'
    BY AnswerFacts DEF Matches
  <1>2. UNCHANGED <<handle, attach, fds, run, guarded, awaited>>
    BY DEF Answer, AnswerWith, Kinds, Attaches
  <1>3. phase'[s] \in {"ready", "failed"}
    BY <1>1 DEF Answer, AnswerWith, Shape
  <1>4. Fresh(s)' /\ Turns(s)'
    BY <1>1, <1>2, <1>3 DEF Own, Fresh, Turns, Idle
  <1>5. QueueFds(s)' /\ Books(s)'
    <2>1. QueueFds(s)'
      <3>1. QueueFds(s) /\ UNCHANGED <<fatal, queue, kfds, fds>>
        BY <1>1, <1>2 DEF Own
      <3> QED
        BY <3>1 DEF QueueFds
    <2>2. Books(s)'
      BY <1>1, <1>2 DEF Own, Books
    <2> QED
      BY <2>1, <2>2
  <1>6. Attachment(s)' /\ DiskState(s)'
    BY <1>1, <1>2 DEF Own, Attachment, Queued, DiskState
  <1> QED
    BY <1>1, <1>4, <1>5, <1>6 DEF Own

(* diskOpen answers. *)
LEMMA AnswerAttach ==
  ASSUME SessionInv, NEW a \in answers, Answer(a), NEW s \in Sessions, s = a.s,
         a.kind \in Attaches
  PROVE  Own(s)'
  <1>1. /\ Shape /\ Own(s) /\ phase[s] = "ready" /\ run[s].kind = a.kind
        /\ UNCHANGED <<disposed, fatal, proxyId, queue, stage, left, calls, disk, kfds,
                       proxies, given>>
        /\ CallFds(s)' /\ AnswerFds(s)' /\ DiskCalls(s)' /\ UnderWay(s)'
    BY AnswerFacts DEF Matches, Attaches
  <1>2. /\ UNCHANGED <<phase, fds, guarded, awaited>>
        /\ handle' = IF a.ok THEN handle \cup {s} ELSE handle
        /\ run' = [run EXCEPT ![s] = None]
        /\ attach' = IF a.kind # "url" THEN attach
                     ELSE [attach EXCEPT ![s] = IF a.ok THEN "idle" ELSE "stopping"]
    BY DEF Answer, AnswerWith, Kinds, Attaches
  <1>3. run'[s] = None /\ None.kind = "none" /\ "none" \notin Attaches \cup {"open"}
    BY <1>1, <1>2 DEF Shape, None, Op, Attaches
  <1>4. /\ s \notin guarded /\ ~Queued(s, Attaches) /\ s \notin handle /\ ~Idle(s)
        /\ a.kind = "url" => attach[s] = "opening"
        /\ a.kind = "path" => attach[s] = "idle"
    BY <1>1, SMTT(60) DEF Own, Turns, Attachment, Queued, Idle, None, Op, Attaches
  <1>5. attach'[s] = IF a.ok \/ a.kind = "path" THEN "idle" ELSE "stopping"
    BY <1>1, <1>2, <1>4 DEF Shape, Attaches
  <1>6. s \notin fatal => stage[s] \in {"open", "idle"}
    BY <1>1, <1>4 DEF Own, Turns
  <1>7. s \notin fatal /\ ~a.ok => disk[s] = "none"
    BY <1>1 DEF Own, DiskCalls
  <1>8. Fresh(s)' /\ Turns(s)'
    BY <1>1, <1>2, <1>3, <1>4, <1>6 DEF Own, Fresh, Turns
  <1>9. QueueFds(s)' /\ Books(s)'
    <2>1. QueueFds(s)'
      <3>1. QueueFds(s) /\ UNCHANGED <<fatal, queue, kfds, fds>>
        BY <1>1, <1>2 DEF Own
      <3> QED
        BY <3>1, SMTT(60) DEF QueueFds
    <2>2. run[s].kind # "open"
      BY <1>1 DEF Attaches
    <2>3. Books(s)'
      BY <1>1, <1>2, <2>2 DEF Own, Books
    <2> QED
      BY <2>1, <2>3
  <1>10. Attachment(s)'
    <2>1. queue' = queue /\ \A i \in DOMAIN queue[s] : queue[s][i].kind \notin Attaches
      BY <1>1, <1>4 DEF Queued
    <2>2. run'[s].kind \notin Attaches /\ attach'[s] # "opening"
      BY <1>3, <1>5
    <2>3. attach'[s] # "idle" => s \notin handle'
      BY <1>2, <1>4, <1>5, <1>1 DEF Attaches
    <2>4. ~Queued(s, {"url"})' /\ ~Queued(s, {"path"})' /\ ~Queued(s, Attaches)'
      BY <2>1 DEF Queued, Attaches
    <2> QED
      BY <2>1, <2>2, <2>3, <2>4 DEF Attachment, Attaches
  <1>11. DiskState(s)'
    <2>1. s \notin fatal /\ disk[s] # "none" => s \in handle'
      BY <1>2, <1>7
    <2>2. attach'[s] # "opening"
      BY <1>5
    <2>3. s \notin fatal => stage[s] \notin {"disk", "stopping", "done"}
      BY <1>6
    <2>4. s \notin fatal /\ disk[s] = "url" => s \in proxies
      BY <1>1 DEF Own, DiskState
    <2> QED
      BY <1>1, <2>1, <2>2, <2>3, <2>4 DEF DiskState
  <1> QED
    BY <1>1, <1>8, <1>9, <1>10, <1>11 DEF Own

(* An operation under the watchdog answers, in time or late. *)
LEMMA AnswerOp ==
  ASSUME SessionInv, NEW a \in answers, Answer(a), NEW s \in Sessions, s = a.s,
         a.kind \in Kinds \ Attaches
  PROVE  Own(s)'
  <1>1. /\ Shape /\ Own(s) /\ phase[s] = "ready"
        /\ s \notin fatal => s \in guarded /\ run[s].kind = a.kind
        /\ UNCHANGED <<disposed, fatal, proxyId, queue, stage, left, calls, disk, kfds,
                       proxies, given>>
        /\ CallFds(s)' /\ AnswerFds(s)' /\ DiskCalls(s)' /\ UnderWay(s)'
    BY AnswerFacts DEF Matches, Kinds, Attaches
  <1>2. /\ UNCHANGED <<phase, handle, attach, awaited>>
        /\ run' = IF s \in guarded THEN [run EXCEPT ![s] = None] ELSE run
        /\ guarded' = guarded \ {s}
        /\ fds' = IF a.kind = "open" /\ a.ok /\ s \in guarded
                  THEN [fds EXCEPT ![s] = fds[s] \cup {a.fd}] ELSE fds
    BY DEF Answer, AnswerWith, Kinds, Attaches
  <1>3. s \in guarded <=> s \notin fatal
    BY <1>1 DEF Own, Turns
  <1>4. CASE s \in fatal
    <2>1. s \notin guarded /\ s \notin guarded' /\ UNCHANGED <<run, fds>>
      BY <1>2, <1>3, <1>4
    <2>2. Fresh(s)' /\ Turns(s)'
      BY <1>1, <1>2, <1>4, <2>1 DEF Own, Fresh, Turns
    <2>3. QueueFds(s)' /\ Books(s)' /\ DiskState(s)'
      BY <1>1, <1>4 DEF QueueFds, Books, DiskState
    <2>4. Attachment(s)'
      BY <1>1, <1>2, <2>1 DEF Own, Attachment, Queued
    <2> QED
      BY <1>1, <2>2, <2>3, <2>4 DEF Own
  <1>5. CASE s \notin fatal
    <2>1. /\ s \in guarded /\ s \notin guarded' /\ run[s].kind = a.kind /\ run'[s] = None
          /\ None.kind = "none" /\ "none" \notin Attaches \cup {"open"}
      BY <1>1, <1>2, <1>3, <1>5 DEF Shape, None, Op, Attaches
    <2>2. ~Idle(s) /\ stage[s] \in {"open", "idle"}
      <3>1. run[s] # None
        BY <2>1 DEF None, Op, Kinds, Attaches
      <3> QED
        BY <1>1, <1>5, <3>1 DEF Own, Turns, Idle
    <2>3. fds'[s] = IF a.kind = "open" /\ a.ok THEN fds[s] \cup {a.fd} ELSE fds[s]
      BY <1>1, <1>2, <2>1 DEF Shape
    <2>4. Fresh(s)' /\ Turns(s)'
      BY <1>1, <1>2, <1>5, <2>1, <2>2 DEF Own, Fresh, Turns
    <2>9. a.kind = "open" /\ a.ok =>
            /\ a.fd \in kfds[s] /\ kfds[s] \subseteq fds[s] \cup given \cup {a.fd}
            /\ \A i \in DOMAIN queue[s] : queue[s][i].fd # a.fd
      BY <1>1, <1>5 DEF Own, AnswerFds
    <2>10. a.kind = "open" /\ ~a.ok => kfds[s] \subseteq fds[s] \cup given
      BY <1>1, <1>5 DEF Own, AnswerFds
    <2>11. fds[s] \subseteq kfds[s] /\ (a.kind # "open" => kfds[s] \subseteq fds[s] \cup given)
      BY <1>1, <1>5, <2>1, <2>2 DEF Own, Books
    <2>12. fds'[s] \subseteq kfds[s] /\ kfds[s] \subseteq fds'[s] \cup given
      BY <2>3, <2>9, <2>10, <2>11
    <2>5. QueueFds(s)'
      <3>1. SUFFICES ASSUME NEW i \in DOMAIN queue[s]
                     PROVE  /\ queue[s][i].fd # NoFd => queue[s][i].fd \in kfds[s]
                            /\ queue[s][i].kind = "close" =>
                                 /\ queue[s][i].fd \in kfds[s] \ fds'[s]
                                 /\ \A j \in DOMAIN queue[s] :
                                      j > i => queue[s][j].fd # queue[s][i].fd
        <4>1. UNCHANGED <<fatal, queue, kfds>>
          BY <1>1
        <4> QED
          BY <4>1, SMTT(60) DEF QueueFds
      <3>2. queue[s][i].fd \notin fds[s] => queue[s][i].fd \notin fds'[s]
        BY <2>3, <2>9
      <3> QED
        BY <1>1, <1>5, <3>2 DEF Own, QueueFds
    <2>6. Books(s)'
      BY <1>1, <2>2, <2>12 DEF Books
    <2>7. Attachment(s)'
      BY <1>1, <1>2, <2>1 DEF Own, Attachment, Queued, Attaches
    <2>8. DiskState(s)'
      BY <1>1, <1>2, <1>5, <2>1 DEF Own, DiskState
    <2> QED
      BY <1>1, <2>4, <2>5, <2>6, <2>7, <2>8 DEF Own
  <1> QED
    BY <1>4, <1>5

(* A call of _dispose answers. *)
LEMMA AnswerDispose ==
  ASSUME SessionInv, NEW a \in answers, Answer(a), NEW s \in Sessions, s = a.s,
         a.kind \in {"drop", "disk"}
  PROVE  Own(s)'
  <1>1. /\ Shape /\ Own(s) /\ phase[s] = "ready"
        /\ s \notin fatal => stage[s] = IF a.kind = "drop" THEN "fds" ELSE "disk"
        /\ UNCHANGED <<disposed, fatal, proxyId, queue, stage, left, calls, disk, kfds,
                       proxies, given>>
        /\ CallFds(s)' /\ AnswerFds(s)' /\ DiskCalls(s)' /\ UnderWay(s)'
    BY AnswerFacts DEF Matches
  <1>2. UNCHANGED <<phase, handle, attach, fds, run, guarded>> /\ awaited' = awaited \ {s}
    BY DEF Answer, AnswerWith, Kinds, Attaches
  <1>3. s \notin fatal /\ a.kind = "drop" => kfds[s] \subseteq left[s] \cup given
    BY <1>1 DEF Own, AnswerFds
  <1>4. s \notin fatal /\ a.kind = "disk" => disk[s] = "none"
    BY <1>1 DEF Own, DiskCalls
  <1>5. Fresh(s)' /\ Turns(s)'
    BY <1>1, <1>2 DEF Own, Fresh, Turns, Idle
  <1>6. QueueFds(s)' /\ Books(s)'
    <2>4. QueueFds(s) /\ UNCHANGED <<fatal, queue, fds, kfds>>
      BY <1>1, <1>2 DEF Own
    <2>1. QueueFds(s)'
      BY <2>4 DEF QueueFds
    <2>2. s \notin fatal /\ stage[s] = "fds" => kfds[s] \subseteq left[s] \cup given
      BY <1>1, <1>3
    <2>3. Books(s)'
      BY <1>1, <1>2, <2>2 DEF Own, Books
    <2> QED
      BY <2>1, <2>3
  <1>7. Attachment(s)' /\ DiskState(s)'
    BY <1>1, <1>2, <1>4 DEF Own, Attachment, Queued, DiskState
  <1> QED
    BY <1>1, <1>5, <1>6, <1>7 DEF Own

(* An answer is taken by the operation that asked. *)
LEMMA AnswerKeeps == ASSUME SessionInv, NEW a \in answers, Answer(a) PROVE SessionInv'
  <1>1. PICK s \in Sessions : s = a.s
    BY DEF SessionInv, Shape, Results
  <1>2. a.kind \in {"init", "drop", "disk"} \cup Attaches \cup (Kinds \ Attaches)
    BY <1>1, AnswerFacts DEF CallKinds
  <1>3. Own(s)'
    BY <1>1, <1>2, AnswerInit, AnswerAttach, AnswerOp, AnswerDispose
  <1> QED
    BY <1>1, <1>3, AnswerOthers, OneConcerned

-----------------------------------------------------------------------------
(* Calls in the addon *)

(* The call c has left the addon, with the answer r. *)
Replied(c, r) ==
  /\ calls' = calls \ {c} /\ answers' = answers \cup {r}
  /\ UNCHANGED <<phase, disposed, fatal, handle, proxyId, fds, attach, queue, run, guarded,
                 stage, left, awaited, proxies>>

(* A call that is answered leaves its answer as the only one of its        *)
(* session.                                                                *)
LEMMA RepliedFacts ==
  ASSUME SessionInv, NEW c \in calls, NEW s \in Sessions, s = c.s,
         NEW r \in Results, r.s = s, r.kind = c.kind, Replied(c, r)
  PROVE  /\ Shape /\ Own(s) /\ Matches(s, c.kind)
         /\ \A x \in calls' : x.s # s
         /\ \A x \in answers' : x.s = s => x = r
         /\ UnderWay(s)' /\ CallFds(s)' /\ Turns(s)' /\ Attachment(s)'
  <1>1. Shape /\ Own(s)
    BY DEF SessionInv
  <1>2. Matches(s, c.kind) /\ \A x \in calls' \cup answers : x.s # s
    BY <1>1 DEF Own, UnderWay, Replied
  <1>3. \A x \in answers' : x.s = s => x = r
    BY <1>2 DEF Replied
  <1>4. Matches(s, r.kind)'
    BY <1>2 DEF Matches, Replied
  <1>5. UnderWay(s)'
    BY <1>2, <1>3, <1>4 DEF UnderWay
  <1>6. CallFds(s)'
    BY <1>2 DEF CallFds
  <1>7. Turns(s)'
    BY <1>1 DEF Own, Turns, Idle, Replied
  <1>8. Attachment(s)'
    BY <1>1 DEF Own, Attachment, Queued, Replied
  <1> QED
    BY <1>1, <1>2, <1>3, <1>5, <1>6, <1>7, <1>8

(* A call that fails, or that changes nothing here *)
LEMMA ServeQuiet ==
  ASSUME SessionInv, NEW c \in calls, NEW s \in Sessions, s = c.s,
         NEW r \in Results, r.s = s, r.kind = c.kind, Replied(c, r),
         UNCHANGED <<disk, kfds, given>>,
         c.kind \in {"init", "op"} \/ (~r.ok /\ c.kind \in {"open"} \cup Attaches)
  PROVE  SessionInv'
  <1>1. /\ Shape /\ Own(s) /\ UnderWay(s)' /\ CallFds(s)' /\ Turns(s)' /\ Attachment(s)'
        /\ (\A x \in calls' : x.s # s) /\ \A x \in answers' : x.s = s => x = r
    BY RepliedFacts
  <1>2. Shape' /\ kfds'[s] \subseteq kfds[s]
    BY <1>1 DEF Shape, Replied
  <1>3. \A t \in Sessions \ {s} : Same(t)
    BY DEF Same, Replied
  <1>4. Fresh(s)' /\ QueueFds(s)' /\ Books(s)'
    BY <1>1 DEF Own, Fresh, QueueFds, Books, Replied
  <1>5. AnswerFds(s)'
    <2>1. s \notin fatal /\ c.kind = "open" => kfds[s] \subseteq fds[s] \cup given
      BY <1>1 DEF Own, CallFds
    <2>2. r.kind \notin {"drop"} /\ (r.kind = "open" => ~r.ok)
      BY DEF Attaches
    <2> QED
      BY <1>1, <2>1, <2>2 DEF AnswerFds, Replied
  <1>6. DiskState(s)'
    BY <1>1 DEF Own, DiskState, Replied
  <1>7. DiskCalls(s)'
    <2>1. c.kind \in Attaches => s \in fatal \/ disk[s] = "none"
      BY <1>1 DEF Own, DiskCalls
    <2>2. r.kind # "disk"
      BY DEF Attaches
    <2> QED
      BY <1>1, <2>1, <2>2 DEF DiskCalls, Replied
  <1> QED
    BY <1>1, <1>2, <1>3, <1>4, <1>5, <1>6, <1>7, OneConcerned DEF Own

(* diskOpen and diskClose: d is what is open afterwards. *)
LEMMA ServeDisk ==
  ASSUME SessionInv, NEW c \in calls, NEW s \in Sessions, s = c.s,
         NEW r \in Results, r.s = s, r.kind = c.kind, Replied(c, r), r.ok,
         UNCHANGED <<kfds, given>>,
         NEW d \in {"none"} \cup Attaches, disk' = [disk EXCEPT ![s] = d],
         \/ c.kind \in Attaches /\ d = c.kind
         \/ c.kind = "disk" /\ d = "none"
  PROVE  SessionInv'
  <1>1. /\ Shape /\ Own(s) /\ UnderWay(s)' /\ CallFds(s)' /\ Turns(s)' /\ Attachment(s)'
        /\ (\A x \in calls' : x.s # s) /\ (\A x \in answers' : x.s = s => x = r)
        /\ Matches(s, c.kind)
    BY RepliedFacts
  <1>2. Shape' /\ kfds'[s] \subseteq kfds[s] /\ disk'[s] = d
    BY <1>1 DEF Shape, Replied
  <1>3. \A t \in Sessions \ {s} : Same(t)
    BY <1>1 DEF Same, Replied, Shape
  <1>4. Fresh(s)' /\ QueueFds(s)' /\ Books(s)'
    <2>1. phase[s] = "ready"
      BY <1>1 DEF Matches, Attaches
    <2> QED
      BY <1>1, <2>1 DEF Own, Fresh, QueueFds, Books, Replied
  <1>5. AnswerFds(s)'
    BY <1>1 DEF AnswerFds, Attaches
  <1>6. DiskState(s)'
    <2>1. CASE d = "none"
      BY <1>1, <1>2, <2>1 DEF Own, DiskState, Replied, Attaches
    <2>2. CASE d # "none"
      <3>1. run[s].kind = d /\ d \in Attaches
        BY <1>1, <2>2 DEF Matches
      <3>2. run[s] # None
        BY <3>1, SMTT(60) DEF None, Op, Attaches
      <3>3. s \notin fatal => stage[s] \in {"open", "idle"}
        BY <1>1, <3>2 DEF Own, Turns, Idle
      <3>4. s \notin fatal /\ d = "url" => s \in proxies
        BY <1>1, <3>1 DEF Own, Attachment, DiskState
      <3> QED
        BY <1>1, <1>2, <3>1, <3>3, <3>4 DEF Own, DiskState, Replied
    <2> QED
      BY <2>1, <2>2
  <1>7. DiskCalls(s)'
    BY <1>1, <1>2 DEF DiskCalls, Attaches
  <1> QED
    BY <1>1, <1>2, <1>3, <1>4, <1>5, <1>6, <1>7, OneConcerned DEF Own

(* The kernel gives out an fd that no session has. *)
LEMMA ServeOpen ==
  ASSUME SessionInv, NEW c \in calls, NEW s \in Sessions, s = c.s, c.kind = "open",
         NEW r \in Results, r.s = s, r.kind = "open", r.ok, Replied(c, r),
         r.fd \in Fds, \A t \in Sessions : r.fd \notin kfds[t],
         kfds' = [kfds EXCEPT ![s] = kfds[s] \cup {r.fd}], UNCHANGED <<disk, given>>
  PROVE  SessionInv'
  <1>1. /\ Shape /\ Own(s) /\ UnderWay(s)' /\ CallFds(s)' /\ Turns(s)' /\ Attachment(s)'
        /\ (\A x \in calls' : x.s # s) /\ (\A x \in answers' : x.s = s => x = r)
        /\ Matches(s, "open")
    BY RepliedFacts, SMTT(60)
  <1>2. kfds'[s] = kfds[s] \cup {r.fd} /\ \A t \in Sessions \ {s} : kfds'[t] = kfds[t]
    BY <1>1 DEF Shape
  <1>3. Shape'
    BY <1>1 DEF Shape, Replied
  <1>4. Disjoint'
    BY <1>2, SMTT(60) DEF SessionInv, Disjoint
  <1>5. \A t \in Sessions \ {s} : Own(t)'
    <2>1. \A t \in Sessions \ {s} : Same(t)
      BY <1>2 DEF Same, Replied
    <2> QED
      BY <2>1, OthersKeep DEF SessionInv
  <1>6. phase[s] = "ready" /\ (s \notin fatal => run[s].kind = "open")
    BY <1>1 DEF Matches, Kinds, Attaches
  <1>7. s \notin fatal => stage[s] \in {"open", "idle"} /\ fds[s] \subseteq kfds[s]
    <2>1. s \notin fatal => run[s] # None
      BY <1>6, SMTT(60) DEF None, Op
    <2>2. s \notin fatal => stage[s] \in {"open", "idle"}
      BY <1>1, <2>1 DEF Own, Turns, Idle
    <2> QED
      BY <1>1, <2>2 DEF Own, Books
  <1>8. Fresh(s)' /\ DiskState(s)'
    BY <1>1, <1>6 DEF Own, Fresh, DiskState, Replied
  <1>9. QueueFds(s)'
    BY <1>1, <1>2 DEF Own, QueueFds, Replied
  <1>10. Books(s)'
    BY <1>2, <1>6, <1>7 DEF Books, Replied
  <1>11. AnswerFds(s)'
    <2>1. s \notin fatal => kfds[s] \subseteq fds[s] \cup given
      BY <1>1 DEF Own, CallFds
    <2>2. s \notin fatal => \A i \in DOMAIN queue[s] : queue[s][i].fd # r.fd
      BY <1>1, NativeAssumption DEF Own, QueueFds
    <2> QED
      BY <1>1, <1>2, <1>7, <2>1, <2>2, SMTT(60) DEF AnswerFds, Replied
  <1>12. DiskCalls(s)'
    BY <1>1 DEF DiskCalls, Attaches
  <1> QED
    BY <1>1, <1>3, <1>4, <1>5, <1>8, <1>9, <1>10, <1>11, <1>12 DEF SessionInv, Own

(* The kernel closes an fd of the session, for closeFd or for _dispose. *)
LEMMA ServeClose ==
  ASSUME SessionInv, NEW c \in calls, NEW s \in Sessions, s = c.s, c.kind \in {"close", "drop"},
         NEW r \in Results, r.s = s, r.kind = c.kind, Replied(c, r),
         kfds' = [t \in Sessions |-> kfds[t] \ {c.fd}], given' = given \ {c.fd}, UNCHANGED disk
  PROVE  SessionInv'
  <1>1. /\ Shape /\ Own(s) /\ UnderWay(s)' /\ CallFds(s)' /\ Turns(s)' /\ Attachment(s)'
        /\ (\A x \in calls' : x.s # s) /\ (\A x \in answers' : x.s = s => x = r)
        /\ Matches(s, c.kind)
    BY RepliedFacts
  <1>2. PICK f \in Fds : f = c.fd
    BY <1>1 DEF Own, CallFds
  <1>3. f \in kfds[s]
    BY <1>1, <1>2, NativeAssumption DEF Own, CallFds
  <1>4. /\ kfds'[s] = kfds[s] \ {f}
        /\ \A t \in Sessions \ {s} : kfds'[t] = kfds[t] /\ f \notin kfds[t]
    BY <1>2, <1>3 DEF SessionInv, Disjoint
  <1>5. Shape' /\ kfds'[s] \subseteq kfds[s]
    <2>1. kfds' \in [Sessions -> SUBSET Fds]
      BY <1>1 DEF Shape
    <2> QED
      BY <1>1, <1>4, <2>1 DEF Shape, Replied
  <1>6. \A t \in Sessions \ {s} : Same(t)
    BY <1>2, <1>4 DEF Same, Replied
  <1>7. /\ phase[s] = "ready"
        /\ s \notin fatal /\ c.kind = "close" => run[s].kind = "close"
        /\ s \notin fatal /\ c.kind = "drop" => s \in awaited /\ stage[s] = "fds"
    BY <1>1 DEF Matches, Kinds, Attaches
  <1>8. Fresh(s)' /\ DiskState(s)'
    BY <1>1, <1>7 DEF Own, Fresh, DiskState, Replied
  <1>9. DiskCalls(s)'
    BY <1>1 DEF DiskCalls, Attaches
  <1>10. QueueFds(s)' /\ Books(s)' /\ AnswerFds(s)'
    <2>1. CASE s \in fatal
      BY <2>1 DEF QueueFds, Books, AnswerFds, Replied
    <2>2. CASE s \notin fatal /\ c.kind = "close"
      <3>1. f \notin fds[s] /\ \A i \in DOMAIN queue[s] : queue[s][i].fd # f
        BY <1>1, <1>2, <2>2 DEF Own, CallFds
      <3>2. run[s] # None /\ run[s].kind = "close"
        BY <1>7, <2>2, SMTT(60) DEF None, Op
      <3>3. stage[s] \in {"open", "idle"}
        BY <1>1, <2>2, <3>2 DEF Own, Turns, Idle
      <3>4. QueueFds(s)'
        BY <1>1, <1>4, <2>2, <3>1 DEF Own, QueueFds, Replied
      <3>5. Books(s)'
        BY <1>1, <1>2, <1>4, <2>2, <3>1, <3>2, <3>3 DEF Own, Books, Replied
      <3>6. AnswerFds(s)'
        BY <1>1, <2>2 DEF AnswerFds
      <3> QED
        BY <3>4, <3>5, <3>6
    <2>3. CASE s \notin fatal /\ c.kind = "drop"
      <3>1. f \notin left[s] /\ kfds[s] \subseteq left[s] \cup given \cup {f}
        BY <1>1, <1>2, <2>3 DEF Own, CallFds
      <3>2. s \in awaited /\ stage[s] = "fds" /\ queue[s] = <<>>
        BY <1>1, <1>7, <2>3 DEF Own, Turns, Idle
      <3>3. QueueFds(s)'
        <4>1. DOMAIN queue'[s] = {}
          BY <3>2, SMTT(60) DEF Replied
        <4> QED
          BY <4>1 DEF QueueFds
      <3>4. Books(s)'
        BY <1>1, <1>4, <2>3, <3>1, <3>2 DEF Own, Books, Replied
      <3>5. AnswerFds(s)'
        BY <1>1, <1>2, <1>4, <2>3, <3>1 DEF AnswerFds, Replied
      <3> QED
        BY <3>3, <3>4, <3>5
    <2> QED
      BY <2>1, <2>2, <2>3
  <1> QED
    BY <1>1, <1>5, <1>6, <1>8, <1>9, <1>10, OneConcerned DEF Own

(* A worker serves a call. *)
LEMMA ServeKeeps == ASSUME SessionInv, NEW c \in calls, Serve(c) PROVE SessionInv'
  <1>1. PICK s \in Sessions : s = c.s /\ c.kind \in CallKinds
    BY DEF SessionInv, Shape
  <1>2. ASSUME NEW ok \in BOOLEAN, NEW f \in Fds \cup {NoFd}, Result(c, ok, f)
        PROVE  \E r \in Results :
                 r.s = s /\ r.kind = c.kind /\ r.ok = ok /\ r.fd = f /\ Replied(c, r)
    <2> DEFINE r == [s |-> c.s, kind |-> c.kind, fd |-> f, ok |-> ok]
    <2>1. r \in Results
      BY <1>1 DEF Results, CallKinds
    <2>2. Replied(c, r)
      BY <1>2 DEF Serve, Result, Replied, session, ops, closing
    <2> QED
      BY <1>1, <2>1, <2>2
  <1>3. CASE /\ c.kind \in {"init", "open"} \cup Attaches
             /\ Result(c, FALSE, NoFd) /\ UNCHANGED <<disk, kfds, given>>
    <2>1. PICK r \in Results : r.s = s /\ r.kind = c.kind /\ r.ok = FALSE /\ Replied(c, r)
      BY <1>2, <1>3
    <2> QED
      BY <1>1, <1>3, <2>1, ServeQuiet
  <1>4. CASE /\ c.kind \in {"init", "op"}
             /\ Result(c, TRUE, NoFd) /\ UNCHANGED <<disk, kfds, given>>
    <2>1. PICK r \in Results : r.s = s /\ r.kind = c.kind /\ Replied(c, r)
      BY <1>2, <1>4
    <2> QED
      BY <1>1, <1>4, <2>1, ServeQuiet
  <1>5. CASE /\ c.kind \in Attaches /\ disk' = [disk EXCEPT ![c.s] = c.kind]
             /\ Result(c, TRUE, NoFd) /\ UNCHANGED <<kfds, given>>
    <2>1. PICK r \in Results : r.s = s /\ r.kind = c.kind /\ r.ok = TRUE /\ Replied(c, r)
      BY <1>2, <1>5
    <2>2. PICK d \in {"none"} \cup Attaches : d = c.kind
      BY <1>5
    <2>3. disk' = [disk EXCEPT ![s] = d] /\ c.kind \in Attaches /\ UNCHANGED <<kfds, given>>
      BY <1>1, <1>5, <2>2
    <2> QED
      BY <1>1, <2>1, <2>2, <2>3, ServeDisk
  <1>6. CASE /\ c.kind = "open"
             /\ \E f \in Fds \ UNION {kfds[t] : t \in Sessions} :
                  kfds' = [kfds EXCEPT ![c.s] = @ \cup {f}] /\ Result(c, TRUE, f)
             /\ UNCHANGED <<disk, given>>
    <2>1. PICK f \in Fds \ UNION {kfds[t] : t \in Sessions} :
            kfds' = [kfds EXCEPT ![s] = kfds[s] \cup {f}] /\ Result(c, TRUE, f)
      BY <1>1, <1>6
    <2>2. PICK r \in Results :
            r.s = s /\ r.kind = c.kind /\ r.ok = TRUE /\ r.fd = f /\ Replied(c, r)
      BY <1>2, <2>1
    <2>3. /\ r.fd \in Fds /\ \A t \in Sessions : r.fd \notin kfds[t]
          /\ kfds' = [kfds EXCEPT ![s] = kfds[s] \cup {r.fd}]
      BY <2>1, <2>2
    <2> QED
      BY <1>1, <1>6, <2>2, <2>3, ServeOpen
  <1>7. CASE /\ c.kind \in {"close", "drop"}
             /\ kfds' = [t \in Sessions |-> kfds[t] \ {c.fd}] /\ given' = given \ {c.fd}
             /\ Result(c, TRUE, NoFd) /\ UNCHANGED disk
    <2>1. PICK r \in Results : r.s = s /\ r.kind = c.kind /\ Replied(c, r)
      BY <1>2, <1>7
    <2> QED
      BY <1>1, <1>7, <2>1, ServeClose
  <1>8. CASE /\ c.kind = "disk" /\ disk' = [disk EXCEPT ![c.s] = "none"]
             /\ Result(c, TRUE, NoFd) /\ UNCHANGED <<kfds, given>>
    <2>1. PICK r \in Results : r.s = s /\ r.kind = c.kind /\ r.ok = TRUE /\ Replied(c, r)
      BY <1>2, <1>8
    <2>2. disk' = [disk EXCEPT ![s] = "none"] /\ "none" \in {"none"} \cup Attaches
      BY <1>1, <1>8
    <2> QED
      BY <1>1, <1>8, <2>1, <2>2, ServeDisk
  <1> QED
    BY <1>3, <1>4, <1>5, <1>6, <1>7, <1>8 DEF Serve

(* A call that never returns *)
LEMMA WedgeKeeps == ASSUME SessionInv, NEW c \in calls, Wedge(c) PROVE SessionInv'
  <1>1. /\ calls' = calls \ {c}
        /\ UNCHANGED <<phase, disposed, fatal, handle, proxyId, fds, attach, queue, run, guarded,
                       stage, left, awaited, answers, disk, kfds, proxies, given>>
    BY DEF Wedge, session, ops, closing
  <1>2. Shape' /\ Disjoint'
    BY <1>1 DEF SessionInv, Shape, Disjoint
  <1>3. \A t \in Sessions : Same(t)
    BY <1>1 DEF Same
  <1> QED
    BY <1>2, <1>3, OthersKeep DEF SessionInv

(* Only a session that has not died makes a call. *)
LEMMA CreateCalls ==
  ASSUME SessionInv, NEW s \in Sessions, Create(s)
  PROVE  \A c \in calls' \ calls : c.s \notin fatal'
  <1>1. s \notin fatal
    BY DEF SessionInv, Own, Fresh, Create
  <1>2. CASE dead \/ failed
    BY <1>2 DEF Create
  <1>3. CASE ~dead /\ ~failed
    <2>1. fatal' = fatal /\ calls' \subseteq calls \cup {Call(s, "init", NoFd)}
      BY <1>3 DEF Create
    <2> QED
      BY <1>1, <2>1, SMTT(60) DEF Call
  <1> QED
    BY <1>2, <1>3

-----------------------------------------------------------------------------
(* Theorems *)

NewCallsLive == \A c \in calls' \ calls : c.s \notin fatal'

(* The steps of a session's operations keep the invariant. *)
LEMMA SessionSteps ==
  ASSUME SessionInv, NEW s \in Sessions, Steps(s) PROVE SessionInv' /\ NewCallsLive
  <1>1. CASE Turn(s)
    <2>1. CASE s \in fatal \cup disposed
      BY <1>1, <2>1, TurnRefused DEF NewCallsLive, Turn, TurnWith
    <2>2. CASE s \notin fatal \cup disposed
      BY <1>1, <2>2, TurnAccepted DEF NewCallsLive
    <2> QED
      BY <2>1, <2>2
  <1>2. CASE ProxyStarted(s)
    BY <1>2, ProxyStartedKeeps DEF NewCallsLive, ProxyStarted, bridge
  <1>3. CASE AttachStopped(s)
    BY <1>3, AttachStoppedKeeps DEF NewCallsLive, AttachStopped, bridge
  <1>4. CASE DisposeIdle(s)
    BY <1>4, DisposeIdleKeeps DEF NewCallsLive, DisposeIdle, StartDispose, bridge
  <1>5. CASE DisposeFd(s)
    BY <1>5, DisposeFdKeeps DEF NewCallsLive
  <1>6. CASE DisposeDisk(s)
    <2>1. CASE s \in handle \ fatal
      BY <1>6, <2>1, DisposeDiskCalls DEF NewCallsLive
    <2>2. CASE s \notin handle \ fatal
      BY <1>6, <2>2, DiskDoneKeeps DEF NewCallsLive, DisposeDisk
    <2> QED
      BY <2>1, <2>2
  <1>7. CASE DisposeDiskDone(s)
    BY <1>7, DiskDoneKeeps DEF NewCallsLive, DisposeDiskDone, bridge
  <1>8. CASE DisposeStopped(s)
    BY <1>8, DisposeStoppedKeeps DEF NewCallsLive, DisposeStopped, bridge
  <1> QED
    BY <1>1, <1>2, <1>3, <1>4, <1>5, <1>6, <1>7, <1>8 DEF Steps

(* The uses of a session keep the invariant. *)
LEMMA SessionUses ==
  ASSUME SessionInv, NEW s \in Sessions, Uses(s) PROVE SessionInv' /\ NewCallsLive
  <1>1. CASE Create(s)
    BY <1>1, CreateKeeps, CreateCalls DEF NewCallsLive
  <1>2. CASE attachPath(s)
    BY <1>2, AttachPathKeeps DEF NewCallsLive, attachPath, bridge
  <1>3. CASE attachUrl(s)
    BY <1>3, AttachUrlKeeps DEF NewCallsLive, attachUrl, bridge
  <1>4. CASE Close(s)
    BY <1>4, CloseKeeps DEF NewCallsLive, Close, bridge
  <1>5. CASE CallOp(s, "open", NoFd)
    BY <1>5, CallOpKeeps DEF NewCallsLive, CallOp, bridge
  <1>6. ASSUME NEW f \in fds[s] \cup {NoFd}, CallOp(s, "op", f)
        PROVE  SessionInv' /\ NewCallsLive
    BY <1>6, CallOpKeeps DEF NewCallsLive, CallOp, bridge
  <1>7. ASSUME NEW f \in fds[s], CloseFd(s, f)
        PROVE  SessionInv' /\ NewCallsLive
    BY <1>7, CloseFdSafe DEF NewCallsLive, CloseFd, CloseFdWith, bridge
  <1> QED
    BY <1>1, <1>2, <1>3, <1>4, <1>5, <1>6, <1>7 DEF Uses

(* Every step keeps the invariant, and no call is made for a fatal session. *)
LEMMA StepInv == SessionInv /\ [Next]_vars => SessionInv' /\ NewCallsLive
  <1> SUFFICES ASSUME SessionInv, [Next]_vars PROVE SessionInv' /\ NewCallsLive
    OBVIOUS
  <1>1. ASSUME NEW s \in Sessions, Steps(s) PROVE SessionInv' /\ NewCallsLive
    BY <1>1, SessionSteps
  <1>2. ASSUME NEW s \in Sessions, Uses(s) PROVE SessionInv' /\ NewCallsLive
    BY <1>2, SessionUses
  <1>3. ASSUME NEW s \in Sessions, Timeout(s) PROVE SessionInv' /\ NewCallsLive
    BY <1>3, TimeoutKeeps DEF NewCallsLive, Timeout, bridge
  <1>4. ASSUME NEW c \in calls, Serve(c) PROVE SessionInv' /\ NewCallsLive
    BY <1>4, ServeKeeps DEF NewCallsLive, Serve
  <1>5. ASSUME NEW a \in answers, Answer(a) PROVE SessionInv' /\ NewCallsLive
    BY <1>5, AnswerKeeps DEF NewCallsLive, Answer, AnswerWith
  <1>6. ASSUME HostFatal PROVE SessionInv' /\ NewCallsLive
    BY <1>6, HostFatalKeeps DEF NewCallsLive, HostFatal, bridge
  <1>7. ASSUME NEW c \in calls, Wedge(c) PROVE SessionInv' /\ NewCallsLive
    BY <1>7, WedgeKeeps DEF NewCallsLive, Wedge
  <1>8. CASE UNCHANGED vars
    <2>1. UNCHANGED <<phase, disposed, fatal, handle, proxyId, fds, attach, queue, run, guarded,
                      stage, left, awaited, calls, answers, disk, kfds, proxies, given>>
      BY <1>8 DEF vars, session, ops, closing, bridge, addon
    <2>2. Shape' /\ Disjoint'
      BY <2>1 DEF SessionInv, Shape, Disjoint
    <2>3. \A t \in Sessions : Same(t)
      BY <2>1 DEF Same
    <2> QED
      BY <2>1, <2>2, <2>3, OthersKeep DEF SessionInv, NewCallsLive
  <1> QED
    BY <1>1, <1>2, <1>3, <1>4, <1>5, <1>6, <1>7, <1>8 DEF Next, Served, Answered

(* The invariant of the sessions: who waits for which call, which fds are  *)
(* open in the kernel for which session and who will close them, and what  *)
(* disk and proxy a session has.                                           *)
THEOREM SessionsInvariant == Spec => []SessionInv
  BY InitInv, StepInv, PTL DEF Spec

(* OwnFd: an fd that serialize, closeFd or _dispose hands to the addon is  *)
(* open for the session that hands it, so a number that the kernel has     *)
(* reused for another session is never read or closed.                     *)
THEOREM FdsOwn == Spec => []OwnFd
  <1>1. SessionInv => OwnFd
    BY DEF SessionInv, Shape, Own, CallFds, OwnFd
  <1> QED
    BY <1>1, SessionsInvariant, PTL

(* TornDown: _dispose closes the fds before the disk and the disk before   *)
(* its proxy, and leaves no disk behind.                                   *)
THEOREM TakenDown == Spec => []TornDown
  <1>1. SessionInv => FdsBeforeDisk
    BY DEF SessionInv, Shape, Own, CallFds, FdsBeforeDisk
  <1>2. SessionInv => ProxyUnderDisk
    BY DEF SessionInv, Own, DiskState, ProxyUnderDisk
  <1>3. SessionInv => ClosedReleases
    BY DEF SessionInv, Own, DiskState, ClosedReleases
  <1>4. SessionInv => TornDown
    BY <1>1, <1>2, <1>3 DEF TornDown
  <1> QED
    BY <1>4, SessionsInvariant, PTL

(* CallsInTurn: serialize and _dispose put at most one call of a session   *)
(* into the addon, and a session that died calls it no more.               *)
THEOREM InTurn == Spec => CallsInTurn
  <1>1. SessionInv' => \A c, d \in calls' : c.s = d.s => c = d
    BY DEF SessionInv, Shape, Own, UnderWay
  <1>2. SessionInv /\ [Next]_vars =>
          [/\ \A c, d \in calls' : c.s = d.s => c = d
           /\ \A c \in calls' \ calls : c.s \notin fatal']_vars
    BY <1>1, StepInv DEF NewCallsLive
  <1> QED
    BY <1>2, SessionsInvariant, PTL DEF Spec, CallsInTurn
=============================================================================
