------------------------------ MODULE NbdServer -------------------------------
(* anyfs-nbd-proxy --fd (nbd-proxy/src/nbd-server.ts, endpoint.ts): one client *)
(* on a socket, reads served concurrently from a data source, replies written  *)
(* one frame at a time in the order the reads complete.                        *)
(*                                                                             *)
(* The client sends frames of two pieces each; the socket delivers pieces.     *)
EXTENDS Integers, Sequences, FiniteSets

CONSTANTS Cookies,        \* of the client's requests, each used once (bound)
          MAX_IN_FLIGHT,
          MaxOptions      \* options a client haggles over (bound)

ASSUME NbdAssumption ==
  /\ Cookies \subseteq Nat \ {0} /\ IsFiniteSet(Cookies)
  /\ MAX_IN_FLIGHT \in Nat \ {0} /\ MaxOptions \in Nat

VARIABLES
  nphase,     \* where serveNbd is
  goal, waitsFor,   \* after the write it awaits; the handle of that write
  conn,       \* "up", "ended" by the client, "closed" after that, "error"
  frames,     \* sent by the client and not taken by the server yet
  pieces,     \* of them, those that arrived (reader.buffered)
  asked,      \* handle -> the command sent with it
  options,    \* options sent so far; GO or ABORT ends them
  haggled,    \* the client sent GO or ABORT
  wq,         \* frames in the writer's chain
  chain,      \* the chain has not been rejected
  wire,       \* handle -> the replies the socket took
  jobs,       \* handle -> the state of its read
  inFlight, slotWaiter,
  srcOpen     \* the data source is open

nbd == <<nphase, goal, waitsFor, inFlight, slotWaiter, srcOpen>>
client == <<conn, frames, pieces, asked, options, haggled>>
writer == <<wq, chain, wire>>
nbdvars == <<nbd, client, writer, jobs>>

Options == {"go", "info", "abort", "other"}
Commands == {"read", "beyond", "flush", "disc", "write"}
Handshake == 0     \* the handle of a frame of the handshake

NbdInit ==
  /\ nphase = "await" /\ goal = "options" /\ waitsFor = Handshake /\ inFlight = 0 /\ slotWaiter = FALSE /\ srcOpen = TRUE
  /\ conn = "up" /\ frames = <<>> /\ pieces = 0
  /\ asked = [h \in Cookies |-> "none"] /\ options = 0 /\ haggled = FALSE
  /\ wq = <<[to |-> Handshake, what |-> "hello"]>> /\ chain = TRUE /\ wire = [h \in Cookies |-> <<>>]
  /\ jobs = [h \in Cookies |-> "none"]

-----------------------------------------------------------------------------
(* The client's side (external): flags and options, each after the reply to   *)
(* the one before, then requests as it likes.                                  *)
NoneOpen == /\ \A i \in 1..Len(frames) : frames[i].h # Handshake
           /\ \A i \in 1..Len(wq) : wq[i].to # Handshake

Sends(what, h) ==
  /\ conn = "up" /\ nphase \notin {"over", "thrown"}
  /\ frames' = Append(frames, [what |-> what, h |-> h])
  /\ UNCHANGED <<conn, pieces>>

clientOption ==
  /\ ~haggled /\ NoneOpen /\ options < MaxOptions
  /\ \E o \in Options \cup {"badmagic"} :
       Sends(o, Handshake) /\ haggled' = (o \in {"go", "abort"})
  /\ options' = options + 1
  /\ UNCHANGED <<asked, nbd, writer, jobs>>

clientRequest(h) ==
  /\ haggled /\ NoneOpen /\ asked[h] = "none" /\ \A g \in Cookies : g < h => asked[g] # "none"
  /\ \E c \in Commands \cup {"badmagic"} :
       Sends(c, h) /\ asked' = [asked EXCEPT ![h] = c]
  /\ UNCHANGED <<options, haggled, nbd, writer, jobs>>

(* The client half-closes, or the connection breaks. *)
clientGone ==
  /\ conn \in {"up", "ended"} /\ nphase \notin {"over", "thrown"}
  /\ conn' \in {"ended", "error"} \ {conn}
  /\ UNCHANGED <<frames, pieces, asked, options, haggled, nbd, writer, jobs>>

(* The socket's data event. *)
data ==
  /\ pieces < 2 * Len(frames) /\ conn # "error"
  /\ pieces' = pieces + 1
  /\ UNCHANGED <<conn, frames, asked, options, haggled, nbd, writer, jobs>>

(* Its end event, after the last data.  The socket has allowHalfOpen = false: *)
(* a write after that event fails.                                            *)
socketEnd ==
  /\ conn = "ended" /\ pieces = 2 * Len(frames)
  /\ conn' = "closed"
  /\ UNCHANGED <<frames, pieces, asked, options, haggled, nbd, writer, jobs>>

-----------------------------------------------------------------------------
(* makeReader: a read takes a whole frame, or rejects at the end of the stream. *)
HasFrame == pieces >= 2
TakeFrame == /\ frames' = Tail(frames) /\ pieces' = pieces - 2
        /\ UNCHANGED <<conn, asked, options, haggled>>
AtEnd == pieces < 2 /\ conn \in {"error", "closed"}

Sent(f) == IF f.to = Handshake THEN wire ELSE [wire EXCEPT ![f.to] = Append(@, f.what)]

(* makeWriter: the socket takes the frame at the head of the chain, or fails  *)
(* and with it the chain.                                                     *)
socketWrite ==
  /\ wq # <<>>
  /\ \/ conn \in {"up", "ended"} /\ wire' = Sent(Head(wq)) /\ wq' = Tail(wq) /\ UNCHANGED chain
     \/ conn \in {"error", "closed"} /\ chain' = FALSE /\ wq' = <<>> /\ UNCHANGED wire
  /\ UNCHANGED <<client, nbd, jobs>>

(* A frame is chained behind the others; on a broken chain it rejects. *)
Write(h, what) ==
  /\ wq' = IF chain THEN Append(wq, [to |-> h, what |-> what]) ELSE wq
  /\ UNCHANGED <<chain, wire>>

Written(h) == chain /\ \A i \in 1..Len(wq) : wq[i].to # h

(* serveNbd goes on at p, with the write it awaits and where that leads. *)
GoesTo(p) == nphase' = p /\ UNCHANGED <<inFlight, slotWaiter, srcOpen>>
Awaits(what, h, next) ==
  /\ Write(h, what)
  /\ nphase' = "await" /\ goal' = next /\ waitsFor' = h
  /\ UNCHANGED <<inFlight, slotWaiter, srcOpen>>

(* Haggling until GO or ABORT.  The flags and an option's payload are part of *)
(* the option's frame here; INFO and ACK are one frame.                       *)
haggle ==
  /\ nphase = "options"
  /\ \/ /\ HasFrame /\ TakeFrame
        /\ LET o == Head(frames).what IN
           \/ o \in {"info", "other"} /\ Awaits("option", Handshake, "options")
           \/ o = "go" /\ Awaits("option", Handshake, "transmit")
           \/ o = "abort" /\ Awaits("option", Handshake, "return")
           \/ o = "badmagic" /\ GoesTo("thrown") /\ UNCHANGED <<writer, goal, waitsFor>>
     \/ AtEnd /\ GoesTo("thrown") /\ UNCHANGED <<client, writer, goal, waitsFor>>
  /\ UNCHANGED jobs

(* The awaited write settles.  A failed one ends the haggling with an error,   *)
(* and the transmission with the drain.                                        *)
resume ==
  /\ nphase = "await"
  /\ \/ Written(waitsFor) /\ GoesTo(goal)
     \/ ~chain /\ GoesTo(IF waitsFor = Handshake THEN "thrown" ELSE "drain")
  /\ UNCHANGED <<client, writer, goal, waitsFor, jobs>>

(* The top of the transmission loop: at the limit, wait for a slot. *)
atLimit ==
  /\ nphase = "transmit" /\ inFlight >= MAX_IN_FLIGHT
  /\ nphase' = "slot" /\ slotWaiter' = TRUE
  /\ UNCHANGED <<inFlight, srcOpen, client, writer, goal, waitsFor, jobs>>

(* The next request, or the end of the stream. *)
request ==
  /\ (nphase = "transmit" /\ inFlight < MAX_IN_FLIGHT) \/ nphase = "next"
  /\ \/ /\ HasFrame /\ TakeFrame
        /\ LET c == Head(frames).what
               h == Head(frames).h
           IN \/ /\ c \in {"read", "beyond"}
                 /\ inFlight' = inFlight + 1 /\ nphase' = "transmit"
                 /\ \/ /\ c = "read" /\ jobs' = [jobs EXCEPT ![h] = "reading"]
                       /\ UNCHANGED writer
                    \/ /\ c = "beyond" /\ jobs' = [jobs EXCEPT ![h] = "replying"]
                       /\ Write(h, "EINVAL")
                 /\ UNCHANGED <<slotWaiter, srcOpen, goal, waitsFor>>
              \/ c = "flush" /\ Awaits("ok", h, "transmit") /\ UNCHANGED jobs
              \/ c = "write" /\ Awaits("EINVAL", h, "transmit") /\ UNCHANGED jobs
              \/ c = "disc" /\ GoesTo("drain") /\ UNCHANGED <<writer, goal, waitsFor, jobs>>
              \/ c = "badmagic" /\ GoesTo("thrown") /\ UNCHANGED <<writer, goal, waitsFor, jobs>>
     \/ AtEnd /\ GoesTo("drain") /\ UNCHANGED <<client, writer, goal, waitsFor, jobs>>

(* source.read settles: the bytes asked for, too few of them, or an error. *)
sourceRead(h) ==
  /\ jobs[h] = "reading"
  /\ \E r \in {"data", "EIO"} : Write(h, r)
  /\ jobs' = [jobs EXCEPT ![h] = "replying"]
  /\ UNCHANGED <<client, nbd>>

(* The finally clause of a read: its slot is free and whoever waits for one *)
(* goes on.                                                                 *)
Finally(h) ==
  /\ jobs' = [jobs EXCEPT ![h] = "done"]
  /\ inFlight' = inFlight - 1
  /\ slotWaiter' = FALSE
  /\ nphase' = IF slotWaiter THEN "next" ELSE nphase
  /\ UNCHANGED <<srcOpen, goal, waitsFor>>

(* The reply of a read settles.  One that fails is tried again as EIO, on the *)
(* chain as it is then.                                                       *)
replied(h) ==
  /\ jobs[h] = "replying"
  /\ \/ Written(h) /\ Finally(h)
     \/ ~chain /\ Finally(h)
  /\ UNCHANGED <<client, writer>>

(* Mutant: serveNbd returns without waiting for the reads in flight. *)
returnAtOnce ==
  /\ nphase \in {"drain", "return"}
  /\ nphase' = "over" /\ srcOpen' = FALSE
  /\ UNCHANGED <<inFlight, slotWaiter, goal, waitsFor, client, writer, jobs>>

(* Promise.allSettled, then main closes the source. *)
return ==
  /\ \/ nphase = "drain" /\ \A h \in Cookies : jobs[h] \notin {"reading", "replying"}
     \/ nphase = "return"
  /\ nphase' = "over" /\ srcOpen' = FALSE
  /\ UNCHANGED <<inFlight, slotWaiter, goal, waitsFor, client, writer, jobs>>

-----------------------------------------------------------------------------
(* The process exits when serveNbd throws.  Until then the event loop runs     *)
(* what is ready, and the source answers: ServerStep is fair.                  *)
ServerStep ==
  /\ nphase # "thrown"
  /\ \/ data \/ socketEnd \/ socketWrite \/ haggle \/ resume \/ atLimit \/ request \/ return
     \/ \E h \in Cookies : sourceRead(h) \/ replied(h)

NbdNext ==
  \/ clientOption \/ clientGone \/ ServerStep
  \/ \E h \in Cookies : clientRequest(h)

(* The NBD server on its own, without fairness. *)
NbdSpec == NbdInit /\ [][NbdNext]_nbdvars

-----------------------------------------------------------------------------
(* The replies a command may get. *)
May(c) ==
  CASE c = "read" -> {"data", "EIO"}
    [] c \in {"beyond", "write"} -> {"EINVAL"}
    [] c = "flush" -> {"ok"}
    [] OTHER -> {}

(* Every reply on the wire answers one request of the client, once, with what *)
(* that request may get; no read is under way in a source that was closed;    *)
(* and when serveNbd returns and the socket took every write, every read it   *)
(* took has its reply (what completes after the client has half-closed has    *)
(* none: the socket refuses the write).                                       *)
RepliesMatch ==
  /\ \A h \in Cookies :
       /\ Len(wire[h]) <= 1
       /\ \A i \in 1..Len(wire[h]) : wire[h][i] \in May(asked[h])
       /\ nphase = "over" /\ jobs[h] # "none" /\ chain => wire[h] # <<>>
  /\ ~srcOpen => \A h \in Cookies : jobs[h] # "reading"
  /\ inFlight = Cardinality({h \in Cookies : jobs[h] \in {"reading", "replying"}})
  /\ inFlight <= MAX_IN_FLIGHT

(* A request that was sent is answered, or the connection ends: the server    *)
(* never waits for a slot, a frame or a reply that cannot come.               *)
Answered(h) == asked[h] = "none" \/ wire[h] # <<>>
NbdIdle ==
  nphase \in {"over", "thrown"} \/ (conn = "up" /\ \A h \in Cookies : Answered(h))
NbdServes == []<>NbdIdle
=============================================================================
