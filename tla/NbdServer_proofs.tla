-------------------------- MODULE NbdServer_proofs ---------------------------
(***************************************************************************)
(* Theorems about the NBD server (NbdServer), for any requests of the      *)
(* client and any limit on the reads in flight.                            *)
(***************************************************************************)
EXTENDS NbdServer, FiniteSetTheorems, TLAPS

\* A leaf that names no prover is for Zenon.
USE ZenonT(60)

Replies == {"data", "EIO", "EINVAL", "ok"}
Frame == [what : Options \cup Commands \cup {"badmagic"}, h : Cookies \cup {Handshake}]
Reply == [to : Cookies \cup {Handshake}, what : Replies \cup {"hello", "option"}]

NbdShape ==
  /\ frames \in Seq(Frame) /\ pieces \in Nat /\ pieces <= 2 * Len(frames)
  /\ wq \in Seq(Reply) /\ wire \in [Cookies -> Seq(Replies)]
  /\ jobs \in [Cookies -> {"none", "reading", "replying", "done"}]
  /\ asked \in [Cookies -> Commands \cup {"badmagic", "none"}]
  /\ inFlight \in Nat

Active == {c \in Cookies : jobs[c] \in {"reading", "replying"}}

(* Where serveNbd is: no read is taken before the transmission, the loop   *)
(* waits for a slot only in its place, and what is over stays over.        *)
PhaseInv ==
  /\ nphase \in {"options", "return"} \/ (nphase = "await" /\ waitsFor = Handshake) =>
       \A c \in Cookies : jobs[c] = "none"
  /\ nphase = "await" /\ waitsFor # Handshake => goal = "transmit"
  /\ nphase = "await" => goal \in {"options", "transmit", "return"}
  /\ slotWaiter => nphase = "slot"
  /\ nphase = "next" => inFlight < MAX_IN_FLIGHT
  /\ nphase = "over" => Active = {}
  /\ ~ srcOpen => nphase = "over"
  /\ inFlight = Cardinality(Active) /\ inFlight <= MAX_IN_FLIGHT

InFrames(c) == \E k \in 1 .. Len(frames) : frames[k].h = c
InChain(c) == \E k \in 1 .. Len(wq) : wq[k].to = c

FrameInv ==
  /\ \A k \in 1 .. Len(frames) :
       \/ frames[k].h = Handshake /\ frames[k].what \in Options \cup {"badmagic"}
       \/ frames[k].h \in Cookies /\ frames[k].what = asked[frames[k].h]
  /\ \A k, l \in 1 .. Len(frames) : frames[k].h = frames[l].h /\ frames[k].h \in Cookies => k = l

(* The chain holds one reply to a request at most, and one it may get.     *)
ChainInv(c) ==
  /\ \A k \in 1 .. Len(wq) : wq[k].to = c => wq[k].what \in May(asked[c])
  /\ \A k, l \in 1 .. Len(wq) : wq[k].to = c /\ wq[l].to = c => k = l

(* A request is in one place at a time: on its way to the server, read     *)
(* from the source, in the writer's chain or answered.                     *)
RequestInv(c) ==
  /\ asked[c] = "none" => ~ InFrames(c)
  /\ asked[c] = "none" \/ InFrames(c) => jobs[c] = "none" /\ ~ InChain(c) /\ wire[c] = <<>>
  /\ InChain(c) => wire[c] = <<>>
  /\ jobs[c] = "reading" => asked[c] = "read" /\ ~ InChain(c) /\ wire[c] = <<>>
  /\ ChainInv(c)
  /\ Len(wire[c]) <= 1
  /\ \A k \in 1 .. Len(wire[c]) : wire[c][k] \in May(asked[c])
  /\ jobs[c] = "replying" /\ chain => InChain(c) \/ wire[c] # <<>>
  /\ jobs[c] = "done" /\ chain => wire[c] # <<>>

NbdInv == NbdShape /\ PhaseInv /\ FrameInv /\ \A c \in Cookies : RequestInv(c)

(* Two places of a queue stay two when its head is taken. *)
LEMMA Shifted == \A k, l \in Nat : k + 1 = l + 1 => k = l
  BY SMTT(30)

(* The handle of the handshake is no request's. *)
LEMMA NoCookie == Handshake \notin Cookies
  BY NbdAssumption, SMTT(30) DEF Handshake

(* The client sends a frame. *)
LEMMA FrameSent ==
  ASSUME NbdShape, FrameInv, NEW f \in Frame, frames' = Append(frames, f),
         \A c \in Cookies : InFrames(c) => asked'[c] = asked[c],
         \/ f.h = Handshake /\ f.what \in Options \cup {"badmagic"}
         \/ f.h \in Cookies /\ f.what = asked'[f.h] /\ ~ InFrames(f.h)
  PROVE  /\ FrameInv' /\ frames' \in Seq(Frame) /\ Len(frames') = Len(frames) + 1
         /\ \A c \in Cookies : InFrames(c)' <=> InFrames(c) \/ f.h = c
  <1>1. /\ frames' \in Seq(Frame) /\ Len(frames') = Len(frames) + 1
        /\ \A k \in 1 .. Len(frames) : k \in 1 .. Len(frames') /\ frames'[k] = frames[k]
        /\ Len(frames') \in 1 .. Len(frames') /\ frames'[Len(frames')] = f
        /\ \A k \in 1 .. Len(frames') : k = Len(frames') \/ k \in 1 .. Len(frames)
    <2>1. frames \in Seq(Frame)
      BY DEF NbdShape
    <2> QED
      BY <2>1, SMTT(60)
  <1>2. \A c \in Cookies : InFrames(c)' <=> InFrames(c) \/ f.h = c
    BY <1>1 DEF InFrames
  <1>3. ASSUME NEW k \in 1 .. Len(frames')
        PROVE  \/ frames'[k].h = Handshake /\ frames'[k].what \in Options \cup {"badmagic"}
               \/ frames'[k].h \in Cookies /\ frames'[k].what = asked'[frames'[k].h]
    <2>1. CASE k = Len(frames')
      BY <1>1, <2>1
    <2>2. CASE k \in 1 .. Len(frames)
      <3>1. frames'[k] = frames[k]
        BY <1>1, <2>2
      <3>2. ASSUME frames[k].h \in Cookies
            PROVE  asked'[frames[k].h] = asked[frames[k].h]
        BY <2>2, <3>2 DEF InFrames
      <3> QED
        BY <2>2, <3>1, <3>2 DEF FrameInv
    <2> QED
      BY <1>1, <2>1, <2>2
  <1>4. ASSUME NEW k \in 1 .. Len(frames'), NEW l \in 1 .. Len(frames'),
               frames'[k].h = frames'[l].h, frames'[k].h \in Cookies
        PROVE  k = l
    <2>1. CASE k \in 1 .. Len(frames) /\ l \in 1 .. Len(frames)
      BY <1>1, <1>4, <2>1 DEF FrameInv
    <2>2. ASSUME NEW j \in 1 .. Len(frames), frames[j].h = f.h, f.h \in Cookies
          PROVE  FALSE
      BY <2>2, NoCookie DEF InFrames
    <2> QED
      BY <1>1, <1>4, <2>1, <2>2
  <1> QED
    BY <1>1, <1>2, <1>3, <1>4 DEF FrameInv

(* The server takes the frame at the head. *)
LEMMA FrameTaken ==
  ASSUME NbdShape, FrameInv, HasFrame, TakeFrame
  PROVE  /\ FrameInv' /\ frames' \in Seq(Frame) /\ pieces' \in Nat /\ pieces' <= 2 * Len(frames')
         /\ \/ Head(frames).h = Handshake /\ Head(frames).what \in Options \cup {"badmagic"}
            \/ /\ Head(frames).h \in Cookies /\ Head(frames).what = asked[Head(frames).h]
               /\ InFrames(Head(frames).h)
         /\ \A c \in Cookies : InFrames(c)' <=> InFrames(c) /\ c # Head(frames).h
  <1>1. frames # <<>> /\ pieces' \in Nat
    BY SMTT(30) DEF NbdShape, HasFrame, TakeFrame
  <1>2. /\ frames' \in Seq(Frame) /\ Len(frames') = Len(frames) - 1 /\ Len(frames) \in Nat
        /\ 1 \in 1 .. Len(frames) /\ Head(frames) = frames[1]
        /\ \A k \in 1 .. Len(frames') : k + 1 \in 1 .. Len(frames) /\ k + 1 # 1 /\ frames'[k] = frames[k + 1]
        /\ \A k \in 1 .. Len(frames) : k = 1 \/ (k - 1 \in 1 .. Len(frames') /\ frames'[k - 1] = frames[k])
    <2>1. frames \in Seq(Frame) /\ frames' = Tail(frames)
      BY DEF NbdShape, TakeFrame
    <2> QED
      BY <1>1, <2>1, SMTT(60)
  <1>3. pieces' <= 2 * Len(frames')
    BY <1>1, <1>2, SMTT(30) DEF NbdShape, HasFrame, TakeFrame
  <1>4. asked' = asked
    BY DEF TakeFrame
  <1>5. \A k \in 1 .. Len(frames') : k \in Nat
    BY <1>2, SMTT(30)
  <1>6. \A c \in Cookies : InFrames(c)' <=> InFrames(c) /\ c # Head(frames).h
    <2>1. ASSUME NEW c \in Cookies, InFrames(c)'
          PROVE  InFrames(c) /\ c # Head(frames).h
      <3>1. PICK k \in 1 .. Len(frames') : frames'[k].h = c
        BY <2>1 DEF InFrames
      <3>2. k + 1 \in 1 .. Len(frames) /\ frames[k + 1].h = c /\ k + 1 # 1
        BY <1>2, <3>1
      <3> QED
        BY <1>2, <3>2 DEF InFrames, FrameInv
    <2>2. ASSUME NEW c \in Cookies, InFrames(c), c # Head(frames).h
          PROVE  InFrames(c)'
      BY <1>2, <2>2 DEF InFrames
    <2> QED
      BY <2>1, <2>2
  <1>7. FrameInv'
    <2>1. ASSUME NEW k \in 1 .. Len(frames')
          PROVE  \/ frames'[k].h = Handshake /\ frames'[k].what \in Options \cup {"badmagic"}
                 \/ frames'[k].h \in Cookies /\ frames'[k].what = asked'[frames'[k].h]
      <3>1. PICK j \in 1 .. Len(frames) : frames'[k] = frames[j]
        BY <1>2
      <3> QED
        BY <1>4, <3>1 DEF FrameInv
    <2>2. ASSUME NEW k \in 1 .. Len(frames'), NEW l \in 1 .. Len(frames'),
                 frames'[k].h = frames'[l].h, frames'[k].h \in Cookies
          PROVE  k = l
      <3>1. PICK j \in 1 .. Len(frames) : j = k + 1 /\ frames'[k] = frames[j]
        BY <1>2
      <3>2. PICK n \in 1 .. Len(frames) : n = l + 1 /\ frames'[l] = frames[n]
        BY <1>2
      <3>3. j = n
        BY <2>2, <3>1, <3>2 DEF FrameInv
      <3> QED
        BY <1>5, <3>1, <3>2, <3>3, Shifted
    <2> QED
      BY <2>1, <2>2 DEF FrameInv
  <1>8. \/ Head(frames).h = Handshake /\ Head(frames).what \in Options \cup {"badmagic"}
        \/ /\ Head(frames).h \in Cookies /\ Head(frames).what = asked[Head(frames).h]
           /\ InFrames(Head(frames).h)
    BY <1>2 DEF FrameInv, InFrames
  <1> QED
    BY <1>1, <1>2, <1>3, <1>6, <1>7, <1>8

(* A frame is chained behind the others. *)
LEMMA ReplyChained ==
  ASSUME NbdShape, UNCHANGED asked, NEW t \in Cookies \cup {Handshake},
         NEW w \in Replies \cup {"hello", "option"}, Write(t, w)
  PROVE  /\ wq' \in Seq(Reply) /\ UNCHANGED <<chain, wire>>
         /\ \A c \in Cookies : c # t => (InChain(c)' <=> InChain(c)) /\ (ChainInv(c) => ChainInv(c)')
         /\ chain => InChain(t)'
         /\ t \in Cookies /\ ~ InChain(t) /\ w \in May(asked[t]) => ChainInv(t)'
  <1>1. wq \in Seq(Reply) /\ UNCHANGED <<chain, wire>>
    BY DEF NbdShape, Write
  <1>2. CASE ~ chain
    <2>1. wq' = wq
      BY <1>2 DEF Write
    <2> QED
      BY <1>1, <1>2, <2>1 DEF InChain, ChainInv
  <1>3. CASE chain
    <2> DEFINE e == [to |-> t, what |-> w]
    <2>1. e \in Reply /\ e.to = t /\ e.what = w
      BY SMTT(30) DEF Reply
    <2>2. wq' = Append(wq, e)
      BY <1>3 DEF Write
    <2> HIDE DEF e
    <2>3. /\ wq' \in Seq(Reply)
          /\ \A k \in 1 .. Len(wq) : k \in 1 .. Len(wq') /\ wq'[k] = wq[k]
          /\ Len(wq') \in 1 .. Len(wq') /\ wq'[Len(wq')] = e
          /\ \A k \in 1 .. Len(wq') : k = Len(wq') \/ k \in 1 .. Len(wq)
      BY <1>1, <2>1, <2>2, SMTT(60)
    <2>4. \A c \in Cookies : c # t => (InChain(c)' <=> InChain(c))
      BY <2>1, <2>3 DEF InChain
    <2>5. InChain(t)'
      BY <2>1, <2>3 DEF InChain
    <2>6. ASSUME NEW c \in Cookies, c # t, ChainInv(c)
          PROVE  ChainInv(c)'
      <3>1. \A k \in 1 .. Len(wq') : wq'[k].to = c => k \in 1 .. Len(wq) /\ wq'[k] = wq[k]
        BY <2>1, <2>3, <2>6
      <3> QED
        BY <2>6, <3>1 DEF ChainInv
    <2>7. ASSUME t \in Cookies, ~ InChain(t), w \in May(asked[t])
          PROVE  ChainInv(t)'
      <3>1. \A k \in 1 .. Len(wq') : wq'[k].to = t => k = Len(wq') /\ wq'[k].what = w
        BY <2>1, <2>3, <2>7 DEF InChain
      <3> QED
        BY <2>7, <3>1 DEF ChainInv
    <2> QED
      BY <1>1, <2>3, <2>4, <2>5, <2>6, <2>7
  <1> QED
    BY <1>2, <1>3

(* The socket takes the frame at the head of the chain. *)
LEMMA ReplyTaken ==
  ASSUME NbdShape, UNCHANGED asked, wq # <<>>, wq' = Tail(wq)
  PROVE  /\ wq' \in Seq(Reply) /\ Head(wq) \in Reply
         /\ \A c \in Cookies : ChainInv(c) =>
              /\ ChainInv(c)'
              /\ InChain(c)' <=> InChain(c) /\ c # Head(wq).to
              /\ Head(wq).to = c => InChain(c) /\ Head(wq).what \in May(asked[c])
  <1>1. /\ wq' \in Seq(Reply) /\ Head(wq) \in Reply
        /\ 1 \in 1 .. Len(wq) /\ Head(wq) = wq[1]
        /\ \A k \in 1 .. Len(wq') : k \in Nat /\ k + 1 \in 1 .. Len(wq) /\ k + 1 # 1 /\ wq'[k] = wq[k + 1]
        /\ \A k \in 1 .. Len(wq) : k = 1 \/ (k - 1 \in 1 .. Len(wq') /\ wq'[k - 1] = wq[k])
    <2>1. wq \in Seq(Reply)
      BY DEF NbdShape
    <2> QED
      BY <2>1, SMTT(60)
  <1>2. ASSUME NEW c \in Cookies, ChainInv(c)
        PROVE  ChainInv(c)'
    <2>1. ASSUME NEW k \in 1 .. Len(wq'), wq'[k].to = c
          PROVE  wq'[k].what \in May(asked[c])
      <3>1. PICK j \in 1 .. Len(wq) : wq'[k] = wq[j]
        BY <1>1
      <3> QED
        BY <1>2, <2>1, <3>1 DEF ChainInv
    <2>2. ASSUME NEW k \in 1 .. Len(wq'), NEW l \in 1 .. Len(wq'), wq'[k].to = c, wq'[l].to = c
          PROVE  k = l
      <3>1. PICK j \in 1 .. Len(wq) : j = k + 1 /\ wq'[k] = wq[j]
        BY <1>1
      <3>2. PICK n \in 1 .. Len(wq) : n = l + 1 /\ wq'[l] = wq[n]
        BY <1>1
      <3>3. j = n
        BY <1>2, <2>2, <3>1, <3>2 DEF ChainInv
      <3> QED
        BY <1>1, <3>1, <3>2, <3>3, Shifted
    <2> QED
      BY <2>1, <2>2 DEF ChainInv
  <1>3. ASSUME NEW c \in Cookies, ChainInv(c)
        PROVE  InChain(c)' <=> InChain(c) /\ c # Head(wq).to
    <2>1. ASSUME InChain(c)'
          PROVE  InChain(c) /\ c # Head(wq).to
      <3>1. PICK k \in 1 .. Len(wq') : wq'[k].to = c
        BY <2>1 DEF InChain
      <3>2. PICK j \in 1 .. Len(wq) : j # 1 /\ wq[j].to = c
        BY <1>1, <3>1
      <3> QED
        BY <1>1, <1>3, <3>2 DEF InChain, ChainInv
    <2>2. ASSUME InChain(c), c # Head(wq).to
          PROVE  InChain(c)'
      BY <1>1, <2>2 DEF InChain
    <2> QED
      BY <2>1, <2>2
  <1>4. ASSUME NEW c \in Cookies, ChainInv(c), Head(wq).to = c
        PROVE  InChain(c) /\ Head(wq).what \in May(asked[c])
    BY <1>1, <1>4 DEF InChain, ChainInv
  <1> QED
    BY <1>1, <1>2, <1>3, <1>4

(* A request that a step leaves where it is. *)
SameRequest(c) ==
  /\ asked'[c] = asked[c] /\ jobs'[c] = jobs[c] /\ wire'[c] = wire[c]
  /\ InFrames(c)' <=> InFrames(c)
  /\ InChain(c)' <=> InChain(c)
  /\ ChainInv(c)'
  /\ chain' => chain

(* A request a step does not touch stays in its place. *)
LEMMA RequestKept ==
  ASSUME NEW c \in Cookies, RequestInv(c), SameRequest(c)
  PROVE  RequestInv(c)'
  BY DEF RequestInv, SameRequest

(* A step that leaves the client's frames alone keeps them in order. *)
LEMMA ClientSame ==
  ASSUME FrameInv, UNCHANGED <<frames, asked>>
  PROVE  FrameInv' /\ \A c \in Cookies : InFrames(c)' <=> InFrames(c)
  BY DEF FrameInv, InFrames

(* A step that leaves the chain alone keeps a request's part of it. *)
LEMMA WriterSame ==
  ASSUME UNCHANGED wq, NEW c \in Cookies, asked'[c] = asked[c]
  PROVE  (InChain(c)' <=> InChain(c)) /\ (ChainInv(c) => ChainInv(c)')
  BY DEF InChain, ChainInv

(* The replies serveNbd sends are those its commands may get. *)
LEMMA MayFacts ==
  /\ "data" \in May("read") /\ "EIO" \in May("read")
  /\ "EINVAL" \in May("beyond") /\ "EINVAL" \in May("write") /\ "ok" \in May("flush")
  BY DEF May

(* The reads under way. *)
LEMMA ActiveCounts ==
  /\ IsFiniteSet(Active)
  /\ \A c \in Cookies \ Active : Cardinality(Active \cup {c}) = Cardinality(Active) + 1
  /\ \A c \in Active : Cardinality(Active \ {c}) = Cardinality(Active) - 1
  <1>1. IsFiniteSet(Active)
    BY NbdAssumption, FS_Subset DEF Active
  <1> HIDE DEF Active
  <1>2. \A c \in Cookies \ Active : Cardinality(Active \cup {c}) = Cardinality(Active) + 1
    BY <1>1, FS_AddElement
  <1>3. \A c \in Active : Cardinality(Active \ {c}) = Cardinality(Active) - 1
    BY <1>1, FS_RemoveElement
  <1> QED
    BY <1>1, <1>2, <1>3

(* A step that leaves serveNbd and the reads alone keeps PhaseInv. *)
LEMMA PhaseSame ==
  ASSUME PhaseInv, UNCHANGED <<nbd, jobs>>
  PROVE  PhaseInv'
  BY DEF PhaseInv, nbd, Active

(* The client sends an option. *)
LEMMA OptionKeeps ==
  ASSUME NbdInv, clientOption
  PROVE  NbdInv'
  <1>1. PICK o \in Options \cup {"badmagic"} : Sends(o, Handshake)
    BY DEF clientOption
  <1>2. UNCHANGED <<asked, nbd, wq, chain, wire, jobs, pieces>>
    BY <1>1 DEF clientOption, Sends, writer
  <1> DEFINE f == [what |-> o, h |-> Handshake]
  <1>3. f \in Frame /\ f.h = Handshake /\ f.what = o
    BY SMTT(30) DEF Frame
  <1>4. frames' = Append(frames, f)
    BY <1>1 DEF Sends
  <1> HIDE DEF f
  <1>5. NbdShape /\ FrameInv /\ PhaseInv
    BY DEF NbdInv
  <1>6. /\ FrameInv' /\ frames' \in Seq(Frame) /\ Len(frames') = Len(frames) + 1
        /\ \A c \in Cookies : InFrames(c)' <=> InFrames(c) \/ f.h = c
    BY <1>2, <1>3, <1>4, <1>5, FrameSent
  <1>7. pieces' <= 2 * Len(frames')
    BY <1>2, <1>5, <1>6, SMTT(30) DEF NbdShape
  <1>8. NbdShape'
    BY <1>2, <1>5, <1>6, <1>7 DEF NbdShape, nbd
  <1>9. ASSUME NEW c \in Cookies
        PROVE  RequestInv(c)'
    <2>1. RequestInv(c) /\ ChainInv(c)
      BY DEF NbdInv, RequestInv
    <2>2. SameRequest(c)
      BY <1>2, <1>3, <1>6, <2>1, NoCookie, WriterSame DEF SameRequest
    <2> QED
      BY <2>1, <2>2, RequestKept
  <1> QED
    BY <1>2, <1>5, <1>6, <1>8, <1>9, PhaseSame DEF NbdInv

(* The client sends a request, under a handle not used before. *)
LEMMA RequestKeeps ==
  ASSUME NbdInv, NEW x \in Cookies, clientRequest(x)
  PROVE  NbdInv'
  <1>1. PICK cmd \in Commands \cup {"badmagic"} : Sends(cmd, x) /\ asked' = [asked EXCEPT ![x] = cmd]
    BY DEF clientRequest
  <1>2. UNCHANGED <<nbd, wq, chain, wire, jobs, pieces>> /\ asked[x] = "none"
    BY <1>1 DEF clientRequest, Sends, writer
  <1> DEFINE f == [what |-> cmd, h |-> x]
  <1>3. f \in Frame /\ f.h = x /\ f.what = cmd
    BY SMTT(30) DEF Frame
  <1>4. frames' = Append(frames, f)
    BY <1>1 DEF Sends
  <1> HIDE DEF f
  <1>5. NbdShape /\ FrameInv /\ PhaseInv /\ RequestInv(x)
    BY DEF NbdInv
  <1>6. /\ asked' \in [Cookies -> Commands \cup {"badmagic", "none"}]
        /\ asked'[x] = cmd /\ \A c \in Cookies : c # x => asked'[c] = asked[c]
    BY <1>1, <1>5 DEF NbdShape
  <1>7. ~ InFrames(x) /\ jobs[x] = "none" /\ ~ InChain(x) /\ wire[x] = <<>>
    BY <1>2, <1>5 DEF RequestInv
  <1>8. /\ FrameInv' /\ frames' \in Seq(Frame) /\ Len(frames') = Len(frames) + 1
        /\ \A c \in Cookies : InFrames(c)' <=> InFrames(c) \/ f.h = c
    BY <1>3, <1>4, <1>5, <1>6, <1>7, FrameSent
  <1>9. pieces' <= 2 * Len(frames')
    BY <1>2, <1>5, <1>8, SMTT(30) DEF NbdShape
  <1>10. NbdShape'
    BY <1>2, <1>5, <1>6, <1>8, <1>9 DEF NbdShape, nbd
  <1>11. RequestInv(x)'
    <2>1. ~ InChain(x)' /\ jobs'[x] = "none" /\ wire'[x] = <<>> /\ asked'[x] # "none"
      BY <1>1, <1>2, <1>6, <1>7 DEF InChain, Commands
    <2>2. ChainInv(x)'
      BY <2>1 DEF InChain, ChainInv
    <2>3. Len(wire'[x]) <= 1 /\ \A k \in 1 .. Len(wire'[x]) : FALSE
      BY <2>1, SMTT(30)
    <2> QED
      BY <2>1, <2>2, <2>3 DEF RequestInv
  <1>12. ASSUME NEW c \in Cookies, c # x
         PROVE  RequestInv(c)'
    <2>1. RequestInv(c) /\ ChainInv(c)
      BY DEF NbdInv, RequestInv
    <2>2. SameRequest(c)
      BY <1>2, <1>3, <1>6, <1>8, <1>12, <2>1, WriterSame DEF SameRequest
    <2> QED
      BY <2>1, <2>2, RequestKept
  <1> QED
    BY <1>2, <1>5, <1>8, <1>10, <1>11, <1>12, PhaseSame DEF NbdInv

(* The steps that leave the frames, the chain and the reads alone. *)
LEMMA QuietKeeps ==
  ASSUME NbdInv, UNCHANGED <<frames, asked, wq, chain, wire, jobs>>,
         PhaseInv', inFlight' \in Nat, pieces' \in Nat, pieces' <= 2 * Len(frames)
  PROVE  NbdInv'
  <1>1. NbdShape'
    BY DEF NbdInv, NbdShape
  <1>2. FrameInv' /\ \A c \in Cookies : InFrames(c)' <=> InFrames(c)
    BY ClientSame DEF NbdInv
  <1>3. ASSUME NEW c \in Cookies
        PROVE  RequestInv(c)'
    <2>1. RequestInv(c) /\ ChainInv(c)
      BY DEF NbdInv, RequestInv
    <2>2. SameRequest(c)
      BY <1>2, <2>1, WriterSame DEF SameRequest
    <2> QED
      BY <2>1, <2>2, RequestKept
  <1> QED
    BY <1>1, <1>2, <1>3 DEF NbdInv

(* Data or its end arrives, the client leaves, or nothing happens. *)
LEMMA DataKeeps ==
  ASSUME NbdInv, data \/ socketEnd \/ clientGone \/ UNCHANGED nbdvars
  PROVE  NbdInv'
  <1>1. UNCHANGED <<frames, asked, wq, chain, wire, jobs, nbd>>
    BY DEF data, socketEnd, clientGone, nbdvars, client, writer
  <1>2. pieces' = pieces \/ (pieces < 2 * Len(frames) /\ pieces' = pieces + 1)
    BY DEF data, socketEnd, clientGone, nbdvars, client
  <1>3. pieces \in Nat /\ pieces <= 2 * Len(frames) /\ Len(frames) \in Nat
    BY SMTT(30) DEF NbdInv, NbdShape
  <1>4. pieces' \in Nat /\ pieces' <= 2 * Len(frames)
    BY <1>2, <1>3, SMTT(30)
  <1>5. PhaseInv' /\ inFlight' \in Nat
    BY <1>1, PhaseSame DEF NbdInv, NbdShape, nbd
  <1> QED
    BY <1>1, <1>4, <1>5, QuietKeeps

(* The socket takes the head of the chain, or the chain breaks. *)
LEMMA SocketKeeps ==
  ASSUME NbdInv, socketWrite
  PROVE  NbdInv'
  <1>1. UNCHANGED <<client, nbd, jobs>> /\ UNCHANGED <<frames, asked, pieces>> /\ wq # <<>>
    BY DEF socketWrite, client
  <1>2. NbdShape /\ FrameInv /\ PhaseInv
    BY DEF NbdInv
  <1>3. PhaseInv' /\ FrameInv' /\ \A c \in Cookies : InFrames(c)' <=> InFrames(c)
    BY <1>1, <1>2, PhaseSame, ClientSame
  <1>4. CASE wire' = Sent(Head(wq)) /\ wq' = Tail(wq) /\ UNCHANGED chain
    <2>1. /\ wq' \in Seq(Reply) /\ Head(wq) \in Reply
          /\ \A c \in Cookies : ChainInv(c) =>
               /\ ChainInv(c)'
               /\ InChain(c)' <=> InChain(c) /\ c # Head(wq).to
               /\ Head(wq).to = c => InChain(c) /\ Head(wq).what \in May(asked[c])
      BY <1>1, <1>2, <1>4, ReplyTaken
    <2>2. PICK t \in Cookies \cup {Handshake} : t = Head(wq).to
      BY <2>1 DEF Reply
    <2>3. CASE t = Handshake
      <3>1. wire' = wire
        BY <1>4, <2>2, <2>3 DEF Sent
      <3>2. NbdShape'
        BY <1>1, <1>2, <2>1, <3>1 DEF NbdShape, nbd
      <3>3. ASSUME NEW c \in Cookies
            PROVE  RequestInv(c)'
        <4>1. RequestInv(c) /\ ChainInv(c) /\ c # Head(wq).to
          BY <2>2, <2>3, NoCookie DEF NbdInv, RequestInv
        <4>2. SameRequest(c)
          BY <1>1, <1>3, <1>4, <2>1, <3>1, <4>1 DEF SameRequest
        <4> QED
          BY <4>1, <4>2, RequestKept
      <3> QED
        BY <1>3, <3>2, <3>3 DEF NbdInv
    <2>4. CASE t \in Cookies
      <3>1. RequestInv(t) /\ ChainInv(t)
        BY <2>4 DEF NbdInv, RequestInv
      <3>2. InChain(t) /\ ~ InChain(t)' /\ ChainInv(t)' /\ Head(wq).what \in May(asked[t]) /\ wire[t] = <<>>
        BY <2>1, <2>2, <2>4, <3>1 DEF RequestInv
      <3>3. wire' = [wire EXCEPT ![t] = Append(@, Head(wq).what)]
        BY <1>4, <2>2, <2>4, NoCookie DEF Sent
      <3>4. Head(wq).what \in Replies
        <4>1. asked[t] \in Commands \cup {"badmagic", "none"}
          BY <1>2, <2>4 DEF NbdShape
        <4> QED
          BY <3>2, <4>1 DEF May, Replies
      <3>5. wire'[t] = <<Head(wq).what>> /\ \A c \in Cookies : c # t => wire'[c] = wire[c]
        <4>1. wire'[t] = Append(wire[t], Head(wq).what) /\ \A c \in Cookies : c # t => wire'[c] = wire[c]
          BY <1>2, <2>4, <3>3 DEF NbdShape
        <4>2. Append(<<>>, Head(wq).what) = <<Head(wq).what>>
          BY SMTT(30)
        <4> QED
          BY <3>2, <4>1, <4>2
      <3>6. wire' \in [Cookies -> Seq(Replies)]
        <4>1. wire \in [Cookies -> Seq(Replies)]
          BY <1>2 DEF NbdShape
        <4>2. Append(wire[t], Head(wq).what) \in Seq(Replies)
          BY <2>4, <3>4, <4>1, SMTT(30)
        <4> QED
          BY <2>4, <3>3, <4>1, <4>2
      <3>7. NbdShape'
        BY <1>1, <1>2, <2>1, <3>6 DEF NbdShape, nbd
      <3>8. RequestInv(t)'
        <4>1. /\ Len(wire'[t]) <= 1 /\ wire'[t] # <<>>
              /\ \A k \in 1 .. Len(wire'[t]) : wire'[t][k] = Head(wq).what
          BY <3>5, SMTT(30)
        <4>2. asked[t] # "none" /\ ~ InFrames(t) /\ jobs[t] # "reading"
          BY <3>1, <3>2 DEF RequestInv
        <4>3. asked' = asked /\ jobs' = jobs /\ ~ InFrames(t)'
          BY <1>1, <1>3, <2>4, <4>2
        <4> QED
          BY <3>2, <4>1, <4>2, <4>3 DEF RequestInv
      <3>9. ASSUME NEW c \in Cookies, c # t
            PROVE  RequestInv(c)'
        <4>1. RequestInv(c) /\ ChainInv(c) /\ c # Head(wq).to
          BY <2>2, <3>9 DEF NbdInv, RequestInv
        <4>2. SameRequest(c)
          BY <1>1, <1>3, <1>4, <2>1, <3>5, <3>9, <4>1 DEF SameRequest
        <4> QED
          BY <4>1, <4>2, RequestKept
      <3> QED
        BY <1>3, <3>7, <3>8, <3>9 DEF NbdInv
    <2> QED
      BY <2>2, <2>3, <2>4
  <1>5. CASE ~ chain' /\ wq' = <<>> /\ UNCHANGED wire
    <2>1. wq' \in Seq(Reply) /\ \A k \in 1 .. Len(wq') : FALSE
      BY <1>5, SMTT(30)
    <2>2. NbdShape'
      BY <1>1, <1>2, <1>5, <2>1 DEF NbdShape, nbd
    <2>3. ASSUME NEW c \in Cookies
          PROVE  RequestInv(c)'
      <3>1. RequestInv(c)
        BY DEF NbdInv
      <3>2. ~ InChain(c)' /\ ChainInv(c)'
        BY <2>1 DEF InChain, ChainInv
      <3> QED
        BY <1>1, <1>3, <1>5, <3>1, <3>2 DEF RequestInv
    <2> QED
      BY <1>3, <2>2, <2>3 DEF NbdInv
  <1> QED
    BY <1>4, <1>5 DEF socketWrite

(* A frame is taken from the head and answered with one of the server's,   *)
(* or only taken. *)
LEMMA HaggleKeeps ==
  ASSUME NbdInv, haggle
  PROVE  NbdInv'
  <1>1. NbdShape /\ FrameInv /\ PhaseInv /\ nphase = "options" /\ UNCHANGED jobs
    BY DEF NbdInv, haggle
  <1>2. UNCHANGED <<inFlight, slotWaiter, srcOpen, asked>>
    BY DEF haggle, Awaits, GoesTo, TakeFrame, client
  <1>3. \A c \in Cookies : jobs[c] = "none"
    BY <1>1 DEF PhaseInv
  <1>4. PhaseInv'
    <2>1. \/ nphase' = "await" /\ waitsFor' = Handshake /\ goal' \in {"options", "transmit", "return"}
          \/ nphase' = "thrown"
      BY DEF haggle, Awaits, GoesTo
    <2> QED
      BY <1>1, <1>2, <1>3, <2>1 DEF PhaseInv, Active
  <1>5. CASE AtEnd /\ GoesTo("thrown") /\ UNCHANGED <<client, writer, goal, waitsFor>>
    BY <1>1, <1>2, <1>4, <1>5, QuietKeeps DEF client, writer, NbdShape
  <1>6. CASE HasFrame /\ TakeFrame
    <2>1. /\ FrameInv' /\ frames' \in Seq(Frame) /\ pieces' \in Nat /\ pieces' <= 2 * Len(frames')
          /\ \/ Head(frames).h = Handshake /\ Head(frames).what \in Options \cup {"badmagic"}
             \/ /\ Head(frames).h \in Cookies /\ Head(frames).what = asked[Head(frames).h]
                /\ InFrames(Head(frames).h)
          /\ \A c \in Cookies : InFrames(c)' <=> InFrames(c) /\ c # Head(frames).h
      BY <1>1, <1>6, FrameTaken
    <2>2. UNCHANGED writer \/ Write(Handshake, "option")
      BY DEF haggle, Awaits
    <2>3. /\ wq' \in Seq(Reply) /\ UNCHANGED <<chain, wire>>
          /\ \A c \in Cookies : (InChain(c)' <=> InChain(c)) /\ (ChainInv(c) => ChainInv(c)')
      <3>1. CASE UNCHANGED writer
        BY <1>1, <1>2, <3>1, WriterSame DEF writer, NbdShape
      <3>2. CASE Write(Handshake, "option")
        BY <1>1, <1>2, <3>2, ReplyChained, NoCookie
      <3> QED
        BY <2>2, <3>1, <3>2
    <2>4. NbdShape'
      BY <1>1, <1>2, <2>1, <2>3 DEF NbdShape
    <2>5. ASSUME NEW c \in Cookies
          PROVE  RequestInv(c)'
      <3>1. RequestInv(c) /\ ChainInv(c) /\ ChainInv(c)'
        BY <2>3 DEF NbdInv, RequestInv
      <3>2. CASE c # Head(frames).h
        <4>1. SameRequest(c)
          BY <1>1, <1>2, <2>1, <2>3, <3>1, <3>2 DEF SameRequest
        <4> QED
          BY <3>1, <4>1, RequestKept
      <3>3. CASE c = Head(frames).h
        <4>1. InFrames(c) /\ ~ InFrames(c)'
          BY <2>1, <3>3, NoCookie
        <4> QED
          BY <1>1, <1>2, <2>3, <3>1, <4>1 DEF RequestInv
      <3> QED
        BY <3>2, <3>3
    <2> QED
      BY <1>4, <2>1, <2>4, <2>5 DEF NbdInv
  <1> QED
    BY <1>5, <1>6 DEF haggle

(* An awaited write settles, the loop waits for a slot, serveNbd returns. *)
LEMMA ResumeKeeps ==
  ASSUME NbdInv, resume \/ atLimit \/ return
  PROVE  NbdInv'
  <1>1. PhaseInv /\ UNCHANGED <<frames, asked, pieces, wq, chain, wire, jobs, inFlight>>
    BY DEF NbdInv, resume, atLimit, return, GoesTo, client, writer
  <1>2. PhaseInv'
    <2>1. CASE resume
      <3>1. /\ nphase = "await" /\ UNCHANGED <<slotWaiter, srcOpen, goal, waitsFor>>
            /\ \/ nphase' = goal
               \/ nphase' = "thrown" /\ waitsFor = Handshake
               \/ nphase' = "drain" /\ waitsFor # Handshake
        BY <2>1 DEF resume, GoesTo
      <3> QED
        BY <1>1, <3>1 DEF PhaseInv, Active
    <2>2. CASE atLimit
      <3>1. nphase' = "slot" /\ slotWaiter' /\ UNCHANGED <<srcOpen, goal, waitsFor>> /\ nphase = "transmit"
        BY <2>2 DEF atLimit
      <3> QED
        BY <1>1, <3>1 DEF PhaseInv, Active
    <2>3. CASE return
      <3>1. /\ nphase' = "over" /\ UNCHANGED <<slotWaiter, goal, waitsFor>>
            /\ \/ nphase = "drain" /\ \A c \in Cookies : jobs[c] \notin {"reading", "replying"}
               \/ nphase = "return"
        BY <2>3 DEF return
      <3>2. Active = {}
        BY <1>1, <3>1 DEF PhaseInv, Active
      <3> QED
        BY <1>1, <3>1, <3>2 DEF PhaseInv, Active
    <2> QED
      BY <2>1, <2>2, <2>3
  <1>3. inFlight' \in Nat /\ pieces' \in Nat /\ pieces' <= 2 * Len(frames)
    BY <1>1 DEF NbdInv, NbdShape
  <1> QED
    BY <1>1, <1>2, <1>3, QuietKeeps

(* A read begins or ends. *)
LEMMA ReadBegins ==
  ASSUME NbdShape, PhaseInv, NEW x \in Cookies, jobs[x] = "none", inFlight < MAX_IN_FLIGHT,
         NEW j \in {"reading", "replying"}, jobs' = [jobs EXCEPT ![x] = j],
         inFlight' = inFlight + 1, nphase' = "transmit", UNCHANGED <<slotWaiter, srcOpen>>,
         nphase \in {"transmit", "next"}
  PROVE  PhaseInv' /\ inFlight' \in Nat
  <1>1. jobs'[x] = j /\ \A c \in Cookies : c # x => jobs'[c] = jobs[c]
    BY DEF NbdShape
  <1>2. Active' = Active \cup {x} /\ x \notin Active
    BY <1>1 DEF Active
  <1>3. Cardinality(Active') = inFlight'
    BY <1>2, ActiveCounts DEF PhaseInv
  <1>4. inFlight' \in Nat /\ inFlight' <= MAX_IN_FLIGHT
    BY NbdAssumption, SMTT(30) DEF NbdShape
  <1> QED
    BY <1>3, <1>4 DEF PhaseInv

(* The finally clause of a read gives its slot back, once. *)
LEMMA ReadEnds ==
  ASSUME NbdShape, PhaseInv, NEW x \in Cookies, jobs[x] = "replying", Finally(x)
  PROVE  PhaseInv' /\ inFlight' \in Nat
  <1>1. /\ jobs'[x] = "done" /\ \A c \in Cookies : c # x => jobs'[c] = jobs[c]
        /\ inFlight' = inFlight - 1 /\ ~ slotWaiter' /\ UNCHANGED <<srcOpen, goal, waitsFor>>
        /\ nphase' = IF slotWaiter THEN "next" ELSE nphase
    BY DEF NbdShape, Finally
  <1>2. Active' = Active \ {x} /\ x \in Active
    BY <1>1 DEF Active
  <1>3. Cardinality(Active') = inFlight'
    BY <1>1, <1>2, ActiveCounts DEF PhaseInv
  <1>4. IsFiniteSet(Active')
    BY <1>2, ActiveCounts, FS_Subset
  <1>5. inFlight' \in Nat
    BY <1>3, <1>4, FS_CardinalityType
  <1>6. inFlight' < MAX_IN_FLIGHT /\ inFlight' <= MAX_IN_FLIGHT
    BY <1>1, NbdAssumption, SMTT(30) DEF NbdShape, PhaseInv
  <1>7. /\ nphase \notin {"options", "return", "over"} /\ ~ (nphase = "await" /\ waitsFor = Handshake)
        /\ srcOpen
    BY <1>2 DEF PhaseInv
  <1> QED
    BY <1>1, <1>3, <1>5, <1>6, <1>7 DEF PhaseInv

(* What becomes of a request that the server takes from the socket. *)
LEMMA RequestTaken ==
  ASSUME NEW t \in Cookies, RequestInv(t), InFrames(t), ~ InFrames(t)', ChainInv(t)',
         UNCHANGED <<asked, chain, wire>>,
         \/ (InChain(t)' <=> InChain(t)) /\ (jobs'[t] = jobs[t] \/ (jobs'[t] = "reading" /\ asked[t] = "read"))
         \/ (chain => InChain(t)') /\ jobs'[t] \in {"none", "replying"}
  PROVE  RequestInv(t)'
  <1>1. asked[t] # "none" /\ jobs[t] = "none" /\ ~ InChain(t) /\ wire[t] = <<>>
    BY DEF RequestInv
  <1> QED
    BY <1>1 DEF RequestInv

(* serveNbd takes a request, or finds the end of the stream. *)
LEMMA ServeKeeps ==
  ASSUME NbdInv, request
  PROVE  NbdInv'
  <1>1. NbdShape /\ FrameInv /\ PhaseInv /\ UNCHANGED srcOpen
    BY DEF NbdInv, request, Awaits, GoesTo
  <1>2. nphase \in {"transmit", "next"} /\ inFlight < MAX_IN_FLIGHT /\ ~ slotWaiter
    BY <1>1 DEF request, PhaseInv
  <1>3. CASE AtEnd /\ GoesTo("drain") /\ UNCHANGED <<client, writer, goal, waitsFor, jobs>>
    <2>1. nphase' = "drain" /\ UNCHANGED <<inFlight, slotWaiter, goal, waitsFor, jobs>>
      BY <1>3 DEF GoesTo
    <2>2. PhaseInv'
      BY <1>1, <1>2, <2>1 DEF PhaseInv, Active
    <2> QED
      BY <1>1, <1>3, <2>1, <2>2, QuietKeeps DEF client, writer, NbdShape
  <1>4. CASE HasFrame /\ TakeFrame
    <2>1. PICK t \in Cookies \cup {Handshake}, cmd \in Commands \cup Options \cup {"badmagic", "none"} :
            /\ t = Head(frames).h /\ cmd = Head(frames).what
            /\ FrameInv' /\ frames' \in Seq(Frame) /\ pieces' \in Nat /\ pieces' <= 2 * Len(frames')
            /\ \/ t = Handshake /\ cmd \in Options \cup {"badmagic"}
               \/ t \in Cookies /\ cmd = asked[t] /\ InFrames(t)
            /\ \A c \in Cookies : InFrames(c)' <=> InFrames(c) /\ c # t
      <3>1. /\ FrameInv' /\ frames' \in Seq(Frame) /\ pieces' \in Nat /\ pieces' <= 2 * Len(frames')
            /\ \/ Head(frames).h = Handshake /\ Head(frames).what \in Options \cup {"badmagic"}
               \/ /\ Head(frames).h \in Cookies /\ Head(frames).what = asked[Head(frames).h]
                  /\ InFrames(Head(frames).h)
            /\ \A c \in Cookies : InFrames(c)' <=> InFrames(c) /\ c # Head(frames).h
        BY <1>1, <1>4, FrameTaken
      <3>2. Head(frames).what \in Commands \cup Options \cup {"badmagic", "none"}
        BY <1>1, <3>1 DEF NbdShape
      <3> QED
        BY <3>1, <3>2
    <2>2. UNCHANGED asked
      BY <1>4 DEF TakeFrame
    <2>3. /\ \A c \in Cookies : RequestInv(c) /\ ChainInv(c)
          /\ t \in Cookies => jobs[t] = "none" /\ ~ InChain(t)
      BY <2>1, NoCookie DEF NbdInv, RequestInv
    (* From what the step does to the chain and the read of t. *)
    <2>4. ASSUME wq' \in Seq(Reply), UNCHANGED <<chain, wire>>, PhaseInv', inFlight' \in Nat,
                 jobs' \in [Cookies -> {"none", "reading", "replying", "done"}],
                 \A c \in Cookies : c # t => /\ jobs'[c] = jobs[c] /\ ChainInv(c)'
                                             /\ InChain(c)' <=> InChain(c),
                 t \in Cookies => RequestInv(t)'
          PROVE  NbdInv'
      <3>1. NbdShape'
        BY <1>1, <2>1, <2>2, <2>4 DEF NbdShape
      <3>2. ASSUME NEW c \in Cookies, c # t
            PROVE  RequestInv(c)'
        <4>1. SameRequest(c)
          BY <2>1, <2>2, <2>4, <3>2 DEF SameRequest
        <4> QED
          BY <2>3, <4>1, RequestKept
      <3> QED
        BY <2>1, <2>4, <3>1, <3>2 DEF NbdInv
    <2>5. CASE /\ cmd = "read" /\ jobs' = [jobs EXCEPT ![t] = "reading"] /\ UNCHANGED writer
               /\ inFlight' = inFlight + 1 /\ nphase' = "transmit" /\ UNCHANGED slotWaiter
      <3>1. t \in Cookies /\ asked[t] = "read" /\ InFrames(t)
        BY <2>1, <2>5 DEF Options
      <3>2. PhaseInv' /\ inFlight' \in Nat
        BY <1>1, <1>2, <2>3, <2>5, <3>1, ReadBegins
      <3>3. /\ jobs' \in [Cookies -> {"none", "reading", "replying", "done"}]
            /\ jobs'[t] = "reading" /\ \A c \in Cookies : c # t => jobs'[c] = jobs[c]
        BY <1>1, <2>5, <3>1 DEF NbdShape
      <3>4. /\ wq' \in Seq(Reply) /\ UNCHANGED <<chain, wire>>
            /\ \A c \in Cookies : (InChain(c)' <=> InChain(c)) /\ ChainInv(c)'
        BY <1>1, <2>2, <2>3, <2>5, WriterSame DEF writer, NbdShape
      <3>5. RequestInv(t)'
        BY <2>1, <2>2, <2>3, <3>1, <3>3, <3>4, RequestTaken
      <3> QED
        BY <2>4, <3>2, <3>3, <3>4, <3>5
    <2>6. ASSUME NEW w \in Replies, Write(t, w), w \in May(cmd), t \in Cookies, cmd = asked[t]
          PROVE  /\ wq' \in Seq(Reply) /\ UNCHANGED <<chain, wire>> /\ (chain => InChain(t)') /\ ChainInv(t)'
                 /\ \A c \in Cookies : c # t => (InChain(c)' <=> InChain(c)) /\ ChainInv(c)'
      <3>1. /\ wq' \in Seq(Reply) /\ UNCHANGED <<chain, wire>>
            /\ \A c \in Cookies : c # t => (InChain(c)' <=> InChain(c)) /\ (ChainInv(c) => ChainInv(c)')
            /\ chain => InChain(t)'
            /\ t \in Cookies /\ ~ InChain(t) /\ w \in May(asked[t]) => ChainInv(t)'
        BY <1>1, <2>2, <2>6, ReplyChained
      <3> QED
        BY <2>3, <2>6, <3>1
    <2>7. CASE /\ cmd = "beyond" /\ jobs' = [jobs EXCEPT ![t] = "replying"] /\ Write(t, "EINVAL")
               /\ inFlight' = inFlight + 1 /\ nphase' = "transmit" /\ UNCHANGED slotWaiter
      <3>1. t \in Cookies /\ asked[t] = cmd /\ InFrames(t) /\ "EINVAL" \in May(cmd) /\ "EINVAL" \in Replies
        BY <2>1, <2>7, MayFacts DEF Options, Replies
      <3>2. PhaseInv' /\ inFlight' \in Nat
        BY <1>1, <1>2, <2>3, <2>7, <3>1, ReadBegins
      <3>3. /\ jobs' \in [Cookies -> {"none", "reading", "replying", "done"}]
            /\ jobs'[t] = "replying" /\ \A c \in Cookies : c # t => jobs'[c] = jobs[c]
        BY <1>1, <2>7, <3>1 DEF NbdShape
      <3>4. /\ wq' \in Seq(Reply) /\ UNCHANGED <<chain, wire>> /\ (chain => InChain(t)') /\ ChainInv(t)'
            /\ \A c \in Cookies : c # t => (InChain(c)' <=> InChain(c)) /\ ChainInv(c)'
        BY <2>6, <2>7, <3>1
      <3>5. RequestInv(t)'
        BY <2>1, <2>2, <2>3, <3>1, <3>3, <3>4, RequestTaken
      <3> QED
        BY <2>4, <3>2, <3>3, <3>4, <3>5
    <2>8. ASSUME NEW w \in Replies, Awaits(w, t, "transmit"), UNCHANGED jobs, w \in May(cmd), cmd \in {"flush", "write"}
          PROVE  NbdInv'
      <3>1. t \in Cookies /\ asked[t] = cmd /\ InFrames(t)
        BY <2>1, <2>8 DEF Options
      <3>2. PhaseInv' /\ inFlight' \in Nat
        <4>1. /\ nphase' = "await" /\ goal' = "transmit" /\ waitsFor' = t /\ t # Handshake
              /\ UNCHANGED <<inFlight, slotWaiter>>
          BY <2>8, <3>1, NoCookie DEF Awaits
        <4> QED
          BY <1>1, <1>2, <2>8, <4>1 DEF PhaseInv, Active, NbdShape
      <3>3. jobs' \in [Cookies -> {"none", "reading", "replying", "done"}] /\ jobs'[t] = "none"
        BY <1>1, <2>3, <2>8, <3>1 DEF NbdShape
      <3>4. /\ wq' \in Seq(Reply) /\ UNCHANGED <<chain, wire>> /\ (chain => InChain(t)') /\ ChainInv(t)'
            /\ \A c \in Cookies : c # t => (InChain(c)' <=> InChain(c)) /\ ChainInv(c)'
        BY <2>6, <2>8, <3>1 DEF Awaits
      <3>5. RequestInv(t)'
        BY <2>1, <2>2, <2>3, <3>1, <3>3, <3>4, RequestTaken
      <3> QED
        BY <2>4, <2>8, <3>2, <3>3, <3>4, <3>5
    <2>9. CASE /\ UNCHANGED <<writer, goal, waitsFor, jobs>>
               /\ GoesTo("drain") \/ GoesTo("thrown")
      <3>1. PhaseInv' /\ inFlight' \in Nat
        <4>1. nphase' \in {"drain", "thrown"} /\ UNCHANGED <<inFlight, slotWaiter, goal, waitsFor, jobs>>
          BY <2>9 DEF GoesTo
        <4> QED
          BY <1>1, <1>2, <4>1 DEF PhaseInv, Active, NbdShape
      <3>2. /\ wq' \in Seq(Reply) /\ UNCHANGED <<chain, wire>>
            /\ jobs' \in [Cookies -> {"none", "reading", "replying", "done"}]
            /\ \A c \in Cookies : (InChain(c)' <=> InChain(c)) /\ ChainInv(c)'
        BY <1>1, <2>2, <2>3, <2>9, WriterSame DEF writer, NbdShape
      <3>3. t \in Cookies => RequestInv(t)'
        BY <2>1, <2>2, <2>3, <2>9, <3>2, NoCookie, RequestTaken
      <3> QED
        BY <2>4, <2>9, <3>1, <3>2, <3>3
    <2> QED
      <3>1. "ok" \in Replies /\ "EINVAL" \in Replies
        BY DEF Replies
      <3> QED
        BY <1>4, <2>1, <2>5, <2>7, <2>8, <2>9, <3>1, MayFacts DEF request, HasFrame, AtEnd
  <1> QED
    BY <1>3, <1>4 DEF request

(* The source answers a read. *)
LEMMA SourceKeeps ==
  ASSUME NbdInv, NEW x \in Cookies, sourceRead(x)
  PROVE  NbdInv'
  <1>1. NbdShape /\ FrameInv /\ PhaseInv /\ RequestInv(x)
    BY DEF NbdInv
  <1>2. /\ jobs[x] = "reading" /\ UNCHANGED <<nbd, frames, pieces, asked>>
        /\ jobs' = [jobs EXCEPT ![x] = "replying"]
    BY DEF sourceRead, client
  <1>3. PICK r \in {"data", "EIO"} : Write(x, r)
    BY DEF sourceRead
  <1>4. asked[x] = "read" /\ ~ InChain(x) /\ wire[x] = <<>> /\ ~ InFrames(x)
    BY <1>1, <1>2 DEF RequestInv
  <1>5. r \in May(asked[x]) /\ r \in Replies
    BY <1>4, MayFacts DEF Replies
  <1>6. /\ wq' \in Seq(Reply) /\ UNCHANGED <<chain, wire>> /\ (chain => InChain(x)') /\ ChainInv(x)'
        /\ \A c \in Cookies : c # x => (InChain(c)' <=> InChain(c)) /\ (ChainInv(c) => ChainInv(c)')
    BY <1>1, <1>2, <1>3, <1>4, <1>5, ReplyChained
  <1>7. /\ jobs' \in [Cookies -> {"none", "reading", "replying", "done"}]
        /\ jobs'[x] = "replying" /\ \A c \in Cookies : c # x => jobs'[c] = jobs[c]
    BY <1>1, <1>2 DEF NbdShape
  <1>8. PhaseInv'
    <2>1. Active' = Active /\ x \in Active
      BY <1>2, <1>7 DEF Active
    <2>2. /\ nphase \notin {"options", "return", "over"}
          /\ ~ (nphase = "await" /\ waitsFor = Handshake) /\ srcOpen
      BY <1>1, <1>2, <2>1 DEF PhaseInv
    <2> QED
      BY <1>1, <1>2, <2>1, <2>2 DEF PhaseInv, nbd
  <1>9. NbdShape'
    BY <1>1, <1>2, <1>6, <1>7 DEF NbdShape, nbd
  <1>10. FrameInv' /\ \A c \in Cookies : InFrames(c)' <=> InFrames(c)
    BY <1>1, <1>2, ClientSame
  <1>11. RequestInv(x)'
    <2>1. Len(wire'[x]) <= 1 /\ \A k \in 1 .. Len(wire'[x]) : FALSE
      BY <1>4, <1>6, SMTT(30)
    <2> QED
      BY <1>2, <1>4, <1>6, <1>7, <1>10, <2>1 DEF RequestInv
  <1>12. ASSUME NEW c \in Cookies, c # x
         PROVE  RequestInv(c)'
    <2>1. RequestInv(c) /\ ChainInv(c)
      BY DEF NbdInv, RequestInv
    <2>2. SameRequest(c)
      BY <1>2, <1>6, <1>7, <1>10, <1>12, <2>1 DEF SameRequest
    <2> QED
      BY <2>1, <2>2, RequestKept
  <1> QED
    BY <1>8, <1>9, <1>10, <1>11, <1>12 DEF NbdInv

(* The reply of a read settles. *)
LEMMA RepliedKeeps ==
  ASSUME NbdInv, NEW x \in Cookies, replied(x)
  PROVE  NbdInv'
  <1>1. NbdShape /\ FrameInv /\ PhaseInv /\ RequestInv(x)
    BY DEF NbdInv
  <1>2. /\ jobs[x] = "replying" /\ UNCHANGED <<frames, pieces, asked, wq, chain, wire>> /\ Finally(x)
        /\ chain => ~ InChain(x)
    BY DEF replied, client, writer, Written, InChain
  <1>3. PhaseInv' /\ inFlight' \in Nat
    BY <1>1, <1>2, ReadEnds
  <1>4. /\ jobs' \in [Cookies -> {"none", "reading", "replying", "done"}]
        /\ jobs'[x] = "done" /\ \A c \in Cookies : c # x => jobs'[c] = jobs[c]
    BY <1>1, <1>2 DEF NbdShape, Finally
  <1>5. NbdShape'
    BY <1>1, <1>2, <1>3, <1>4 DEF NbdShape
  <1>6. FrameInv' /\ \A c \in Cookies : InFrames(c)' <=> InFrames(c)
    BY <1>1, <1>2, ClientSame
  <1>7. ASSUME NEW c \in Cookies
        PROVE  (InChain(c)' <=> InChain(c)) /\ ChainInv(c)'
    BY <1>2, WriterSame DEF NbdInv, RequestInv
  <1>8. RequestInv(x)'
    <2>1. asked[x] # "none" /\ ~ InFrames(x)
      BY <1>1, <1>2 DEF RequestInv
    <2> QED
      BY <1>1, <1>2, <1>4, <1>6, <1>7, <2>1 DEF RequestInv
  <1>9. ASSUME NEW c \in Cookies, c # x
        PROVE  RequestInv(c)'
    <2>1. RequestInv(c) /\ SameRequest(c)
      BY <1>2, <1>4, <1>6, <1>7, <1>9 DEF NbdInv, SameRequest
    <2> QED
      BY <2>1, RequestKept
  <1> QED
    BY <1>3, <1>5, <1>6, <1>8, <1>9 DEF NbdInv

(* The invariant of the NBD server holds when the greeting is sent. *)
LEMMA NbdInitial ==
  ASSUME NbdInit
  PROVE  NbdInv
  <1>1. /\ frames \in Seq(Frame) /\ Len(frames) = 0 /\ pieces \in Nat /\ pieces <= 2 * Len(frames)
        /\ inFlight \in Nat /\ \A k \in 1 .. Len(frames) : FALSE
    BY SMTT(30) DEF NbdInit
  <1>2. wq \in Seq(Reply) /\ \A k \in 1 .. Len(wq) : wq[k].to = Handshake
    BY SMTT(30) DEF NbdInit, Reply
  <1>3. <<>> \in Seq(Replies) /\ Len(<<>>) <= 1 /\ \A k \in 1 .. Len(<<>>) : FALSE
    BY SMTT(30)
  <1>4. NbdShape
    BY <1>1, <1>2, <1>3 DEF NbdInit, NbdShape
  <1>5. Active = {} /\ inFlight = Cardinality(Active) /\ inFlight <= MAX_IN_FLIGHT
    <2>1. Active = {}
      BY DEF NbdInit, Active
    <2>2. Cardinality({}) = 0
      BY FS_EmptySet
    <2>3. 0 <= MAX_IN_FLIGHT
      BY NbdAssumption, SMTT(30)
    <2> QED
      BY <2>1, <2>2, <2>3 DEF NbdInit
  <1>6. PhaseInv
    BY <1>5 DEF NbdInit, PhaseInv
  <1>7. FrameInv
    BY <1>1 DEF FrameInv
  <1>8. ASSUME NEW c \in Cookies
        PROVE  RequestInv(c)
    <2>1. ~ InFrames(c) /\ ~ InChain(c) /\ ChainInv(c)
      BY <1>1, <1>2, NoCookie DEF InFrames, InChain, ChainInv
    <2>2. asked[c] = "none" /\ jobs[c] = "none" /\ wire[c] = <<>>
      BY DEF NbdInit
    <2> QED
      BY <1>3, <2>1, <2>2 DEF RequestInv
  <1> QED
    BY <1>4, <1>6, <1>7, <1>8 DEF NbdInv

(* The invariant of the NBD server: where each request is, and what        *)
(* serveNbd may be doing meanwhile.                                        *)
THEOREM NbdInvariant == NbdSpec => []NbdInv
  <1>1. ASSUME NbdInv, [NbdNext]_nbdvars
        PROVE  NbdInv'
    <2>1. CASE ServerStep
      BY <1>1, <2>1, DataKeeps, SocketKeeps, HaggleKeeps, ResumeKeeps, ServeKeeps, SourceKeeps,
         RepliedKeeps DEF ServerStep
    <2> QED
      BY <1>1, <2>1, OptionKeeps, RequestKeeps, DataKeeps DEF NbdNext
  <1> QED
    BY <1>1, NbdInitial, PTL DEF NbdSpec

(* RepliesMatch: for any number of requests in flight, every reply that    *)
(* serveNbd puts on the wire answers one request, once, with what it may   *)
(* get; the source is not read after it was closed; no more than           *)
(* MAX_IN_FLIGHT reads are under way, and none is forgotten at the end.    *)
THEOREM NbdRepliesMatch == NbdSpec => []RepliesMatch
  <1>1. ASSUME NbdInv
        PROVE  RepliesMatch
    <2>1. ASSUME NEW c \in Cookies
          PROVE  /\ Len(wire[c]) <= 1
                 /\ \A k \in 1 .. Len(wire[c]) : wire[c][k] \in May(asked[c])
                 /\ nphase = "over" /\ jobs[c] # "none" /\ chain => wire[c] # <<>>
      <3>1. RequestInv(c) /\ jobs[c] \in {"none", "reading", "replying", "done"}
        BY <1>1 DEF NbdInv, NbdShape
      <3>2. nphase = "over" => jobs[c] \notin {"reading", "replying"}
        BY <1>1 DEF NbdInv, PhaseInv, Active
      <3> QED
        BY <3>1, <3>2 DEF RequestInv
    <2>2. /\ ~ srcOpen => \A c \in Cookies : jobs[c] # "reading"
          /\ inFlight = Cardinality(Active) /\ inFlight <= MAX_IN_FLIGHT
      BY <1>1 DEF NbdInv, PhaseInv, Active
    <2> QED
      BY <2>1, <2>2 DEF RepliesMatch, Active
  <1> QED
    BY <1>1, NbdInvariant, PTL
=============================================================================
