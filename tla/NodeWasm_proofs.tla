--------------------------- MODULE NodeWasm_proofs ---------------------------
(***************************************************************************)
(* Proofs about the sessions of the Node edition, for any number of them,  *)
(* any size of the table of handles and any fds.  See the README for the   *)
(* argument.                                                               *)
(***************************************************************************)
EXTENDS NodeWasm, WellFoundedInduction, SequenceTheorems, TLAPS

\* A leaf that names no prover is for Zenon.
USE ZenonT(60)

\* Chain p has a request in the queue q; that of a is before that of b; the
\* completion of p is on its way in d, with the result r.
In(q, p) == \E i \in 1 .. Len(q) : q[i] = p
Before(q, a, b) == \E i, j \in 1 .. Len(q) : i < j /\ q[i] = a /\ q[j] = b
Ans(d, p, r) == \E i \in 1 .. Len(d) : d[i] = <<p, r>>

\* Each is there once.
Once(q) == \A i, k \in 1 .. Len(q) : q[i] = q[k] => i = k
OnceEach(d) == \A i, k \in 1 .. Len(d) : d[i][1] = d[k][1] => i = k

Ops == {"none", "init", "halt", "attach", "attachwhy", "enter", "enterwhy", "text",
        "open", "read", "closefd", "sessclose"}
Jobs == [op : Ops, arg : Int, tries : Nat]

MainOps == {"none", "init", "halt"}
CloserOps == {"none", "closefd", "sessclose"}
AppOps == Ops \ {"init", "halt", "sessclose"}

\* What a chain of calls can ask for.
JobOK(p, r) ==
  /\ r.op = "none" => r = NoJob
  /\ r.op # "none" => r.tries >= 1
  /\ p = Main => r.op \in MainOps
  /\ \A s \in Sessions : (p = App(s) => r.op \in AppOps) /\ (p = Closer(s) => r.op \in CloserOps)

JobTypes(j) == j \in [Chains -> Jobs] /\ \A p \in Chains : JobOK(p, j[p])

\* The values the other variables take.
EngineTypes ==
  /\ g_handles \in [0 .. MAX_HANDLES - 1 -> Sessions \cup {Nobody}]
  /\ fdtab \in [KernelFds -> Sessions \cup {Nobody}]

SessionTypes ==
  /\ st \in [Sessions -> {"none", "open", "closing", "closed"}] /\ handle \in [Sessions -> Int]
  /\ fds \in [Sessions -> SUBSET KernelFds] /\ visited \in [Sessions -> SUBSET KernelFds]

\* A chain has one request at most, queued or answered, whose memory is held.
Requests(q, d, j, h) ==
  /\ q \in Seq(Chains) /\ d \in Seq(Chains \X Int)
  /\ Once(q) /\ OnceEach(d)
  /\ \A p \in Chains : In(q, p) => j[p].op # "none" /\ p \in h /\ \A r \in Int : ~Ans(d, p, r)
  /\ \A p \in Chains, r \in Int : Ans(d, p, r) => j[p].op # "none"

\* While the kernel boots nothing else is under way.
Booting ==
  job[Main].op = "init" =>
    /\ boot = "booting"
    /\ \A s \in Sessions :
         st[s] \in {"none", "closed"} /\ job[App(s)].op = "none" /\ job[Closer(s)].op = "none"

\* Handle x is the disk of s, or of nobody in a kernel that is not up.
Mine(g, u, x, s) == x \in 0 .. MAX_HANDLES - 1 /\ (g[x] = s \/ (g[x] = Nobody /\ ~u))

\* A request that names a disk, but for a repeated one.
NamesDisk(j) == (j.op = "enter" \/ (j.op = "text" /\ j.tries = 1)) /\ j.arg # -1

Alive(x) == x \in {"open", "closing"}

\* Where close() stands.
Phases(s) ==
  /\ st[s] = "open" => job[Closer(s)].op = "none" /\ visited[s] = {}
  /\ st[s] = "closing" => Closer(s) \in waits
  /\ job[App(s)].op = "attach" => job[Closer(s)].op = "none" /\ fds[s] = {} /\ handle[s] = -1

\* What s knows as its handle, or asks for by it, or is about to hear of.
Handles(s) ==
  /\ Alive(st[s]) /\ handle[s] # -1 /\ job[Closer(s)].op # "sessclose" => Mine(g_handles, up, handle[s], s)
  /\ In(queue, App(s)) /\ NamesDisk(job[App(s)]) => Mine(g_handles, up, job[App(s)].arg, s)
  /\ In(queue, Closer(s)) /\ job[Closer(s)].op = "sessclose" => Mine(g_handles, up, job[Closer(s)].arg, s)
  /\ \A r \in Int : Ans(doneq, App(s), r) /\ job[App(s)].op = "attach" /\ r >= 0 => Mine(g_handles, up, r, s)

Own(f, fd, s) == fd \in KernelFds /\ f[fd] = s

\* The same of its fds.
Files(s) ==
  /\ Alive(st[s]) => \A fd \in fds[s] \ visited[s] : Own(fdtab, fd, s)
  /\ In(queue, App(s)) /\ job[App(s)].op \in {"read", "closefd"} => Own(fdtab, job[App(s)].arg, s)
  /\ In(queue, Closer(s)) /\ job[Closer(s)].op = "closefd" => Own(fdtab, job[Closer(s)].arg, s)
  /\ \A r \in Int : Ans(doneq, App(s), r) /\ job[App(s)].op = "open" /\ r >= 0 =>
       /\ Own(fdtab, r, s)
       /\ Alive(st[s]) => r \notin fds[s] \ visited[s]
       /\ In(queue, Closer(s)) /\ job[Closer(s)].op = "closefd" => job[Closer(s)].arg # r

\* An fd that is being closed is closed once, and a request of the application
\* comes before those of close().
Turns(s) ==
  /\ job[App(s)].op = "closefd" => job[App(s)].arg \notin fds[s]
  /\ job[Closer(s)].op = "closefd" /\ st[s] = "closing" => job[Closer(s)].arg \in visited[s]
  /\ job[App(s)].op = "closefd" /\ job[Closer(s)].op = "closefd" => job[App(s)].arg # job[Closer(s)].arg
  /\ In(queue, App(s)) /\ (NamesDisk(job[App(s)]) \/ job[App(s)].op = "read") =>
       ~Before(queue, Closer(s), App(s))

SessionOK(s) == Phases(s) /\ Handles(s) /\ Files(s) /\ Turns(s)

NodeInv ==
  /\ JobTypes(job) /\ EngineTypes /\ SessionTypes
  /\ Requests(queue, doneq, job, held) /\ Booting /\ \A s \in Sessions : SessionOK(s)

\* Chains are told apart by session and kind.
LEMMA Apart ==
  /\ Main \in Chains
  /\ \A s \in Sessions : /\ App(s) \in Chains /\ Closer(s) \in Chains
                         /\ App(s) # Main /\ Closer(s) # Main
                         /\ App(s)[1] = s /\ Closer(s)[1] = s
  /\ \A s, t \in Sessions : /\ App(s) # Closer(t)
                            /\ App(s) = App(t) => s = t
                            /\ Closer(s) = Closer(t) => s = t
  /\ \A p \in Chains : p = Main \/ \E s \in Sessions : p = App(s) \/ p = Closer(s)
<1>1. Main \in Chains /\ \A s \in Sessions : App(s) \in Chains /\ Closer(s) \in Chains
  BY DEF Chains
<1>2. \A s, t \in Sessions : /\ App(s) # Closer(t) /\ App(s) # Main /\ Closer(s) # Main
                             /\ App(s)[1] = s /\ Closer(s)[1] = s
                             /\ App(s) = App(t) => s = t
                             /\ Closer(s) = Closer(t) => s = t
  BY SMTT(30) DEF App, Closer, Main
<1>3. \A p \in Chains : p = Main \/ \E s \in Sessions : p = App(s) \/ p = Closer(s)
  BY DEF Chains
<1> QED
  BY <1>1, <1>2, <1>3

-----------------------------------------------------------------------------
(* Sequences. *)

\* A queue without its head.
LEMMA Dropped ==
  ASSUME NEW S, NEW q \in Seq(S), q # <<>>
  PROVE  /\ Tail(q) \in Seq(S) /\ Head(q) = q[1] /\ Head(q) \in S /\ 1 \in 1 .. Len(q)
         /\ \A i \in 1 .. Len(Tail(q)) : i + 1 \in 1 .. Len(q) /\ Tail(q)[i] = q[i + 1] /\ 1 < i + 1 /\ 1 # i + 1
         /\ \A i, k \in 1 .. Len(Tail(q)) : (i + 1 = k + 1 => i = k) /\ (i < k => i + 1 < k + 1)
BY SMTT(30)

\* What is in a queue after an append, and in which order.
LEMMA InAppend ==
  ASSUME NEW S, NEW q \in Seq(S), NEW p \in S
  PROVE  /\ \A x : In(Append(q, p), x) => In(q, x) \/ x = p
         /\ \A a, b : Before(Append(q, p), a, b) => Before(q, a, b) \/ (b = p /\ In(q, a))
<1> DEFINE n == Append(q, p)
           L == Len(q)
<1>1. /\ Len(n) = L + 1 /\ n[L + 1] = p /\ \A i \in 1 .. L : n[i] = q[i]
      /\ \A i \in 1 .. L + 1 : i \in 1 .. L \/ i = L + 1
      /\ ~(L + 1 < L + 1) /\ \A i \in 1 .. L : ~(L + 1 < i)
  BY SMTT(30)
<1> HIDE DEF n
<1>2. ASSUME NEW x, In(n, x) PROVE In(q, x) \/ x = p
  BY <1>1, <1>2 DEF In
<1>3. ASSUME NEW a, NEW b, Before(n, a, b) PROVE Before(q, a, b) \/ (b = p /\ In(q, a))
  <2>1. PICK i \in 1 .. L + 1, k \in 1 .. L + 1 : i < k /\ n[i] = a /\ n[k] = b
    BY <1>1, <1>3 DEF Before
  <2>2. i \in 1 .. L
    BY <1>1, <2>1
  <2>3. CASE k \in 1 .. L
    BY <1>1, <2>1, <2>2, <2>3 DEF Before
  <2>4. CASE k = L + 1
    BY <1>1, <2>1, <2>2, <2>4 DEF In
  <2> QED
    BY <1>1, <2>3, <2>4
<1> QED
  BY <1>2, <1>3 DEF n

\* What is in a queue after its head was taken, and in which order.
LEMMA InTail ==
  ASSUME NEW S, NEW q \in Seq(S), q # <<>>, Once(q)
  PROVE  /\ In(q, Head(q)) /\ Once(Tail(q))
         /\ \A x : In(Tail(q), x) => In(q, x) /\ x # Head(q) /\ Before(q, Head(q), x)
         /\ \A a, b : Before(Tail(q), a, b) => Before(q, a, b)
<1> DEFINE t == Tail(q)
           L == Len(t)
<1>1. /\ Head(q) = q[1] /\ 1 \in 1 .. Len(q)
      /\ \A i \in 1 .. L : i + 1 \in 1 .. Len(q) /\ t[i] = q[i + 1] /\ 1 < i + 1 /\ 1 # i + 1
      /\ \A i, k \in 1 .. L : (i + 1 = k + 1 => i = k) /\ (i < k => i + 1 < k + 1)
  BY Dropped
<1> HIDE DEF t
<1>2. In(q, Head(q))
  BY <1>1 DEF In
<1>3. Once(t)
  BY <1>1 DEF Once
<1>4. ASSUME NEW x, In(t, x) PROVE In(q, x) /\ x # Head(q) /\ Before(q, Head(q), x)
  <2>1. PICK i \in 1 .. L : t[i] = x
    BY <1>4 DEF In
  <2>2. i + 1 \in 1 .. Len(q) /\ q[i + 1] = x /\ 1 < i + 1 /\ 1 # i + 1
    BY <1>1, <2>1
  <2> QED
    BY <1>1, <2>2 DEF In, Before, Once
<1>5. ASSUME NEW a, NEW b, Before(t, a, b) PROVE Before(q, a, b)
  <2>1. PICK i \in 1 .. L, k \in 1 .. L : i < k /\ t[i] = a /\ t[k] = b
    BY <1>5 DEF Before
  <2>2. i + 1 \in 1 .. Len(q) /\ k + 1 \in 1 .. Len(q) /\ i + 1 < k + 1 /\ q[i + 1] = a /\ q[k + 1] = b
    BY <1>1, <2>1
  <2> QED
    BY <2>2 DEF Before
<1> QED
  BY <1>2, <1>3, <1>4, <1>5 DEF t

\* What is before something is in the queue.
LEMMA BeforeIn == ASSUME NEW q, NEW a, NEW b, Before(q, a, b) PROVE In(q, a)
BY DEF Before, In

-----------------------------------------------------------------------------
(* Requests and completions. *)

\* Chain p has neither a request nor a completion.
Unasked(q, d, p) == ~In(q, p) /\ \A r \in Int : ~Ans(d, p, r)

\* The job of an idle chain.
LEMMA NoJobIs == NoJob \in Jobs /\ NoJob.op = "none"
BY SMTT(30) DEF NoJob, Jobs, Ops

\* The job of a chain that called.
LEMMA JobIs ==
  ASSUME NEW op \in Ops, NEW arg \in Int, NEW n \in Nat
  PROVE  LET r == [op |-> op, arg |-> arg, tries |-> n]
         IN  r \in Jobs /\ r.op = op /\ r.arg = arg /\ r.tries = n
BY SMTT(30) DEF Jobs

\* What WasmApi.call leaves, and what the end of a chain of calls leaves.
CallEffect(p, op, arg, n, d) ==
  /\ Requests(queue', d, job', held') /\ JobTypes(job')
  /\ job'[p].op = op /\ job'[p].arg = arg /\ job'[p].tries = n
  /\ \A x \in Chains \ {p} : job'[x] = job[x]
  /\ \A x : In(queue', x) => In(queue, x) \/ x = p
  /\ \A a, b : Before(queue', a, b) => Before(queue, a, b) \/ (b = p /\ In(queue, a))

ReturnEffect(p, d) ==
  /\ Requests(queue', d, job', held') /\ JobTypes(job') /\ queue' = queue
  /\ job'[p] = NoJob
  /\ \A x \in Chains \ {p} : job'[x] = job[x]

\* A call of an idle chain adds its request to the queue and changes no other's.
LEMMA CallMade ==
  ASSUME NEW d, JobTypes(job), Requests(queue, d, job, held), NEW p \in Chains, Unasked(queue, d, p),
         NEW op \in Ops, NEW arg \in Int, NEW n \in Nat, Call(p, op, arg, n),
         op # "none", n >= 1, JobOK(p, [op |-> op, arg |-> arg, tries |-> n])
  PROVE  CallEffect(p, op, arg, n, d)
<1> DEFINE r == [op |-> op, arg |-> arg, tries |-> n]
<1>1. /\ job' = [job EXCEPT ![p] = r] /\ queue' = Append(queue, p) /\ held' = held \cup {p}
      /\ JobOK(p, r)
  BY DEF Call
<1>2. r \in Jobs /\ r.op = op /\ r.arg = arg /\ r.tries = n
  BY JobIs
<1> HIDE DEF r
<1>3. JobTypes(job') /\ job'[p] = r /\ \A x \in Chains \ {p} : job'[x] = job[x]
  BY <1>1, <1>2 DEF JobTypes
<1>4. queue \in Seq(Chains) /\ Once(queue)
  BY DEF Requests
<1>5. /\ \A x : In(queue', x) => In(queue, x) \/ x = p
      /\ \A a, b : Before(queue', a, b) => Before(queue, a, b) \/ (b = p /\ In(queue, a))
  BY <1>1, <1>4, InAppend
<1>6. queue' \in Seq(Chains) /\ Once(queue')
  <2> DEFINE L == Len(queue)
  <2>1. /\ queue' \in Seq(Chains) /\ Len(queue') = L + 1 /\ queue'[L + 1] = p
        /\ \A i \in 1 .. L : queue'[i] = queue[i]
        /\ \A i \in 1 .. L + 1 : i \in 1 .. L \/ i = L + 1
    BY <1>1, <1>4, SMTT(30)
  <2>2. \A i \in 1 .. L : queue[i] # p
    BY DEF Unasked, In
  <2> QED
    BY <1>4, <2>1, <2>2 DEF Once
<1>7. \A x \in Chains : In(queue', x) => job'[x].op # "none" /\ x \in held' /\ \A v \in Int : ~Ans(d, x, v)
  <2> SUFFICES ASSUME NEW x \in Chains, In(queue', x)
               PROVE  job'[x].op # "none" /\ x \in held' /\ \A v \in Int : ~Ans(d, x, v)
    OBVIOUS
  <2>1. CASE x = p
    BY <1>1, <1>2, <1>3, <2>1 DEF Unasked
  <2>2. CASE x # p
    BY <1>1, <1>3, <1>5, <2>2 DEF Requests
  <2> QED
    BY <2>1, <2>2
<1>8. \A x \in Chains, v \in Int : Ans(d, x, v) => job'[x].op # "none"
  BY <1>2, <1>3 DEF Requests
<1>9. Requests(queue', d, job', held')
  BY <1>6, <1>7, <1>8 DEF Requests
<1> QED
  BY <1>2, <1>3, <1>5, <1>9 DEF CallEffect

\* A return drops the job of the chain and no other.
LEMMA Returned ==
  ASSUME NEW d, JobTypes(job), Requests(queue, d, job, held), NEW p \in Chains, Unasked(queue, d, p),
         Return(p)
  PROVE  ReturnEffect(p, d)
<1>1. job' = [job EXCEPT ![p] = NoJob] /\ held' = held \ {p} /\ queue' = queue
  BY DEF Return
<1>2. NoJob \in Jobs /\ JobOK(p, NoJob)
  BY NoJobIs DEF JobOK, MainOps, AppOps, CloserOps, Ops
<1>3. JobTypes(job') /\ job'[p] = NoJob /\ \A x \in Chains \ {p} : job'[x] = job[x]
  BY <1>1, <1>2 DEF JobTypes
<1>4. \A x \in Chains : In(queue', x) => job'[x].op # "none" /\ x \in held' /\ \A v \in Int : ~Ans(d, x, v)
  BY <1>1, <1>3 DEF Requests, Unasked
<1>5. \A x \in Chains, v \in Int : Ans(d, x, v) => job'[x].op # "none"
  BY <1>3 DEF Requests, Unasked
<1> QED
  BY <1>1, <1>3, <1>4, <1>5 DEF Requests, ReturnEffect

\* A completion arrives: its chain has no other.
LEMMA Popped ==
  ASSUME NEW q, NEW d, NEW j, NEW h, Requests(q, d, j, h), d # <<>>
  PROVE  /\ Requests(q, Tail(d), j, h) /\ Head(d)[1] \in Chains /\ Head(d)[2] \in Int
         /\ Unasked(q, Tail(d), Head(d)[1]) /\ Ans(d, Head(d)[1], Head(d)[2])
         /\ j[Head(d)[1]].op # "none"
         /\ \A p \in Chains, r \in Int : Ans(Tail(d), p, r) => Ans(d, p, r)
<1> DEFINE t == Tail(d)
           L == Len(t)
           p == Head(d)[1]
           r == Head(d)[2]
<1>0. d \in Seq(Chains \X Int) /\ OnceEach(d)
  BY DEF Requests
<1>1. /\ t \in Seq(Chains \X Int) /\ Head(d) = d[1] /\ Head(d) \in Chains \X Int /\ 1 \in 1 .. Len(d)
      /\ \A i \in 1 .. L : i + 1 \in 1 .. Len(d) /\ t[i] = d[i + 1] /\ 1 < i + 1 /\ 1 # i + 1
      /\ \A i, k \in 1 .. L : (i + 1 = k + 1 => i = k)
  BY <1>0, Dropped
<1>2. p \in Chains /\ r \in Int /\ Head(d) = <<p, r>>
  BY <1>1, SMTT(30)
<1> HIDE DEF t, p, r
<1>3. Ans(d, p, r)
  BY <1>1, <1>2 DEF Ans
<1>4. OnceEach(t)
  <2> SUFFICES ASSUME NEW i \in 1 .. L, NEW k \in 1 .. L, t[i][1] = t[k][1] PROVE i = k
    BY DEF OnceEach
  <2>1. t[i] = d[i + 1] /\ t[k] = d[k + 1] /\ i + 1 \in 1 .. Len(d) /\ k + 1 \in 1 .. Len(d)
    BY <1>1
  <2>2. d[i + 1][1] = d[k + 1][1]
    BY <2>1
  <2> QED
    BY <1>0, <1>1, <2>1, <2>2 DEF OnceEach
<1>5. \A x \in Chains, v \in Int : Ans(t, x, v) => Ans(d, x, v)
  BY <1>1 DEF Ans
<1>6. ASSUME NEW v \in Int, Ans(t, p, v) PROVE FALSE
  <2>1. PICK i \in 1 .. L : t[i] = <<p, v>>
    BY <1>6 DEF Ans
  <2>2. d[i + 1] = <<p, v>> /\ d[1] = <<p, r>> /\ i + 1 \in 1 .. Len(d) /\ 1 # i + 1
    BY <1>1, <1>2, <2>1
  <2>3. <<p, v>>[1] = p /\ <<p, r>>[1] = p
    BY SMTT(30)
  <2>4. d[i + 1][1] = d[1][1]
    BY <2>2, <2>3
  <2> QED
    BY <1>0, <1>1, <2>2, <2>4 DEF OnceEach
<1>7. ~In(q, p) /\ j[p].op # "none"
  BY <1>2, <1>3 DEF Requests
<1>8. Requests(q, t, j, h)
  BY <1>1, <1>4, <1>5 DEF Requests
<1> QED
  BY <1>2, <1>3, <1>5, <1>6, <1>7, <1>8 DEF t, p, r, Unasked

\* A request is run: its completion is on its way.
LEMMA RunRequests ==
  ASSUME NEW q, NEW d, NEW j, NEW h, Requests(q, d, j, h), q # <<>>, NEW r \in Int
  PROVE  /\ Requests(Tail(q), Append(d, <<Head(q), r>>), j, h) /\ Head(q) \in Chains
         /\ In(q, Head(q)) /\ j[Head(q)].op # "none"
         /\ \A x : In(Tail(q), x) => In(q, x) /\ x # Head(q) /\ Before(q, Head(q), x)
         /\ \A a, b : Before(Tail(q), a, b) => Before(q, a, b)
         /\ \A x \in Chains, v \in Int :
              Ans(Append(d, <<Head(q), r>>), x, v) => Ans(d, x, v) \/ (x = Head(q) /\ v = r)
<1> DEFINE p == Head(q)
           e == <<p, r>>
           n == Append(d, e)
           L == Len(d)
<1>0. q \in Seq(Chains) /\ Once(q) /\ d \in Seq(Chains \X Int) /\ OnceEach(d)
  BY DEF Requests
<1>1. p \in Chains /\ Tail(q) \in Seq(Chains)
  BY <1>0, Dropped
<1>2. /\ In(q, p) /\ Once(Tail(q))
      /\ \A x : In(Tail(q), x) => In(q, x) /\ x # p /\ Before(q, p, x)
      /\ \A a, b : Before(Tail(q), a, b) => Before(q, a, b)
  BY <1>0, InTail
<1> HIDE DEF p
<1>3. e \in Chains \X Int /\ e[1] = p /\ e[2] = r
  BY <1>1, SMTT(30)
<1>e. \A x, v : e = <<x, v>> => x = p /\ v = r
  BY SMTT(30)
<1> HIDE DEF e
<1>4. /\ n \in Seq(Chains \X Int) /\ Len(n) = L + 1 /\ n[L + 1] = e
      /\ \A i \in 1 .. L : n[i] = d[i]
      /\ \A i \in 1 .. L + 1 : i \in 1 .. L \/ i = L + 1
  BY <1>0, <1>3, SMTT(30)
<1> HIDE DEF n
<1>5. \A x \in Chains, v \in Int : Ans(n, x, v) => Ans(d, x, v) \/ (x = p /\ v = r)
  BY <1>4, <1>e DEF Ans
<1>6. j[p].op # "none" /\ \A v \in Int : ~Ans(d, p, v)
  BY <1>1, <1>2 DEF Requests
<1>7. \A i \in 1 .. L : d[i][1] # p
  <2> SUFFICES ASSUME NEW i \in 1 .. L, d[i][1] = p PROVE FALSE
    OBVIOUS
  <2>1. d[i] \in Chains \X Int
    BY <1>0, ElementOfSeq
  <2>2. d[i] = <<p, d[i][2]>> /\ d[i][2] \in Int
    BY <2>1, SMTT(30)
  <2> QED
    BY <1>6, <2>2 DEF Ans
<1>8. OnceEach(n)
  BY <1>0, <1>3, <1>4, <1>7 DEF OnceEach
<1>9. Requests(Tail(q), n, j, h)
  <2>1. \A x \in Chains : In(Tail(q), x) => j[x].op # "none" /\ x \in h /\ \A v \in Int : ~Ans(n, x, v)
    BY <1>2, <1>5 DEF Requests
  <2>2. \A x \in Chains, v \in Int : Ans(n, x, v) => j[x].op # "none"
    BY <1>5, <1>6 DEF Requests
  <2> QED
    BY <1>1, <1>2, <1>4, <1>8, <2>1, <2>2 DEF Requests
<1> QED
  BY <1>1, <1>2, <1>5, <1>6, <1>9 DEF p, n, e

-----------------------------------------------------------------------------
(* What a session can rely on while nothing new is asked in its name. *)

SessSame(t) ==
  st'[t] = st[t] /\ handle'[t] = handle[t] /\ fds'[t] = fds[t] /\ visited'[t] = visited[t]

SessClosed(t) == st'[t] = "closed" /\ handle'[t] = -1 /\ fds'[t] = {} /\ visited'[t] = {}

\* No request and no completion of t is new.
Fewer(t) ==
  /\ In(queue', App(t)) => In(queue, App(t))
  /\ In(queue', Closer(t)) => In(queue, Closer(t))
  /\ Before(queue', Closer(t), App(t)) => Before(queue, Closer(t), App(t))
  /\ \A r \in Int : Ans(doneq', App(t), r) => Ans(doneq, App(t), r)

\* Its chains of calls go on as they were or have ended, that of close() only
\* when the session is closed.
JobsLess(t) ==
  /\ job'[App(t)] = job[App(t)] \/ job'[App(t)] = NoJob
  /\ job'[Closer(t)] = job[Closer(t)] \/ (job'[Closer(t)] = NoJob /\ ~Alive(st'[t]))

\* The engine leaves what is its own alone.
Kept(t) ==
  /\ \A x : Mine(g_handles, up, x, t) => Mine(g_handles', up', x, t)
  /\ \A fd : Own(fdtab, fd, t) => Own(fdtab', fd, t)

\* A session that a step leaves alone or closes keeps its part of the invariant.
LEMMA Quiet ==
  ASSUME NEW t \in Sessions, SessionOK(t), SessSame(t) \/ SessClosed(t), Fewer(t), JobsLess(t), Kept(t),
         st'[t] = "closing" => Closer(t) \in waits'
  PROVE  SessionOK(t)'
<1>1. /\ st'[t] = st[t] \/ st'[t] = "closed"
      /\ Alive(st'[t]) => SessSame(t) /\ Alive(st[t])
      /\ st'[t] = "open" => st[t] = "open" /\ SessSame(t)
      /\ fds'[t] = fds[t] \/ fds'[t] = {}
      /\ handle'[t] = handle[t] \/ handle'[t] = -1
      /\ \A x : x \notin fds[t] => x \notin fds'[t]
  BY DEF SessSame, SessClosed, Alive
<1>2. /\ job'[App(t)].op # "none" => job'[App(t)] = job[App(t)]
      /\ job'[Closer(t)].op # "none" => job'[Closer(t)] = job[Closer(t)]
      /\ Alive(st'[t]) => job'[Closer(t)] = job[Closer(t)]
      /\ job[Closer(t)].op = "none" => job'[Closer(t)].op = "none"
  BY NoJobIs DEF JobsLess
<1>3. \A j : NamesDisk(j) => j.op # "none"
  BY DEF NamesDisk
<1>4. Phases(t)'
  <2>1. st'[t] = "open" => Alive(st'[t])
    BY DEF Alive
  <2> QED
    BY <1>1, <1>2, <2>1 DEF SessionOK, Phases, SessSame
<1>5. Handles(t)'
  BY <1>1, <1>2, <1>3 DEF SessionOK, Handles, SessSame, Fewer, Kept
<1>6. Files(t)'
  <2>1. Alive(st'[t]) => \A fd \in fds'[t] \ visited'[t] : Own(fdtab', fd, t)
    BY <1>1 DEF SessionOK, Files, SessSame, Kept
  <2>2. In(queue', App(t)) /\ job'[App(t)].op \in {"read", "closefd"} => Own(fdtab', job'[App(t)].arg, t)
    BY <1>2 DEF SessionOK, Files, Fewer, Kept
  <2>3. In(queue', Closer(t)) /\ job'[Closer(t)].op = "closefd" => Own(fdtab', job'[Closer(t)].arg, t)
    BY <1>2 DEF SessionOK, Files, Fewer, Kept
  <2>4. ASSUME NEW r \in Int, Ans(doneq', App(t), r), job'[App(t)].op = "open", r >= 0
        PROVE  /\ Own(fdtab', r, t)
               /\ Alive(st'[t]) => r \notin fds'[t] \ visited'[t]
               /\ In(queue', Closer(t)) /\ job'[Closer(t)].op = "closefd" => job'[Closer(t)].arg # r
    BY <1>1, <1>2, <2>4 DEF SessionOK, Files, SessSame, Fewer, Kept
  <2> QED
    BY <2>1, <2>2, <2>3, <2>4 DEF Files
<1>7. Turns(t)'
  <2>1. st'[t] = "closing" => Alive(st'[t])
    BY DEF Alive
  <2> QED
    BY <1>1, <1>2, <1>3, <2>1 DEF SessionOK, Turns, SessSame, Fewer
<1> QED
  BY <1>4, <1>5, <1>6, <1>7 DEF SessionOK

-----------------------------------------------------------------------------
(* What a session can rely on after a step of its own. *)

\* The engine does nothing, and no completion is new.
NoRun ==
  /\ up' = up /\ g_handles' = g_handles /\ fdtab' = fdtab
  /\ \A p \in Chains, r \in Int : Ans(doneq', p, r) => Ans(doneq, p, r)

\* The application asks: what it names is its own, and only an open session
\* takes such a request.
LEMMA AppCall ==
  ASSUME NEW s \in Sessions, SessionOK(s), NoRun, Requests(queue, doneq', job, held),
         Unasked(queue, doneq', App(s)),
         NEW op, NEW arg, NEW n, CallEffect(App(s), op, arg, n, doneq'), op # "attach",
         st'[s] = st[s], handle'[s] = handle[s], visited'[s] = visited[s],
         \A x : x \in fds'[s] => x \in fds[s],
         Closer(s) \in waits => Closer(s) \in waits',
         (op = "enter" \/ (op = "text" /\ n = 1)) /\ arg # -1 => st[s] = "open" /\ Mine(g_handles, up, arg, s),
         op \in {"read", "closefd"} => st[s] = "open" /\ Own(fdtab, arg, s),
         op = "closefd" => arg \notin fds'[s]
  PROVE  SessionOK(s)'
<1>1. /\ job'[App(s)].op = op /\ job'[App(s)].arg = arg /\ job'[App(s)].tries = n
      /\ job'[Closer(s)] = job[Closer(s)]
      /\ In(queue', Closer(s)) => In(queue, Closer(s))
      /\ Before(queue', Closer(s), App(s)) => In(queue, Closer(s))
  BY Apart, BeforeIn DEF CallEffect
<1>2. In(queue, Closer(s)) => job[Closer(s)].op # "none"
  BY Apart DEF Requests
<1>3. NamesDisk(job'[App(s)]) => (op = "enter" \/ (op = "text" /\ n = 1)) /\ arg # -1
  BY <1>1 DEF NamesDisk
<1>4. \A r \in Int : ~Ans(doneq', App(s), r)
  BY DEF Unasked
<1>5. st[s] = "open" => job[Closer(s)].op = "none"
  BY DEF SessionOK, Phases
<1>6. Phases(s)'
  BY <1>1 DEF SessionOK, Phases
<1>7. Handles(s)'
  BY <1>1, <1>3, <1>4 DEF SessionOK, Handles, NoRun
<1>8. Files(s)'
  BY <1>1, <1>4 DEF SessionOK, Files, NoRun
<1>9. Turns(s)'
  BY <1>1, <1>2, <1>3, <1>5 DEF SessionOK, Turns
<1> QED
  BY <1>6, <1>7, <1>8, <1>9 DEF SessionOK

\* attachPath of a new session.
LEMMA AttachCall ==
  ASSUME NEW s \in Sessions, Requests(queue, doneq', job, held), Unasked(queue, doneq', App(s)),
         CallEffect(App(s), "attach", -1, 1, doneq'), job[Closer(s)].op = "none",
         st'[s] = "open", handle'[s] = -1, fds'[s] = {}, visited'[s] = {}
  PROVE  SessionOK(s)'
<1>1. /\ job'[App(s)].op = "attach" /\ job'[Closer(s)].op = "none"
      /\ ~In(queue', Closer(s)) /\ ~NamesDisk(job'[App(s)]) /\ \A r \in Int : ~Ans(doneq', App(s), r)
  BY Apart DEF CallEffect, Requests, NamesDisk, Unasked
<1>2. Phases(s)'
  BY <1>1 DEF Phases
<1>3. Handles(s)'
  BY <1>1 DEF Handles
<1>4. Files(s)'
  BY <1>1 DEF Files
<1>5. Turns(s)'
  BY <1>1 DEF Turns
<1> QED
  BY <1>2, <1>3, <1>4, <1>5 DEF SessionOK

\* A session that is not there.
LEMMA Absent ==
  ASSUME NEW t \in Sessions, st'[t] \in {"none", "closed"}, job'[App(t)].op = "none", job'[Closer(t)].op = "none"
  PROVE  SessionOK(t)'
<1>1. ~Alive(st'[t]) /\ st'[t] # "open" /\ st'[t] # "closing" /\ ~NamesDisk(job'[App(t)])
  BY DEF Alive, NamesDisk
<1>2. Phases(t)' /\ Turns(t)'
  BY <1>1 DEF Phases, Turns
<1>3. Handles(t)' /\ Files(t)'
  BY <1>1 DEF Handles, Files
<1> QED
  BY <1>2, <1>3 DEF SessionOK

\* A session that is new and has asked for nothing.
LEMMA Fresh ==
  ASSUME NEW s \in Sessions, job'[App(s)].op = "none", job'[Closer(s)].op = "none",
         st'[s] = "open", handle'[s] = -1, fds'[s] = {}, visited'[s] = {}
  PROVE  SessionOK(s)'
<1>1. ~NamesDisk(job'[App(s)])
  BY DEF NamesDisk
<1>2. Phases(s)' /\ Turns(s)'
  BY <1>1 DEF Phases, Turns
<1>3. Handles(s)' /\ Files(s)'
  BY <1>1 DEF Handles, Files
<1> QED
  BY <1>2, <1>3 DEF SessionOK

\* The application's chain of calls has ended, and it heard of a handle or fd.
LEMMA AppReturn ==
  ASSUME NEW s \in Sessions, SessionOK(s), NoRun, ReturnEffect(App(s), doneq'),
         st'[s] = st[s], visited'[s] = visited[s], Closer(s) \in waits => Closer(s) \in waits',
         handle'[s] = handle[s] \/ Mine(g_handles, up, handle'[s], s),
         \A x : x \in fds'[s] => x \in fds[s] \/ Own(fdtab, x, s)
  PROVE  SessionOK(s)'
<1>1. /\ job'[App(s)].op = "none" /\ job'[Closer(s)] = job[Closer(s)] /\ queue' = queue
      /\ ~NamesDisk(job'[App(s)])
  BY Apart, NoJobIs DEF ReturnEffect, NamesDisk
<1>2. Phases(s)'
  BY <1>1 DEF SessionOK, Phases
<1>3. Handles(s)'
  BY <1>1 DEF SessionOK, Handles, NoRun
<1>4. Files(s)'
  BY <1>1 DEF SessionOK, Files, NoRun
<1>5. Turns(s)'
  BY <1>1 DEF SessionOK, Turns
<1> QED
  BY <1>2, <1>3, <1>4, <1>5 DEF SessionOK

\* close() asks for the end of an fd or of the disk.
LEMMA CloserCall ==
  ASSUME NEW s \in Sessions, SessionOK(s), NoRun,
         NEW op, NEW arg, NEW n, CallEffect(Closer(s), op, arg, n, doneq'),
         Alive(st[s]), st'[s] = "closing", handle'[s] = handle[s], fds'[s] = fds[s],
         Closer(s) \in waits', job[Closer(s)].op # "sessclose",
         \/ /\ op = "closefd" /\ arg \in fds[s] \ visited[s] /\ visited'[s] = visited[s] \cup {arg}
         \/ /\ op = "sessclose" /\ handle[s] # -1 /\ arg = handle[s] /\ visited'[s] = visited[s]
  PROVE  SessionOK(s)'
<1>1. /\ job'[Closer(s)].op = op /\ job'[Closer(s)].arg = arg /\ job'[App(s)] = job[App(s)]
      /\ In(queue', App(s)) => In(queue, App(s))
      /\ Before(queue', Closer(s), App(s)) => Before(queue, Closer(s), App(s))
      /\ \A r \in Int : Ans(doneq', App(s), r) => Ans(doneq, App(s), r)
      /\ op \in {"closefd", "sessclose"} /\ op # "none"
  BY Apart DEF CallEffect, NoRun
<1>2. job[App(s)].op # "attach"
  BY DEF SessionOK, Phases
<1>3. \A x : x \in fds'[s] \ visited'[s] => x \in fds[s] \ visited[s]
  OBVIOUS
<1>4. /\ op = "closefd" => Own(fdtab, arg, s) /\ arg \in fds[s] \ visited[s] /\ arg \in visited'[s]
      /\ op = "sessclose" => Mine(g_handles, up, arg, s)
  BY DEF SessionOK, Files, Handles
<1>5. Phases(s)'
  BY <1>1, <1>2 DEF Phases
<1>6. Handles(s)'
  BY <1>1, <1>2, <1>4 DEF SessionOK, Handles, NoRun
<1>7. Files(s)'
  <2>1. \A fd \in fds'[s] \ visited'[s] : Own(fdtab', fd, s)
    BY <1>3 DEF SessionOK, Files, NoRun
  <2>2. In(queue', App(s)) /\ job'[App(s)].op \in {"read", "closefd"} => Own(fdtab', job'[App(s)].arg, s)
    BY <1>1 DEF SessionOK, Files, NoRun
  <2>3. In(queue', Closer(s)) /\ job'[Closer(s)].op = "closefd" => Own(fdtab', job'[Closer(s)].arg, s)
    BY <1>1, <1>4 DEF NoRun
  <2>4. ASSUME NEW r \in Int, Ans(doneq', App(s), r), job'[App(s)].op = "open", r >= 0
        PROVE  /\ Own(fdtab', r, s)
               /\ Alive(st'[s]) => r \notin fds'[s] \ visited'[s]
               /\ In(queue', Closer(s)) /\ job'[Closer(s)].op = "closefd" => job'[Closer(s)].arg # r
    <3>1. Own(fdtab, r, s) /\ r \notin fds[s] \ visited[s]
      BY <1>1, <2>4 DEF SessionOK, Files
    <3> QED
      BY <1>1, <1>3, <1>4, <3>1 DEF NoRun
  <2> QED
    BY <2>1, <2>2, <2>3, <2>4 DEF Files
<1>8. Turns(s)'
  BY <1>1, <1>4 DEF SessionOK, Turns
<1> QED
  BY <1>5, <1>6, <1>7, <1>8 DEF SessionOK

-----------------------------------------------------------------------------
(* The API thread runs a request. *)

\* Whose chain asks for what.
LEMMA WhoAsks ==
  ASSUME JobTypes(job), NEW p \in Chains, job[p].op # "none"
  PROVE  /\ job[p].op \in {"init", "halt"} => p = Main
         /\ job[p].op = "sessclose" => \E s \in Sessions : p = Closer(s)
         /\ job[p].op = "closefd" => \E s \in Sessions : p = App(s) \/ p = Closer(s)
         /\ job[p].op \notin {"init", "halt", "sessclose", "closefd"} => \E s \in Sessions : p = App(s)
<1>1. JobOK(p, job[p]) /\ (p = Main \/ \E s \in Sessions : p = App(s) \/ p = Closer(s))
  BY Apart DEF JobTypes
<1> QED
  BY <1>1 DEF JobOK, MainOps, AppOps, CloserOps

\* The request of p is run with the result r; nobody else is told anything.
Ran(p, r) ==
  /\ job' = job /\ waits' = waits /\ st' = st /\ handle' = handle /\ fds' = fds /\ visited' = visited
  /\ \A x : In(queue', x) => In(queue, x) /\ x # p /\ Before(queue, p, x)
  /\ \A a, b : Before(queue', a, b) => Before(queue, a, b)
  /\ \A x \in Chains, v \in Int : Ans(doneq', x, v) => Ans(doneq, x, v) \/ (x = p /\ v = r)
  /\ In(queue, p) /\ job[p].op # "none"

\* What p is told of is its own, and new.
News(t, p, r) ==
  /\ job[p].op = "attach" /\ r >= 0 => Mine(g_handles', up', r, t)
  /\ job[p].op = "open" /\ r >= 0 =>
       /\ Own(fdtab', r, t)
       /\ Alive(st[t]) => r \notin fds[t] \ visited[t]
       /\ In(queue, Closer(t)) /\ job[Closer(t)].op = "closefd" => job[Closer(t)].arg # r

\* A session keeps its part of the invariant when the API thread runs a request.
LEMMA RunKept ==
  ASSUME NEW t \in Sessions, SessionOK(t), NEW p, NEW r, Ran(p, r), Kept(t), p = App(t) => News(t, p, r)
  PROVE  SessionOK(t)'
<1>1. /\ In(queue', App(t)) => In(queue, App(t))
      /\ In(queue', Closer(t)) => In(queue, Closer(t))
      /\ Before(queue', Closer(t), App(t)) => Before(queue, Closer(t), App(t))
      /\ \A v \in Int : Ans(doneq', App(t), v) => Ans(doneq, App(t), v) \/ (p = App(t) /\ v = r)
  BY Apart DEF Ran
<1>2. job' = job /\ waits' = waits /\ st' = st /\ handle' = handle /\ fds' = fds /\ visited' = visited
  BY DEF Ran
<1>3. Phases(t)'
  BY <1>2 DEF SessionOK, Phases
<1>4. Handles(t)'
  <2>1. ASSUME NEW v \in Int, Ans(doneq', App(t), v), job[App(t)].op = "attach", v >= 0
        PROVE  Mine(g_handles', up', v, t)
    BY <1>1, <2>1 DEF SessionOK, Handles, Kept, News
  <2> QED
    BY <1>1, <1>2, <2>1 DEF SessionOK, Handles, Kept
<1>5. Files(t)'
  <2>1. ASSUME NEW v \in Int, Ans(doneq', App(t), v), job[App(t)].op = "open", v >= 0
        PROVE  /\ Own(fdtab', v, t)
               /\ Alive(st[t]) => v \notin fds[t] \ visited[t]
               /\ In(queue', Closer(t)) /\ job[Closer(t)].op = "closefd" => job[Closer(t)].arg # v
    <3>1. CASE Ans(doneq, App(t), v)
      BY <1>1, <2>1, <3>1 DEF SessionOK, Files, Kept
    <3>2. CASE p = App(t) /\ v = r
      BY <1>1, <2>1, <3>2 DEF News
    <3> QED
      BY <1>1, <2>1, <3>1, <3>2
  <2> QED
    BY <1>1, <1>2, <2>1 DEF SessionOK, Files, Kept
<1>6. Turns(t)'
  BY <1>1, <1>2 DEF SessionOK, Turns
<1> QED
  BY <1>3, <1>4, <1>5, <1>6 DEF SessionOK

\* The disk of s is closed: s has no other request that names it.
LEMMA RunSessclose ==
  ASSUME NEW s \in Sessions, SessionOK(s), NEW r, Ran(Closer(s), r), job[Closer(s)].op = "sessclose",
         fdtab' = fdtab
  PROVE  SessionOK(s)'
<1>1. /\ ~In(queue', Closer(s)) /\ (In(queue', App(s)) => In(queue, App(s)) /\ Before(queue, Closer(s), App(s)))
      /\ Before(queue', Closer(s), App(s)) => Before(queue, Closer(s), App(s))
      /\ \A v \in Int : Ans(doneq', App(s), v) => Ans(doneq, App(s), v)
  BY Apart DEF Ran
<1>2. job' = job /\ waits' = waits /\ st' = st /\ handle' = handle /\ fds' = fds /\ visited' = visited
  BY DEF Ran
<1>3. job[App(s)].op # "attach"
  BY DEF SessionOK, Phases
<1>4. Phases(s)'
  BY <1>2 DEF SessionOK, Phases
<1>5. Handles(s)'
  BY <1>1, <1>2, <1>3 DEF SessionOK, Handles, Turns
<1>6. Files(s)'
  BY <1>1, <1>2 DEF SessionOK, Files
<1>7. Turns(s)'
  BY <1>1, <1>2 DEF SessionOK, Turns
<1> QED
  BY <1>4, <1>5, <1>6, <1>7 DEF SessionOK

\* An fd of s is closed: s has no other request that names it.
LEMMA RunClosefd ==
  ASSUME NEW s \in Sessions, SessionOK(s), NEW p, NEW r, Ran(p, r), p = App(s) \/ p = Closer(s),
         job[p].op = "closefd", g_handles' = g_handles, up' = up,
         \A fd : fd # job[p].arg /\ Own(fdtab, fd, s) => Own(fdtab', fd, s)
  PROVE  SessionOK(s)'
<1>1. /\ In(queue', App(s)) => In(queue, App(s)) /\ App(s) # p /\ Before(queue, p, App(s))
      /\ In(queue', Closer(s)) => In(queue, Closer(s)) /\ Closer(s) # p
      /\ Before(queue', Closer(s), App(s)) => Before(queue, Closer(s), App(s))
      /\ \A v \in Int : Ans(doneq', App(s), v) => Ans(doneq, App(s), v) \/ p = App(s)
      /\ App(s) # Closer(s)
  BY Apart DEF Ran
<1>2. job' = job /\ waits' = waits /\ st' = st /\ handle' = handle /\ fds' = fds /\ visited' = visited
  BY DEF Ran
<1>3. Phases(s)'
  BY <1>2 DEF SessionOK, Phases
<1>4. Handles(s)'
  BY <1>1, <1>2 DEF SessionOK, Handles
<1>5. Files(s)'
  <2>1. Alive(st[s]) => job[p].arg \notin fds[s] \ visited[s]
    <3>1. CASE p = App(s)
      BY <3>1 DEF SessionOK, Turns
    <3>2. CASE p = Closer(s)
      BY <3>2 DEF SessionOK, Turns, Phases, Alive
    <3> QED
      BY <3>1, <3>2
  <2>2. Alive(st'[s]) => \A fd \in fds'[s] \ visited'[s] : Own(fdtab', fd, s)
    BY <1>2, <2>1 DEF SessionOK, Files
  <2>3. In(queue', App(s)) /\ job'[App(s)].op \in {"read", "closefd"} => Own(fdtab', job'[App(s)].arg, s)
    <3>1. ASSUME In(queue', App(s)), job[App(s)].op \in {"read", "closefd"}
          PROVE  job[App(s)].arg # job[p].arg /\ Own(fdtab, job[App(s)].arg, s)
      BY <1>1, <3>1 DEF SessionOK, Turns, Files
    <3> QED
      BY <1>2, <3>1
  <2>4. In(queue', Closer(s)) /\ job'[Closer(s)].op = "closefd" => Own(fdtab', job'[Closer(s)].arg, s)
    BY <1>1, <1>2 DEF SessionOK, Turns, Files
  <2>5. ASSUME NEW v \in Int, Ans(doneq', App(s), v), job'[App(s)].op = "open", v >= 0
        PROVE  /\ Own(fdtab', v, s)
               /\ Alive(st'[s]) => v \notin fds'[s] \ visited'[s]
               /\ In(queue', Closer(s)) /\ job'[Closer(s)].op = "closefd" => job'[Closer(s)].arg # v
    <3>1. p = Closer(s) /\ In(queue, Closer(s)) /\ Ans(doneq, App(s), v)
      BY <1>1, <1>2, <2>5 DEF Ran
    <3>2. Own(fdtab, v, s) /\ v # job[p].arg /\ (Alive(st[s]) => v \notin fds[s] \ visited[s])
      BY <1>2, <2>5, <3>1 DEF SessionOK, Files
    <3> QED
      BY <1>1, <1>2, <3>1, <3>2
  <2> QED
    BY <2>2, <2>3, <2>4, <2>5 DEF Files
<1>6. Turns(s)'
  BY <1>1, <1>2 DEF SessionOK, Turns
<1> QED
  BY <1>3, <1>4, <1>5, <1>6 DEF SessionOK

\* The least of a set of numbers is one of them.
LEMMA MinIn ==
  ASSUME NEW S \in SUBSET Nat, S # {}
  PROVE  Min(S) \in S
<1> DEFINE Less == {ss \in Nat \X Nat : ss[1] < ss[2]}
<1>1. IsWellFoundedOn(Less, Nat)
  BY NatLessThanWellFounded DEF OpToRel
<1>2. \A f, g \in Nat : <<g, f>> \notin Less => f <= g
  BY SMTT(30)
<1>3. \E f \in S : \A g \in S : <<g, f>> \notin Less
  <2> HIDE DEF Less
  <2> QED
    BY <1>1, WFMin
<1>4. \E f \in S : \A g \in S : f <= g
  BY <1>2, <1>3
<1> QED
  BY <1>4 DEF Min

\* The API thread keeps the invariant.
LEMMA RunStep == ASSUME NodeInv, api_thread_fn PROVE NodeInv'
<1> DEFINE p == Head(queue)
<1>0. JobTypes(job) /\ EngineTypes /\ Requests(queue, doneq, job, held) /\ \A t \in Sessions : SessionOK(t)
  BY DEF NodeInv
<1>1. PICK r \in Results :
        /\ \/ kernelOp(p, r) \/ anyfs_ts_session_open(p, r) \/ anyfs_ts_session_enter(p, r)
           \/ anyfs_ts_session_close(p, r) \/ textOp(p, r) \/ api_last_error(p, r) \/ fdOp(p, r)
        /\ doneq' = Append(doneq, <<p, r>>)
  BY DEF api_thread_fn
<1>2. queue # <<>> /\ queue' = Tail(queue) /\ UNCHANGED <<boot, job, held, waits, st, handle, fds, visited>>
  BY DEF api_thread_fn, process, session
<1>3. r \in Int /\ ~(-1 >= 0) /\ ~(-2 >= 0)
  BY NodeAssumption, SMTT(30) DEF Results
<1>4. Requests(queue', doneq', job', held') /\ p \in Chains /\ Ran(p, r)
  <2>1. /\ Requests(queue', doneq', job, held) /\ p \in Chains
        /\ In(queue, p) /\ job[p].op # "none"
        /\ \A x : In(queue', x) => In(queue, x) /\ x # p /\ Before(queue, p, x)
        /\ \A a, b : Before(queue', a, b) => Before(queue, a, b)
        /\ \A x \in Chains, v \in Int : Ans(doneq', x, v) => Ans(doneq, x, v) \/ (x = p /\ v = r)
    BY <1>0, <1>1, <1>2, <1>3, RunRequests
  <2> QED
    BY <1>2, <2>1 DEF Ran
<1> HIDE DEF p
<1>5. In(queue, p) /\ job[p].op # "none"
  BY <1>4 DEF Ran
<1>6. ASSUME EngineTypes', \A t \in Sessions : SessionOK(t)' PROVE NodeInv'
  BY <1>2, <1>4, <1>6 DEF NodeInv, SessionTypes, Booting
<1>7. ASSUME UNCHANGED <<up, g_handles, fdtab>>, job[p].op \in {"attach", "open"} => ~(r >= 0)
      PROVE  NodeInv'
  <2>1. \A t \in Sessions : Kept(t) /\ News(t, p, r)
    BY <1>7 DEF Kept, News
  <2>2. EngineTypes'
    BY <1>0, <1>7 DEF EngineTypes
  <2> QED
    BY <1>0, <1>4, <1>6, <2>1, <2>2, RunKept
<1>8. CASE kernelOp(p, r)
  <2>1. CASE job[p].op = "init" /\ up' = TRUE /\ UNCHANGED <<g_handles, fdtab>>
    <3>1. p = Main
      BY <1>0, <1>4, <1>5, <2>1, WhoAsks
    <3>2. \A t \in Sessions : st[t] \in {"none", "closed"} /\ job[App(t)].op = "none" /\ job[Closer(t)].op = "none"
      BY <2>1, <3>1 DEF NodeInv, Booting
    <3>3. job' = job /\ st' = st
      BY <1>4 DEF Ran
    <3>5. \A t \in Sessions : SessionOK(t)'
      BY <3>2, <3>3, Absent
    <3>4. EngineTypes'
      BY <1>0, <2>1 DEF EngineTypes
    <3> QED
      BY <1>6, <3>4, <3>5
  <2>2. CASE job[p].op = "init" /\ UNCHANGED <<up, g_handles, fdtab>>
    BY <1>7, <2>2
  <2>3. CASE /\ job[p].op = "halt" /\ up' = FALSE /\ fdtab' = fdtab
             /\ g_handles' = [h \in DOMAIN g_handles |-> Nobody]
    <3>1. g_handles' = [h \in 0 .. MAX_HANDLES - 1 |-> Nobody]
      BY <1>0, <2>3 DEF EngineTypes
    <3>2. \A t \in Sessions : Kept(t) /\ News(t, p, r)
      BY <2>3, <3>1 DEF Kept, News, Mine
    <3>3. EngineTypes'
      BY <1>0, <2>3, <3>1 DEF EngineTypes
    <3> QED
      BY <1>0, <1>4, <1>6, <3>2, <3>3, RunKept
  <2> QED
    BY <1>8, <2>1, <2>2, <2>3 DEF kernelOp
<1>9. CASE anyfs_ts_session_open(p, r)
  <2>0. job[p].op = "attach" /\ UNCHANGED <<up, fdtab>>
    BY <1>9 DEF anyfs_ts_session_open
  <2>1. CASE (r = -1 \/ r = -2) /\ UNCHANGED g_handles
    BY <1>3, <1>7, <2>0, <2>1
  <2>2. CASE up /\ Free # {} /\ r = Min(Free) /\ g_handles' = [g_handles EXCEPT ![Min(Free)] = p[1]]
    <3>1. PICK s \in Sessions : p = App(s)
      BY <1>0, <1>4, <1>5, <2>0, WhoAsks
    <3>2. p[1] = s
      BY <3>1, Apart
    <3>3. 0 .. MAX_HANDLES - 1 \in SUBSET Nat
      BY NodeAssumption, SMTT(30)
    <3>4. r \in 0 .. MAX_HANDLES - 1 /\ g_handles[r] = Nobody
      <4>1. Free \in SUBSET Nat
        BY <1>0, <3>3 DEF Free, EngineTypes
      <4>2. r \in Free
        BY <2>2, <4>1, MinIn
      <4> QED
        BY <1>0, <4>2 DEF Free, EngineTypes
    <3>5. /\ g_handles'[r] = s /\ \A x \in 0 .. MAX_HANDLES - 1 : x # r => g_handles'[x] = g_handles[x]
          /\ g_handles' \in [0 .. MAX_HANDLES - 1 -> Sessions \cup {Nobody}]
      BY <1>0, <2>2, <3>2, <3>4 DEF EngineTypes
    <3>6. \A t \in Sessions : Kept(t)
      BY <2>0, <2>2, <3>4, <3>5, NodeAssumption DEF Kept, Mine
    <3>7. News(s, p, r)
      BY <2>0, <3>4, <3>5 DEF News, Mine
    <3>8. \A t \in Sessions : p = App(t) => t = s
      BY <3>1, Apart
    <3>9. EngineTypes'
      BY <1>0, <2>0, <3>5 DEF EngineTypes
    <3> QED
      BY <1>0, <1>4, <1>6, <3>6, <3>7, <3>8, <3>9, RunKept
  <2> QED
    BY <1>9, <2>1, <2>2 DEF anyfs_ts_session_open
<1>10. CASE anyfs_ts_session_enter(p, r) \/ textOp(p, r) \/ api_last_error(p, r)
  BY <1>7, <1>10 DEF anyfs_ts_session_enter, textOp, api_last_error, engine
<1>11. CASE anyfs_ts_session_close(p, r)
  <2>0. /\ job[p].op = "sessclose" /\ UNCHANGED <<up, fdtab>>
        /\ g_handles' = [g_handles EXCEPT ![job[p].arg] = Nobody]
    BY <1>11 DEF anyfs_ts_session_close
  <2>1. PICK s \in Sessions : p = Closer(s)
    BY <1>0, <1>4, <1>5, <2>0, WhoAsks
  <2>2. Mine(g_handles, up, job[p].arg, s)
    BY <1>0, <1>5, <2>0, <2>1 DEF SessionOK, Handles
  <2>3. /\ \A x \in 0 .. MAX_HANDLES - 1 : g_handles'[x] = IF x = job[p].arg THEN Nobody ELSE g_handles[x]
        /\ g_handles' \in [0 .. MAX_HANDLES - 1 -> Sessions \cup {Nobody}]
    BY <1>0, <2>0 DEF EngineTypes
  <2>4. \A t \in Sessions : t # s => Kept(t)
    BY <2>0, <2>2, <2>3, NodeAssumption DEF Kept, Mine
  <2>5. SessionOK(s)'
    BY <1>0, <1>4, <2>0, <2>1, RunSessclose
  <2>6. \A t \in Sessions : p # App(t)
    BY <2>1, Apart
  <2>7. EngineTypes'
    BY <1>0, <2>0, <2>3 DEF EngineTypes
  <2>8. \A t \in Sessions : t # s => SessionOK(t)'
    BY <1>0, <1>4, <2>4, <2>6, RunKept
  <2> QED
    BY <1>6, <2>5, <2>7, <2>8
<1>12. CASE fdOp(p, r)
  <2>0. UNCHANGED <<up, g_handles>>
    BY <1>12 DEF fdOp, engine
  <2>1. CASE job[p].op = "open" /\ r = -1 /\ UNCHANGED fdtab
    BY <1>3, <1>7, <2>0, <2>1
  <2>2. ASSUME job[p].op = "open", r \in KernelFds, fdtab[r] = Nobody, fdtab' = [fdtab EXCEPT ![r] = p[1]]
        PROVE  NodeInv'
    <3>1. PICK s \in Sessions : p = App(s)
      BY <1>0, <1>4, <1>5, <2>2, WhoAsks
    <3>2. p[1] = s
      BY <3>1, Apart
    <3>3. /\ fdtab'[r] = s /\ \A x \in KernelFds : x # r => fdtab'[x] = fdtab[x]
          /\ fdtab' \in [KernelFds -> Sessions \cup {Nobody}]
      BY <1>0, <2>2, <3>2 DEF EngineTypes
    <3>4. \A t \in Sessions : \A fd : Own(fdtab, fd, t) => fd # r
      BY <2>2, NodeAssumption DEF Own
    <3>5. \A t \in Sessions : Kept(t)
      BY <2>0, <3>3, <3>4 DEF Kept, Own
    <3>6. News(s, p, r)
      <4>1. Own(fdtab', r, s)
        BY <2>2, <3>3 DEF Own
      <4>2. /\ Alive(st[s]) => r \notin fds[s] \ visited[s]
            /\ In(queue, Closer(s)) /\ job[Closer(s)].op = "closefd" => job[Closer(s)].arg # r
        BY <1>0, <3>4 DEF SessionOK, Files
      <4> QED
        BY <2>2, <4>1, <4>2 DEF News
    <3>7. \A t \in Sessions : p = App(t) => t = s
      BY <3>1, Apart
    <3>8. EngineTypes'
      BY <1>0, <2>0, <3>3 DEF EngineTypes
    <3> QED
      BY <1>0, <1>4, <1>6, <3>5, <3>6, <3>7, <3>8, RunKept
  <2>3. CASE job[p].op = "read" /\ UNCHANGED fdtab
    BY <1>7, <2>0, <2>3
  <2>4. ASSUME job[p].op = "closefd", fdtab' = [fdtab EXCEPT ![job[p].arg] = Nobody]
        PROVE  NodeInv'
    <3>1. PICK s \in Sessions : p = App(s) \/ p = Closer(s)
      BY <1>0, <1>4, <1>5, <2>4, WhoAsks
    <3>2. Own(fdtab, job[p].arg, s)
      BY <1>0, <1>5, <2>4, <3>1 DEF SessionOK, Files
    <3>3. /\ \A x \in KernelFds : x # job[p].arg => fdtab'[x] = fdtab[x]
          /\ fdtab' \in [KernelFds -> Sessions \cup {Nobody}]
      BY <1>0, <2>4 DEF EngineTypes
    <3>4. \A t, fd : fd # job[p].arg /\ Own(fdtab, fd, t) => Own(fdtab', fd, t)
      BY <3>3 DEF Own
    <3>5. \A t \in Sessions : t # s => Kept(t)
      BY <2>0, <3>2, <3>4 DEF Kept, Own
    <3>6. SessionOK(s)'
      BY <1>0, <1>4, <2>0, <2>4, <3>1, <3>4, RunClosefd
    <3>7. \A t \in Sessions : News(t, p, r)
      BY <2>4 DEF News
    <3>8. EngineTypes'
      BY <1>0, <2>0, <3>3 DEF EngineTypes
    <3>9. \A t \in Sessions : t # s => SessionOK(t)'
      BY <1>0, <1>4, <3>5, <3>7, RunKept
    <3> QED
      BY <1>6, <3>6, <3>8, <3>9
  <2> QED
    BY <1>12, <2>1, <2>2, <2>3, <2>4 DEF fdOp, engine
<1> QED
  BY <1>1, <1>8, <1>9, <1>10, <1>11, <1>12

-----------------------------------------------------------------------------
(* The steps of a session. *)

\* Only chains of s may have changed.
Moved(s) ==
  /\ Requests(queue', doneq', job', held') /\ JobTypes(job') /\ job'[Main] = job[Main]
  /\ \A t \in Sessions \ {s} : Fewer(t) /\ JobsLess(t)

\* The other sessions are as they were.
Aside(s) == \A t \in Sessions \ {s} : SessSame(t) /\ (Closer(t) \in waits => Closer(t) \in waits')

\* A step of one session that leaves the others alone keeps the invariant.
LEMMA StepOf ==
  ASSUME NodeInv, NEW s \in Sessions, Moved(s), Aside(s), NoRun, SessionTypes',
         job[Main].op # "init", SessionOK(s)'
  PROVE  NodeInv'
<1>1. \A t \in Sessions : Kept(t)
  BY DEF NoRun, Kept
<1>2. ASSUME NEW t \in Sessions \ {s} PROVE SessionOK(t)'
  <2>1. SessionOK(t) /\ SessSame(t) /\ Fewer(t) /\ JobsLess(t) /\ Kept(t)
    BY <1>1 DEF NodeInv, Aside, Moved
  <2>2. st'[t] = "closing" => Closer(t) \in waits'
    BY <2>1 DEF Aside, SessSame, SessionOK, Phases
  <2> QED
    BY <2>1, <2>2, Quiet
<1>3. EngineTypes'
  BY DEF NodeInv, NoRun, EngineTypes
<1>4. Booting'
  BY DEF Moved, Booting
<1> QED
  BY <1>2, <1>3, <1>4 DEF NodeInv, Moved

\* A call of a session is a step of that session alone.
LEMMA CallMoves ==
  ASSUME NEW s \in Sessions, NEW p, p = App(s) \/ p = Closer(s), NoRun,
         NEW op, NEW arg, NEW n, CallEffect(p, op, arg, n, doneq')
  PROVE  Moved(s)
<1>1. /\ Requests(queue', doneq', job', held') /\ JobTypes(job')
      /\ \A x \in Chains : x # p => job'[x] = job[x]
      /\ \A x : In(queue', x) => In(queue, x) \/ x = p
      /\ \A a, b : Before(queue', a, b) => Before(queue, a, b) \/ b = p
  BY DEF CallEffect
<1>2. Main # p /\ Main \in Chains
  BY Apart
<1>3. ASSUME NEW t \in Sessions \ {s} PROVE Fewer(t) /\ JobsLess(t)
  <2>1. App(t) # p /\ Closer(t) # p /\ App(t) \in Chains /\ Closer(t) \in Chains
    BY Apart
  <2> QED
    BY <1>1, <2>1 DEF Fewer, JobsLess, NoRun
<1> QED
  BY <1>1, <1>2, <1>3 DEF Moved

\* A return to a session is a step of that session alone.
LEMMA ReturnMoves ==
  ASSUME NEW s \in Sessions, NEW p, p = App(s) \/ p = Closer(s), NoRun, ReturnEffect(p, doneq')
  PROVE  Moved(s)
<1>1. /\ Requests(queue', doneq', job', held') /\ JobTypes(job') /\ queue' = queue
      /\ \A x \in Chains : x # p => job'[x] = job[x]
  BY DEF ReturnEffect
<1>2. Main # p /\ Main \in Chains
  BY Apart
<1>3. ASSUME NEW t \in Sessions \ {s} PROVE Fewer(t) /\ JobsLess(t)
  <2>1. App(t) # p /\ Closer(t) # p /\ App(t) \in Chains /\ Closer(t) \in Chains
    BY Apart
  <2> QED
    BY <1>1, <2>1 DEF Fewer, JobsLess, NoRun
<1> QED
  BY <1>1, <1>2, <1>3 DEF Moved

\* A chain without a job has no request and no completion.
LEMMA IdleChain ==
  ASSUME NEW q, NEW d, NEW h, NEW p \in Chains, Requests(q, d, job, h), job[p].op = "none"
  PROVE  Unasked(q, d, p)
BY DEF Requests, Unasked

\* CallMade, for the calls of the application.
LEMMA AppAsks ==
  ASSUME NEW d, JobTypes(job), Requests(queue, d, job, held), NEW s \in Sessions, Unasked(queue, d, App(s)),
         NEW op \in AppOps, op # "none", NEW arg \in Int, NEW n \in Nat, n >= 1, Call(App(s), op, arg, n)
  PROVE  CallEffect(App(s), op, arg, n, d)
<1>1. op \in Ops /\ App(s) \in Chains /\ App(s) # Main /\ \A t \in Sessions : App(s) # Closer(t)
  BY Apart DEF AppOps
<1>2. JobOK(App(s), [op |-> op, arg |-> arg, tries |-> n])
  BY <1>1, JobIs DEF JobOK
<1> QED
  BY <1>1, <1>2, CallMade

\* CallMade, for the calls of close.
LEMMA CloserAsks ==
  ASSUME NEW d, JobTypes(job), Requests(queue, d, job, held), NEW s \in Sessions, Unasked(queue, d, Closer(s)),
         NEW op \in {"closefd", "sessclose"}, NEW arg \in Int, Call(Closer(s), op, arg, 1)
  PROVE  CallEffect(Closer(s), op, arg, 1, d)
<1>1. op \in Ops /\ op # "none" /\ Closer(s) \in Chains /\ Closer(s) # Main /\ \A t \in Sessions : App(t) # Closer(s)
  BY Apart DEF Ops
<1>2. 1 \in Nat /\ 1 >= 1
  BY SMTT(30)
<1>3. JobOK(Closer(s), [op |-> op, arg |-> arg, tries |-> 1])
  BY <1>1, <1>2, JobIs DEF JobOK, CloserOps
<1> QED
  BY <1>1, <1>2, <1>3, CallMade

\* Closing a set of sessions closes those and no other.
LEMMA ClosedSessions ==
  ASSUME SessionTypes, NEW C, Closed(C)
  PROVE  SessionTypes' /\ \A t \in Sessions : (t \in C => SessClosed(t)) /\ (t \notin C => SessSame(t))
<1>1. -1 \in Int
  BY SMTT(30)
<1>2. SessionTypes'
  BY <1>1 DEF SessionTypes, Closed
<1>3. \A t \in Sessions : (t \in C => SessClosed(t)) /\ (t \notin C => SessSame(t))
  BY DEF Closed, SessClosed, SessSame
<1> QED
  BY <1>2, <1>3

\* What a step of session s starts from.
LEMMA Given ==
  ASSUME NodeInv, NEW s \in Sessions
  PROVE  /\ JobTypes(job) /\ SessionTypes /\ Requests(queue, doneq, job, held) /\ SessionOK(s)
         /\ App(s) \in Chains /\ Closer(s) \in Chains /\ App(s) # Closer(s)
         /\ \A t \in Sessions : t # s => Closer(t) # App(s) /\ Closer(t) # Closer(s)
         /\ job[App(s)].op = "none" => Unasked(queue, doneq, App(s))
         /\ job[Closer(s)].op = "none" => Unasked(queue, doneq, Closer(s))
<1>1. JobTypes(job) /\ SessionTypes /\ Requests(queue, doneq, job, held) /\ SessionOK(s)
  BY DEF NodeInv
<1> QED
  BY <1>1, Apart, IdleChain

\* The session is in use, so the kernel does not boot.
LEMMA InUse ==
  ASSUME NodeInv, NEW s \in Sessions,
         Alive(st[s]) \/ job[App(s)].op # "none" \/ job[Closer(s)].op # "none" \/ boot = "ok"
  PROVE  job[Main].op # "init"
BY DEF NodeInv, Booting, Alive

\* An operation of an open session.
LEMMA OpStep ==
  ASSUME NodeInv, NEW s \in Sessions, Ready(s), NEW op \in AppOps, op \notin {"none", "attach"}, NEW arg \in Int,
         Call(App(s), op, arg, 1), waits' = waits \cup {App(s)},
         UNCHANGED <<up, g_handles, fdtab, doneq, st, handle, visited>>,
         fds' = [fds EXCEPT ![s] = fds'[s]], fds'[s] \in SUBSET fds[s],
         op \in {"enter", "text"} /\ arg # -1 => Mine(g_handles, up, arg, s),
         op \in {"read", "closefd"} => Own(fdtab, arg, s),
         op = "closefd" => arg \notin fds'[s]
  PROVE  NodeInv'
<1>1. st[s] = "open" /\ job[App(s)] = NoJob
  BY DEF Ready
<1>2. /\ JobTypes(job) /\ SessionTypes /\ Requests(queue, doneq, job, held) /\ SessionOK(s)
      /\ Unasked(queue, doneq, App(s))
      /\ \A t \in Sessions : t # s => Closer(t) # App(s)
  BY <1>1, Given, NoJobIs
<1>3. NoRun
  BY DEF NoRun
<1>4. 1 \in Nat /\ 1 >= 1
  BY SMTT(30)
<1>5. CallEffect(App(s), op, arg, 1, doneq')
  BY <1>2, <1>4, AppAsks
<1>6. Moved(s)
  BY <1>3, <1>5, CallMoves
<1>7. SessionTypes' /\ \A t \in Sessions \ {s} : fds'[t] = fds[t]
  BY <1>2 DEF SessionTypes
<1>8. Aside(s)
  BY <1>2, <1>7 DEF Aside, SessSame
<1>9. SessionOK(s)'
  <2>1. op # "attach" /\ Closer(s) \in waits => Closer(s) \in waits'
    OBVIOUS
  <2>2. Requests(queue, doneq', job, held) /\ Unasked(queue, doneq', App(s))
    BY <1>2
  <2> QED
    BY <1>1, <1>2, <1>3, <1>5, <2>1, <2>2, AppCall
<1>10. job[Main].op # "init"
  BY <1>1, InUse DEF Alive
<1> QED
  BY <1>3, <1>6, <1>7, <1>8, <1>9, <1>10, StepOf

\* What an open session may name.
LEMMA ReadyOwns ==
  ASSUME NodeInv, NEW s \in Sessions, Ready(s)
  PROVE  /\ (handle[s] # -1 => Mine(g_handles, up, handle[s], s)) /\ handle[s] \in Int
         /\ \A fd \in fds[s] : Own(fdtab, fd, s) /\ fd \in Int
<1>1. st[s] = "open"
  BY DEF Ready
<1>2. SessionOK(s) /\ SessionTypes
  BY DEF NodeInv
<1>3. visited[s] = {} /\ job[Closer(s)].op = "none" /\ Alive(st[s])
  BY <1>1, <1>2 DEF SessionOK, Phases, Alive
<1>4. \A fd \in KernelFds : fd \in Int
  BY NodeAssumption, SMTT(30)
<1>5. (handle[s] # -1 => Mine(g_handles, up, handle[s], s)) /\ \A fd \in fds[s] : Own(fdtab, fd, s)
  BY <1>1, <1>2, <1>3 DEF SessionOK, Handles, Files
<1> QED
  BY <1>2, <1>4, <1>5 DEF SessionTypes

\* The operations on disks, paths and files keep the invariant.
LEMMA Operations ==
  ASSUME NodeInv, NEW s \in Sessions, diskOp(s) \/ pathOp(s) \/ openFd(s) \/ readFd(s) \/ closeFd(s)
  PROVE  NodeInv'
<1>1. Ready(s)
  BY DEF diskOp, pathOp, openFd, readFd, closeFd
<1>2. /\ (handle[s] # -1 => Mine(g_handles, up, handle[s], s)) /\ handle[s] \in Int
      /\ \A fd \in fds[s] : Own(fdtab, fd, s) /\ fd \in Int
  BY <1>1, ReadyOwns
<1>3. {"enter", "text", "open", "read", "closefd"} \subseteq AppOps /\ -1 \in Int
  BY SMTT(30) DEF AppOps, Ops
<1>4. fds \in [Sessions -> SUBSET KernelFds]
  BY DEF NodeInv, SessionTypes
<1>5. fds = [fds EXCEPT ![s] = fds[s]]
  BY <1>4
<1>6. CASE diskOp(s)
  <2>1. PICK op \in {"enter", "text"} : Call(App(s), op, handle[s], 1)
    BY <1>6 DEF diskOp
  <2>2. waits' = waits \cup {App(s)} /\ UNCHANGED <<up, g_handles, fdtab, doneq, st, handle, fds, visited>>
    BY <1>6 DEF diskOp, engine, session
  <2>3. op \in AppOps /\ op \notin {"none", "attach", "read", "closefd"}
    BY <1>3
  <2> QED
    BY <1>1, <1>2, <1>5, <2>1, <2>2, <2>3, OpStep
<1>7. CASE pathOp(s)
  BY <1>1, <1>3, <1>5, <1>7, OpStep DEF pathOp, engine, session
<1>8. CASE openFd(s)
  BY <1>1, <1>3, <1>5, <1>8, OpStep DEF openFd, engine, session
<1>9. CASE readFd(s)
  BY <1>1, <1>2, <1>3, <1>5, <1>9, OpStep DEF readFd, engine, session
<1>10. CASE closeFd(s)
  <2>1. PICK fd \in fds[s] : Call(App(s), "closefd", fd, 1) /\ fds' = [fds EXCEPT ![s] = fds[s] \ {fd}]
    BY <1>10 DEF closeFd
  <2>2. waits' = waits \cup {App(s)} /\ UNCHANGED <<up, g_handles, fdtab, doneq, st, handle, visited>>
    BY <1>10 DEF closeFd, engine
  <2>3. fds'[s] = fds[s] \ {fd}
    BY <1>4, <2>1
  <2>4. fds' = [fds EXCEPT ![s] = fds'[s]] /\ fds'[s] \in SUBSET fds[s] /\ fd \notin fds'[s]
    BY <2>1, <2>3
  <2> QED
    BY <1>1, <1>2, <1>3, <2>1, <2>2, <2>4, OpStep
<1> QED
  BY <1>6, <1>7, <1>8, <1>9, <1>10

\* attachPath keeps the invariant.
LEMMA AttachStep == ASSUME NodeInv, NEW s \in Sessions, attachPath(s) PROVE NodeInv'
<1>1. /\ job[App(s)] = NoJob /\ job[Closer(s)] = NoJob /\ boot = "ok"
      /\ st' = [st EXCEPT ![s] = "open"] /\ handle' = [handle EXCEPT ![s] = -1]
      /\ fds' = [fds EXCEPT ![s] = {}] /\ visited' = [visited EXCEPT ![s] = {}]
      /\ UNCHANGED <<up, g_handles, fdtab, doneq>>
      /\ \/ Call(App(s), "attach", -1, 1) /\ waits' = waits \cup {App(s)}
         \/ UNCHANGED <<job, queue, held, waits>>
  BY DEF attachPath, engine
<1>2. /\ JobTypes(job) /\ SessionTypes /\ Requests(queue, doneq, job, held)
      /\ Unasked(queue, doneq, App(s))
      /\ \A t \in Sessions : t # s => Closer(t) # App(s)
  BY <1>1, Given, NoJobIs
<1>3. NoRun /\ -1 \in Int /\ 1 \in Nat /\ 1 >= 1
  <2>1. -1 \in Int /\ 1 \in Nat /\ 1 >= 1
    BY SMTT(30)
  <2> QED
    BY <1>1, <2>1 DEF NoRun
<1>4. /\ SessionTypes' /\ st'[s] = "open" /\ handle'[s] = -1 /\ fds'[s] = {} /\ visited'[s] = {}
      /\ \A t \in Sessions \ {s} : SessSame(t)
  BY <1>1, <1>2, <1>3 DEF SessionTypes, SessSame
<1>5. Aside(s)
  BY <1>1, <1>2, <1>4 DEF Aside
<1>6. job[Main].op # "init"
  BY <1>1, InUse
<1>7. CASE Call(App(s), "attach", -1, 1)
  <2>1. "attach" \in AppOps
    BY DEF AppOps, Ops
  <2>2. CallEffect(App(s), "attach", -1, 1, doneq')
    BY <1>1, <1>2, <1>3, <1>7, <2>1, AppAsks
  <2>3. SessionOK(s)'
    BY <1>1, <1>2, <1>4, <2>2, AttachCall, NoJobIs
  <2>4. Moved(s)
    BY <1>3, <2>2, CallMoves
  <2> QED
    BY <1>3, <1>4, <1>5, <1>6, <2>3, <2>4, StepOf
<1>8. CASE UNCHANGED <<job, queue, held>>
  <2>1. Moved(s)
    BY <1>1, <1>2, <1>8 DEF Moved, Fewer, JobsLess
  <2>2. SessionOK(s)'
    BY <1>1, <1>4, <1>8, Fresh, NoJobIs
  <2> QED
    BY <1>3, <1>4, <1>5, <1>6, <2>1, <2>2, StepOf
<1> QED
  BY <1>1, <1>7, <1>8

\* close() from where it stands, called or resumed.
LEMMA GoOn ==
  ASSUME NodeInv, NEW s \in Sessions, GoOnClosing(s), Alive(st[s]), job[Closer(s)].op # "sessclose", NoRun,
         Requests(queue, doneq', job, held), Unasked(queue, doneq', Closer(s))
  PROVE  NodeInv'
<1> DEFINE left == fds[s] \ visited[s]
           p == Closer(s)
<1>1. /\ JobTypes(job) /\ SessionTypes /\ SessionOK(s) /\ p \in Chains /\ App(s) \in Chains /\ App(s) # p
      /\ \A t \in Sessions : t # s => Closer(t) # p
  BY Given
<1>2. job[Main].op # "init"
  BY InUse
<1>3. ASSUME NEW op \in {"closefd", "sessclose"}, NEW arg \in Int, Call(p, op, arg, 1), waits' = waits \cup {p},
             SessionTypes', st' = [st EXCEPT ![s] = "closing"], UNCHANGED <<handle, fds>>,
             \A t \in Sessions \ {s} : visited'[t] = visited[t],
             \/ op = "closefd" /\ arg \in left /\ visited'[s] = visited[s] \cup {arg}
             \/ op = "sessclose" /\ handle[s] # -1 /\ arg = handle[s] /\ visited'[s] = visited[s]
      PROVE  NodeInv'
  <2>1. CallEffect(p, op, arg, 1, doneq')
    BY <1>1, <1>3, CloserAsks
  <2>2. st'[s] = "closing" /\ \A t \in Sessions \ {s} : st'[t] = st[t]
    BY <1>1, <1>3 DEF SessionTypes
  <2>3. SessionOK(s)'
    BY <1>1, <1>3, <2>1, <2>2, CloserCall
  <2>4. Aside(s)
    BY <1>3, <2>2 DEF Aside, SessSame
  <2>5. Moved(s)
    BY <2>1, CallMoves
  <2> QED
    BY <1>2, <1>3, <2>3, <2>4, <2>5, StepOf
<1>4. CASE /\ left # {} /\ Call(p, "closefd", Min(left), 1) /\ waits' = waits \cup {p}
           /\ visited' = [visited EXCEPT ![s] = visited[s] \cup {Min(left)}]
           /\ st' = [st EXCEPT ![s] = "closing"] /\ UNCHANGED <<handle, fds>>
  <2>1. left \in SUBSET Nat
    BY <1>1, NodeAssumption DEF SessionTypes
  <2>2. Min(left) \in left
    BY <1>4, <2>1, MinIn
  <2>3. \A x \in Nat : x \in Int
    BY SMTT(30)
  <2>4. Min(left) \in Int /\ Min(left) \in KernelFds
    BY <1>1, <2>1, <2>2, <2>3 DEF SessionTypes
  <2>5. visited'[s] = visited[s] \cup {Min(left)} /\ \A t \in Sessions \ {s} : visited'[t] = visited[t]
    BY <1>1, <1>4 DEF SessionTypes
  <2>6. SessionTypes'
    BY <1>1, <1>4, <2>4 DEF SessionTypes
  <2> QED
    BY <1>3, <1>4, <2>2, <2>4, <2>5, <2>6
<1>5. CASE /\ left = {} /\ handle[s] # -1 /\ Call(p, "sessclose", handle[s], 1) /\ waits' = waits \cup {p}
           /\ st' = [st EXCEPT ![s] = "closing"] /\ UNCHANGED <<handle, fds, visited>>
  <2>1. handle[s] \in Int
    BY <1>1 DEF SessionTypes
  <2>2. SessionTypes'
    BY <1>1, <1>5 DEF SessionTypes
  <2> QED
    BY <1>3, <1>5, <2>1, <2>2
<1>6. CASE Return(p) /\ waits' = waits \ {p} /\ Closed({s})
  <2>1. ReturnEffect(p, doneq')
    BY <1>1, <1>6, Returned
  <2>2. SessionTypes' /\ SessClosed(s) /\ \A t \in Sessions \ {s} : SessSame(t)
    BY <1>1, <1>6, ClosedSessions
  <2>3. SessionOK(s)'
    <3>1. Fewer(s)
      BY <1>1, <2>1 DEF ReturnEffect, Fewer, NoRun
    <3>2. JobsLess(s)
      BY <1>1, <2>1, <2>2 DEF ReturnEffect, JobsLess, SessClosed, Alive
    <3>3. Kept(s)
      BY DEF Kept, NoRun
    <3> QED
      BY <1>1, <2>2, <3>1, <3>2, <3>3, Quiet DEF SessClosed
  <2>4. Aside(s)
    BY <1>1, <1>6, <2>2 DEF Aside
  <2>5. Moved(s)
    BY <2>1, ReturnMoves
  <2> QED
    BY <1>2, <2>2, <2>3, <2>4, <2>5, StepOf
<1> QED
  BY <1>4, <1>5, <1>6 DEF GoOnClosing

\* close keeps the invariant.
LEMMA CloseStep == ASSUME NodeInv, NEW s \in Sessions, close(s) PROVE NodeInv'
<1>1. /\ st[s] = "open" /\ job[Closer(s)] = NoJob /\ UNCHANGED <<up, g_handles, fdtab, doneq>>
      /\ GoOnClosing(s) \/ (Closed({s}) /\ UNCHANGED <<job, queue, held, waits>>)
  BY DEF close, engine
<1>2. /\ JobTypes(job) /\ SessionTypes /\ Requests(queue, doneq, job, held) /\ SessionOK(s)
      /\ Unasked(queue, doneq, Closer(s)) /\ job[Closer(s)].op = "none"
  BY <1>1, Given, NoJobIs
<1>3. NoRun /\ Alive(st[s])
  BY <1>1 DEF NoRun, Alive
<1>4. CASE GoOnClosing(s)
  BY <1>1, <1>2, <1>3, <1>4, GoOn
<1>5. CASE Closed({s}) /\ UNCHANGED <<job, queue, held, waits>>
  <2>1. SessionTypes' /\ SessClosed(s) /\ \A t \in Sessions \ {s} : SessSame(t)
    BY <1>2, <1>5, ClosedSessions
  <2>2. Fewer(s) /\ JobsLess(s) /\ Kept(s)
    BY <1>1, <1>5 DEF Fewer, JobsLess, Kept
  <2>3. SessionOK(s)'
    BY <1>2, <2>1, <2>2, Quiet DEF SessClosed
  <2>4. Moved(s)
    BY <1>1, <1>2, <1>5 DEF Moved, Fewer, JobsLess
  <2>5. Aside(s)
    BY <1>5, <2>1 DEF Aside
  <2>6. job[Main].op # "init"
    BY <1>3, InUse
  <2> QED
    BY <1>3, <2>1, <2>3, <2>4, <2>5, <2>6, StepOf
<1> QED
  BY <1>1, <1>4, <1>5

\* A call that timed out keeps the invariant.
LEMMA TimeoutStep == ASSUME NodeInv, NEW s \in Sessions, Timeout(s) PROVE NodeInv'
<1> DEFINE dead == {p \in waits : p[1] = s /\ job[p].op \in Guarded}
<1>1. /\ waits' = waits \ dead /\ Closed(IF Closer(s) \in dead THEN {s} ELSE {})
      /\ UNCHANGED <<boot, up, g_handles, fdtab, queue, doneq, job, held>>
  BY DEF Timeout, process, engine
<1>2. /\ JobTypes(job) /\ EngineTypes /\ SessionTypes /\ Requests(queue, doneq, job, held) /\ Booting
      /\ \A t \in Sessions : SessionOK(t)
  BY DEF NodeInv
<1>3. /\ SessionTypes'
      /\ \A t \in Sessions : SessSame(t) \/ (SessClosed(t) /\ t = s)
      /\ Closer(s) \in dead => SessClosed(s)
  <2> DEFINE C == IF Closer(s) \in dead THEN {s} ELSE {}
  <2>1. (\A t \in C : t = s) /\ (Closer(s) \in dead => s \in C)
    OBVIOUS
  <2>2. Closed(C)
    BY <1>1
  <2> HIDE DEF C
  <2>3. SessionTypes' /\ \A t \in Sessions : (t \in C => SessClosed(t)) /\ (t \notin C => SessSame(t))
    BY <1>2, <2>2, ClosedSessions
  <2> QED
    BY <2>1, <2>3
<1>4. \A t \in Sessions : t # s => Closer(t) \notin dead
  BY Apart
<1> HIDE DEF dead
<1>5. ASSUME NEW t \in Sessions PROVE SessionOK(t)'
  <2>1. Fewer(t) /\ JobsLess(t) /\ Kept(t)
    BY <1>1 DEF Fewer, JobsLess, Kept
  <2>2. st'[t] = "closing" => SessSame(t) /\ Closer(t) \notin dead
    BY <1>3, <1>4 DEF SessClosed
  <2>3. st'[t] = "closing" => Closer(t) \in waits'
    BY <1>1, <1>2, <2>2 DEF SessSame, SessionOK, Phases
  <2> QED
    BY <1>2, <1>3, <2>1, <2>3, Quiet
<1>6. Booting'
  BY <1>1, <1>2, <1>3 DEF Booting, SessSame, SessClosed
<1> QED
  BY <1>1, <1>2, <1>3, <1>5, <1>6 DEF NodeInv, EngineTypes

\* Nothing is queued, and nothing on its way.
LEMMA NothingAsked ==
  ASSUME NEW j, NEW h
  PROVE  Requests(<<>>, <<>>, j, h) /\ (\A x : ~In(<<>>, x)) /\ (\A a, b : ~Before(<<>>, a, b))
         /\ \A x, r : ~Ans(<<>>, x, r)
<1>1. <<>> \in Seq(Chains) /\ <<>> \in Seq(Chains \X Int) /\ \A i : i \notin 1 .. Len(<<>>)
  BY SMTT(30)
<1> QED
  BY <1>1 DEF Requests, Once, OnceEach, In, Before, Ans

\* No chain of calls is under way.
LEMMA NoJobs ==
  ASSUME NEW j, j = [p \in Chains |-> NoJob]
  PROVE  JobTypes(j) /\ \A p \in Chains : j[p] = NoJob /\ j[p].op = "none"
<1>1. NoJob \in Jobs /\ NoJob.op = "none"
  BY NoJobIs
<1>2. \A p \in Chains : JobOK(p, NoJob)
  BY <1>1 DEF JobOK, MainOps, AppOps, CloserOps, Ops
<1> QED
  BY <1>1, <1>2 DEF JobTypes

\* An abort of the module keeps the invariant.
LEMMA AbortStep == ASSUME NodeInv, Abort PROVE NodeInv'
<1>1. /\ queue' = <<>> /\ doneq' = <<>> /\ job' = [p \in Chains |-> NoJob]
      /\ Closed({s \in Sessions : st[s] = "closing"}) /\ UNCHANGED <<up, g_handles, fdtab>>
  BY DEF Abort, engine
<1>2. /\ JobTypes(job) /\ EngineTypes /\ SessionTypes /\ \A t \in Sessions : SessionOK(t)
  BY DEF NodeInv
<1>3. JobTypes(job') /\ \A p \in Chains : job'[p] = NoJob /\ job'[p].op = "none"
  BY <1>1, NoJobs
<1>4. /\ SessionTypes'
      /\ \A t \in Sessions : IF st[t] = "closing" THEN SessClosed(t) ELSE SessSame(t)
  <2> DEFINE C == {s \in Sessions : st[s] = "closing"}
  <2>1. \A t \in Sessions : t \in C <=> st[t] = "closing"
    OBVIOUS
  <2>2. Closed(C)
    BY <1>1
  <2> HIDE DEF C
  <2>3. SessionTypes' /\ \A t \in Sessions : (t \in C => SessClosed(t)) /\ (t \notin C => SessSame(t))
    BY <1>2, <2>2, ClosedSessions
  <2> QED
    BY <2>1, <2>3
<1>5. ASSUME NEW t \in Sessions PROVE SessionOK(t)'
  <2>1. Fewer(t)
    BY <1>1, NothingAsked DEF Fewer
  <2>2. App(t) \in Chains /\ Closer(t) \in Chains
    BY Apart
  <2>3. Alive(st'[t]) => st[t] = "open"
    BY <1>4 DEF Alive, SessClosed, SessSame
  <2>4. st[t] = "open" => job[Closer(t)] = NoJob
    BY <1>2, <2>2 DEF SessionOK, Phases, JobTypes, JobOK
  <2>5. JobsLess(t)
    BY <1>3, <2>2, <2>3, <2>4 DEF JobsLess
  <2>6. Kept(t)
    BY <1>1 DEF Kept
  <2>7. (SessSame(t) \/ SessClosed(t)) /\ st'[t] # "closing"
    BY <1>4 DEF SessSame, SessClosed
  <2> QED
    BY <1>2, <2>1, <2>5, <2>6, <2>7, Quiet
<1>6. Requests(queue', doneq', job', held')
  BY <1>1, NothingAsked
<1>7. Booting'
  BY <1>3, Apart DEF Booting
<1>8. EngineTypes'
  BY <1>1, <1>2 DEF EngineTypes
<1> QED
  BY <1>3, <1>4, <1>5, <1>6, <1>7, <1>8 DEF NodeInv

\* A completion resumes the application's chain of calls.
LEMMA AppDone ==
  ASSUME NodeInv, NEW s \in Sessions, NEW r \in Int, NoRun, job[App(s)].op # "none",
         Requests(queue, doneq', job, held), Unasked(queue, doneq', App(s)), Ans(doneq, App(s), r),
         AttachDone(s, r) \/ EnterDone(s, r) \/ TextDone(s, r) \/ OpenDone(s, r) \/ PlainDone(s)
  PROVE  NodeInv'
<1> DEFINE p == App(s)
<1>1. /\ JobTypes(job) /\ SessionTypes /\ SessionOK(s) /\ p \in Chains /\ Closer(s) # p
      /\ \A t \in Sessions : t # s => Closer(t) # p
  BY Given
<1>2. job[Main].op # "init"
  BY InUse
<1>3. ASSUME Return(p), waits' = waits \ {p}, SessionTypes', UNCHANGED <<st, visited>>,
             \A t \in Sessions \ {s} : handle'[t] = handle[t] /\ fds'[t] = fds[t],
             handle'[s] = handle[s] \/ Mine(g_handles, up, handle'[s], s),
             \A x : x \in fds'[s] => x \in fds[s] \/ Own(fdtab, x, s)
      PROVE  NodeInv'
  <2>1. ReturnEffect(p, doneq')
    BY <1>1, <1>3, Returned
  <2>2. SessionOK(s)'
    BY <1>1, <1>3, <2>1, AppReturn
  <2>3. Aside(s)
    BY <1>1, <1>3 DEF Aside, SessSame
  <2>4. Moved(s)
    BY <2>1, ReturnMoves
  <2> QED
    BY <1>2, <1>3, <2>2, <2>3, <2>4, StepOf
<1>4. ASSUME NEW op \in AppOps, op \notin {"none", "attach", "enter", "read", "closefd"}, NEW arg \in Int,
             NEW n \in Nat, n >= 1, op # "text" \/ n # 1,
             Call(p, op, arg, n), UNCHANGED <<waits, st, handle, fds, visited>>
      PROVE  NodeInv'
  <2>1. CallEffect(p, op, arg, n, doneq')
    BY <1>1, <1>4, AppAsks
  <2>2. SessionOK(s)'
    BY <1>1, <1>4, <2>1, AppCall
  <2>3. Aside(s) /\ SessionTypes'
    BY <1>1, <1>4 DEF Aside, SessSame, SessionTypes
  <2>4. Moved(s)
    BY <2>1, CallMoves
  <2> QED
    BY <1>2, <2>2, <2>3, <2>4, StepOf
<1>5. -1 \in Int /\ 1 \in Nat /\ 1 >= 1
  BY SMTT(30)
<1>6. ASSUME Return(p), waits' = waits \ {p}, UNCHANGED <<st, handle, fds, visited>> PROVE NodeInv'
  <2>1. SessionTypes'
    BY <1>1, <1>6 DEF SessionTypes
  <2> QED
    BY <1>3, <1>6, <2>1
<1>7. CASE AttachDone(s, r)
  <2>1. job[p].op = "attach" /\ UNCHANGED <<st, fds, visited>>
    BY <1>7 DEF AttachDone
  <2>2. CASE r >= 0 /\ handle' = [handle EXCEPT ![s] = r] /\ Return(p) /\ waits' = waits \ {p}
    <3>1. handle'[s] = r /\ (\A t \in Sessions \ {s} : handle'[t] = handle[t]) /\ SessionTypes'
      BY <1>1, <2>1, <2>2 DEF SessionTypes
    <3>2. Mine(g_handles, up, r, s)
      BY <1>1, <2>1, <2>2 DEF SessionOK, Handles
    <3> QED
      BY <1>3, <2>1, <2>2, <3>1, <3>2
  <2>3. CASE Call(p, "attachwhy", -1, 1) /\ UNCHANGED <<handle, waits>>
    <3>1. "attachwhy" \in AppOps
      BY DEF AppOps, Ops
    <3> QED
      BY <1>4, <1>5, <2>1, <2>3, <3>1
  <2> QED
    BY <1>7, <2>2, <2>3 DEF AttachDone
<1>8. CASE EnterDone(s, r)
  <2>1. CASE Call(p, "enterwhy", -1, 1) /\ UNCHANGED <<waits, st, handle, fds, visited>>
    <3>1. "enterwhy" \in AppOps
      BY DEF AppOps, Ops
    <3> QED
      BY <1>4, <1>5, <2>1, <3>1
  <2> QED
    BY <1>6, <1>8, <2>1 DEF EnterDone
<1>9. CASE TextDone(s, r)
  <2>1. CASE /\ job[p].op = "text" /\ Call(p, job[p].op, job[p].arg, job[p].tries + 1)
             /\ UNCHANGED <<waits, st, handle, fds, visited>>
    <3>1. job[p] \in Jobs /\ job[p].tries >= 1
      BY <1>1 DEF JobTypes, JobOK
    <3>2. job[p].arg \in Int /\ job[p].tries \in Nat
      BY <3>1 DEF Jobs
    <3>3. job[p].tries + 1 \in Nat /\ job[p].tries + 1 >= 1 /\ job[p].tries + 1 # 1
      BY <3>1, <3>2, SMTT(30)
    <3>4. job[p].op \in AppOps /\ job[p].op \notin {"none", "attach", "enter", "read", "closefd"}
      BY <2>1 DEF AppOps, Ops
    <3> HIDE DEF p
    <3> QED
      BY <1>4, <2>1, <3>2, <3>3, <3>4
  <2> QED
    BY <1>6, <1>9, <2>1 DEF TextDone
<1>10. CASE OpenDone(s, r)
  <2>1. /\ job[p].op = "open" /\ Return(p) /\ waits' = waits \ {p} /\ UNCHANGED <<st, handle, visited>>
        /\ fds' = IF p \in waits /\ r >= 0 THEN [fds EXCEPT ![s] = fds[s] \cup {r}] ELSE fds
    BY <1>10 DEF OpenDone
  <2>2. CASE r >= 0 /\ fds' = [fds EXCEPT ![s] = fds[s] \cup {r}]
    <3>1. Own(fdtab, r, s)
      BY <1>1, <2>1, <2>2 DEF SessionOK, Files
    <3>2. r \in KernelFds
      BY <3>1 DEF Own
    <3>3. fds'[s] = fds[s] \cup {r} /\ (\A t \in Sessions \ {s} : fds'[t] = fds[t]) /\ SessionTypes'
      BY <1>1, <2>1, <2>2, <3>2 DEF SessionTypes
    <3> QED
      BY <1>3, <2>1, <3>1, <3>3
  <2>3. CASE fds' = fds
    BY <1>6, <2>1, <2>3
  <2> QED
    BY <2>1, <2>2, <2>3
<1>11. CASE PlainDone(s)
  BY <1>6, <1>11 DEF PlainDone
<1> QED
  BY <1>7, <1>8, <1>9, <1>10, <1>11

\* A completion resumes close().
LEMMA CloserDone ==
  ASSUME NodeInv, NEW s \in Sessions, NoRun, job[Closer(s)].op # "none",
         Requests(queue, doneq', job, held), Unasked(queue, doneq', Closer(s)), CloseDone(s),
         Closer(s) \in waits => st[s] = "closing"
  PROVE  NodeInv'
<1> DEFINE p == Closer(s)
<1>1. /\ JobTypes(job) /\ SessionTypes /\ SessionOK(s) /\ p \in Chains /\ App(s) \in Chains /\ App(s) # p
      /\ \A t \in Sessions : t # s => Closer(t) # p
  BY Given
<1>2. job[Main].op # "init"
  BY InUse
<1>3. ASSUME Return(p), SessionTypes', SessSame(s) \/ SessClosed(s), ~Alive(st'[s]),
             \A t \in Sessions \ {s} : SessSame(t), waits' = waits \ {p} \/ waits' = waits
      PROVE  NodeInv'
  <2>1. ReturnEffect(p, doneq')
    BY <1>1, <1>3, Returned
  <2>2. Fewer(s) /\ JobsLess(s) /\ Kept(s)
    BY <1>1, <1>3, <2>1 DEF ReturnEffect, Fewer, JobsLess, Kept, NoRun
  <2>3. st'[s] # "closing"
    BY <1>3 DEF Alive
  <2>4. SessionOK(s)'
    BY <1>1, <1>3, <2>2, <2>3, Quiet
  <2>5. Aside(s)
    BY <1>1, <1>3 DEF Aside
  <2>6. Moved(s)
    BY <2>1, ReturnMoves
  <2> QED
    BY <1>2, <1>3, <2>4, <2>5, <2>6, StepOf
<1>4. st[s] # "open"
  BY <1>1 DEF SessionOK, Phases
<1>5. CASE p \in waits /\ job[p].op = "closefd" /\ GoOnClosing(s)
  <2>1. Alive(st[s])
    BY <1>5 DEF Alive
  <2> QED
    BY <1>5, <2>1, GoOn
<1>6. CASE Return(p) /\ waits' = waits \ {p} /\ Closed({s})
  <2>1. SessionTypes' /\ SessClosed(s) /\ \A t \in Sessions \ {s} : SessSame(t)
    BY <1>1, <1>6, ClosedSessions
  <2>2. ~Alive(st'[s])
    BY <2>1 DEF SessClosed, Alive
  <2> QED
    BY <1>3, <1>6, <2>1, <2>2
<1>7. CASE p \notin waits /\ Return(p) /\ UNCHANGED <<waits, st, handle, fds, visited>>
  <2>1. ~Alive(st[s])
    BY <1>1, <1>4, <1>7 DEF SessionOK, Phases, Alive
  <2>2. SessionTypes' /\ \A t \in Sessions : SessSame(t)
    BY <1>1, <1>7 DEF SessionTypes, SessSame
  <2> QED
    BY <1>3, <1>7, <2>1, <2>2
<1> QED
  BY <1>5, <1>6, <1>7 DEF CloseDone

\* anyfsApiDone: the completion is taken off and its chain resumed.
LEMMA DoneStep ==
  ASSUME NodeInv, NEW s \in Sessions, anyfsApiDone(s), Closer(s) \in waits => st[s] = "closing"
  PROVE  NodeInv'
<1> DEFINE p == Head(doneq)[1]
           r == Head(doneq)[2]
<1>1. doneq # <<>> /\ doneq' = Tail(doneq) /\ UNCHANGED <<up, g_handles, fdtab>>
  BY DEF anyfsApiDone, engine
<1>2. Requests(queue, doneq, job, held)
  BY DEF NodeInv
<1>3. /\ Requests(queue, doneq', job, held) /\ r \in Int /\ Unasked(queue, doneq', p) /\ Ans(doneq, p, r)
      /\ job[p].op # "none" /\ \A x \in Chains, v \in Int : Ans(doneq', x, v) => Ans(doneq, x, v)
  BY <1>1, <1>2, Popped
<1>4. NoRun
  BY <1>1, <1>3 DEF NoRun
<1> HIDE DEF p, r
<1>5. CASE p = App(s) /\ (AttachDone(s, r) \/ EnterDone(s, r) \/ TextDone(s, r) \/ OpenDone(s, r) \/ PlainDone(s))
  BY <1>3, <1>4, <1>5, AppDone
<1>6. CASE p = Closer(s) /\ CloseDone(s)
  BY <1>3, <1>4, <1>6, CloserDone
<1> QED
  BY <1>5, <1>6 DEF anyfsApiDone, p, r

-----------------------------------------------------------------------------
(* The steps of the process. *)

\* A step in which no session moves.
LEMMA Still ==
  ASSUME NodeInv, NoRun, UNCHANGED <<st, handle, fds, visited>>, Requests(queue', doneq', job', held'),
         JobTypes(job'), \A t \in Sessions : Fewer(t) /\ JobsLess(t), Booting',
         \A t \in Sessions : Closer(t) \in waits => Closer(t) \in waits'
  PROVE  NodeInv'
<1>1. EngineTypes' /\ SessionTypes'
  BY DEF NodeInv, NoRun, EngineTypes, SessionTypes
<1>2. ASSUME NEW t \in Sessions PROVE SessionOK(t)'
  <2>1. SessionOK(t) /\ SessSame(t) /\ Kept(t)
    BY DEF NodeInv, SessSame, Kept, NoRun
  <2>2. st'[t] = "closing" => Closer(t) \in waits'
    BY <2>1 DEF SessSame, SessionOK, Phases
  <2> QED
    BY <2>1, <2>2, Quiet
<1> QED
  BY <1>1, <1>2 DEF NodeInv

\* The completion of KERNEL_INIT or KERNEL_HALT.
LEMMA MainStep == ASSUME NodeInv, MainDone PROVE NodeInv'
<1>1. /\ doneq # <<>> /\ Head(doneq)[1] = Main /\ doneq' = Tail(doneq) /\ Return(Main) /\ waits' = waits \ {Main}
      /\ UNCHANGED <<up, g_handles, fdtab, st, handle, fds, visited>>
  BY DEF MainDone, engine, session
<1>2. Requests(queue, doneq, job, held) /\ JobTypes(job)
  BY DEF NodeInv
<1>3. /\ Requests(queue, doneq', job, held) /\ Unasked(queue, doneq', Main)
      /\ \A x \in Chains, v \in Int : Ans(doneq', x, v) => Ans(doneq, x, v)
  BY <1>1, <1>2, Popped
<1>4. ReturnEffect(Main, doneq')
  BY <1>1, <1>2, <1>3, Apart, Returned
<1>5. NoRun
  BY <1>1, <1>3 DEF NoRun
<1>6. /\ Requests(queue', doneq', job', held') /\ JobTypes(job') /\ queue' = queue /\ job'[Main] = NoJob
      /\ \A x \in Chains \ {Main} : job'[x] = job[x]
  BY <1>4 DEF ReturnEffect
<1>7. ASSUME NEW t \in Sessions
      PROVE  Fewer(t) /\ JobsLess(t) /\ (Closer(t) \in waits => Closer(t) \in waits')
  <2>1. App(t) \in Chains \ {Main} /\ Closer(t) \in Chains \ {Main}
    BY Apart
  <2> QED
    BY <1>1, <1>5, <1>6, <2>1 DEF Fewer, JobsLess, NoRun
<1>8. Booting'
  BY <1>6, NoJobIs DEF Booting
<1> QED
  BY <1>1, <1>5, <1>6, <1>7, <1>8, Still

\* The kernel is asked to stop, or a dead module forgotten.
LEMMA HaltStep ==
  ASSUME NodeInv, HaltSettled, UNCHANGED <<up, g_handles, fdtab, doneq, st, handle, fds, visited>>
  PROVE  NodeInv'
<1>1. job[Main] = NoJob /\ UNCHANGED <<up, g_handles, fdtab, doneq, st, handle, fds, visited>>
  BY DEF HaltSettled
<1>2. Requests(queue, doneq, job, held) /\ JobTypes(job) /\ job[Main].op = "none"
  BY <1>1, NoJobIs DEF NodeInv
<1>3. NoRun
  BY <1>1 DEF NoRun
<1>4. CASE Call(Main, "halt", -1, 1) /\ waits' = waits \cup {Main}
  <2>1. Unasked(queue, doneq, Main)
    BY <1>2, Apart, IdleChain
  <2>2. "halt" \in Ops /\ "halt" # "none" /\ -1 \in Int /\ 1 \in Nat /\ 1 >= 1
    BY SMTT(30) DEF Ops
  <2>3. JobOK(Main, [op |-> "halt", arg |-> -1, tries |-> 1])
    BY <2>2, JobIs, Apart DEF JobOK, MainOps
  <2>4. CallEffect(Main, "halt", -1, 1, doneq)
    BY <1>2, <1>4, <2>1, <2>2, <2>3, Apart, CallMade
  <2>5. /\ Requests(queue', doneq', job', held') /\ JobTypes(job') /\ job'[Main].op = "halt"
        /\ \A x \in Chains \ {Main} : job'[x] = job[x]
        /\ \A x : In(queue', x) => In(queue, x) \/ x = Main
        /\ \A a, b : Before(queue', a, b) => Before(queue, a, b) \/ b = Main
    BY <1>1, <2>4 DEF CallEffect
  <2>6. ASSUME NEW t \in Sessions PROVE Fewer(t) /\ JobsLess(t)
    <3>1. App(t) \in Chains \ {Main} /\ Closer(t) \in Chains \ {Main}
      BY Apart
    <3> QED
      BY <1>3, <2>5, <3>1 DEF Fewer, JobsLess, NoRun
  <2>7. Booting'
    BY <2>5 DEF Booting
  <2> QED
    BY <1>1, <1>3, <1>4, <2>5, <2>6, <2>7, Still
<1>5. CASE UNCHANGED <<job, queue, held, waits>>
  <2>1. \A t \in Sessions : Fewer(t) /\ JobsLess(t)
    BY <1>1, <1>5 DEF Fewer, JobsLess
  <2>2. Booting'
    BY <1>2, <1>5 DEF Booting
  <2> QED
    BY <1>1, <1>2, <1>3, <1>5, <2>1, <2>2, Still
<1> QED
  BY <1>4, <1>5 DEF HaltSettled

\* haltKernel, called or resumed, keeps the invariant.
LEMMA haltKernelStep == ASSUME NodeInv, haltKernel \/ HaltGoesOn PROVE NodeInv'
<1>1. UNCHANGED <<up, g_handles, fdtab, doneq, st, handle, fds, visited>>
  BY DEF haltKernel, HaltGoesOn, engine, session
<1>2. CASE HaltSettled
  BY <1>1, <1>2, HaltStep
<1>3. CASE UNCHANGED <<boot, queue, job, held, waits>>
  <2>1. NoRun /\ \A t \in Sessions : Fewer(t) /\ JobsLess(t)
    BY <1>1, <1>3 DEF NoRun, Fewer, JobsLess
  <2>2. Requests(queue', doneq', job', held') /\ JobTypes(job') /\ Booting'
    BY <1>1, <1>3 DEF NodeInv, Booting
  <2> QED
    BY <1>1, <1>3, <2>1, <2>2, Still
<1> QED
  BY <1>2, <1>3 DEF haltKernel, HaltGoesOn

\* A kernel is booted when nothing is left of the one before.
LEMMA BootStep == ASSUME NodeInv, Boot PROVE NodeInv'
<1>1. /\ \A s \in Sessions : st[s] \in {"none", "closed"}
      /\ \A p \in Chains : job[p] = NoJob
      /\ g_handles' = [h \in DOMAIN g_handles |-> Nobody] /\ fdtab' = [fd \in KernelFds |-> Nobody]
      /\ doneq' = <<>> /\ UNCHANGED <<st, handle, fds, visited>>
  BY DEF Boot, session
<1>2. JobTypes(job) /\ EngineTypes /\ SessionTypes
  BY DEF NodeInv
<1>3. EngineTypes' /\ SessionTypes'
  BY <1>1, <1>2 DEF EngineTypes, SessionTypes
<1>4. ASSUME \A x \in Chains \ {Main} : job'[x] = job[x] PROVE \A s \in Sessions : SessionOK(s)'
  <2>1. ASSUME NEW s \in Sessions PROVE SessionOK(s)'
    <3>1. st'[s] \in {"none", "closed"} /\ job'[App(s)].op = "none" /\ job'[Closer(s)].op = "none"
      BY <1>1, <1>4, Apart, NoJobIs
    <3> QED
      BY <3>1, Absent
  <2> QED
    BY <2>1
<1>5. CASE /\ boot' = "booting" /\ job' = [job EXCEPT ![Main] = [op |-> "init", arg |-> -1, tries |-> 1]]
           /\ queue' = <<Main>> /\ held' = {Main}
  <2> DEFINE i == [op |-> "init", arg |-> -1, tries |-> 1]
  <2>1. "init" \in Ops /\ -1 \in Int /\ 1 \in Nat /\ 1 >= 1
    BY SMTT(30) DEF Ops
  <2>2. i \in Jobs /\ i.op = "init" /\ i.tries = 1
    BY <2>1, JobIs
  <2> HIDE DEF i
  <2>3. JobOK(Main, i)
    BY <2>1, <2>2, Apart DEF JobOK, MainOps
  <2>4. JobTypes(job') /\ job'[Main] = i /\ \A x \in Chains \ {Main} : job'[x] = job[x]
    BY <1>2, <1>5, <2>2, <2>3, Apart DEF JobTypes, i
  <2>5. \A s \in Sessions : SessionOK(s)'
    BY <1>4, <2>4
  <2>6. Requests(queue', doneq', job', held')
    <3>1. queue' \in Seq(Chains) /\ Once(queue') /\ \A x : In(queue', x) => x = Main
      BY <1>5, Apart, SMTT(30) DEF Once, In
    <3>2. doneq' \in Seq(Chains \X Int) /\ OnceEach(doneq') /\ \A x, v : ~Ans(doneq', x, v)
      BY <1>1, NothingAsked DEF Requests
    <3> QED
      BY <1>5, <2>2, <2>4, <3>1, <3>2 DEF Requests
  <2>7. Booting'
    <3>1. \A s \in Sessions : st'[s] \in {"none", "closed"} /\ job'[App(s)].op = "none" /\ job'[Closer(s)].op = "none"
      BY <1>1, <2>4, Apart, NoJobIs
    <3> QED
      BY <1>5, <3>1 DEF Booting
  <2> QED
    BY <1>3, <2>4, <2>5, <2>6, <2>7 DEF NodeInv
<1>6. CASE queue' = <<>> /\ UNCHANGED job
  <2>1. \A s \in Sessions : SessionOK(s)'
    BY <1>4, <1>6
  <2>2. Requests(queue', doneq', job', held')
    BY <1>1, <1>6, NothingAsked
  <2>3. Booting' /\ JobTypes(job')
    BY <1>1, <1>2, <1>6, Apart, NoJobIs DEF Booting
  <2> QED
    BY <1>3, <2>1, <2>2, <2>3 DEF NodeInv
<1> QED
  BY <1>5, <1>6 DEF Boot

\* close() of s is awaited while it is under way only.
Waiting(w, x) == \A s \in Sessions : Closer(s) \in w => x[s] = "closing"

\* A close that goes on leaves who waits in order.
LEMMA GoOnWaits ==
  ASSUME SessionTypes, Waiting(waits, st), NEW s \in Sessions, GoOnClosing(s)
  PROVE  Waiting(waits', st')
<1>1. \A t \in Sessions : t # s => Closer(t) # Closer(s)
  BY Apart
<1>2. CASE waits' = waits \cup {Closer(s)} /\ st' = [st EXCEPT ![s] = "closing"]
  <2>1. st'[s] = "closing" /\ \A t \in Sessions \ {s} : st'[t] = st[t]
    BY <1>2 DEF SessionTypes
  <2> QED
    BY <1>1, <1>2, <2>1 DEF Waiting
<1>3. CASE waits' = waits \ {Closer(s)} /\ Closed({s})
  <2>1. \A t \in Sessions \ {s} : st'[t] = st[t]
    BY <1>3 DEF Closed
  <2> QED
    BY <1>3, <2>1 DEF Waiting
<1> QED
  BY <1>2, <1>3 DEF GoOnClosing

\* Only a closing session has a close that waits.
LEMMA WaitingStep ==
  ASSUME SessionTypes, Waiting(waits, st), NodeNext
  PROVE  Waiting(waits', st')
<1>0. \A t \in Sessions : Closer(t) # Main /\ \A s \in Sessions : Closer(t) # App(s)
  BY Apart
<1>1. ASSUME st' = st, \A t \in Sessions : Closer(t) \in waits' => Closer(t) \in waits
      PROVE  Waiting(waits', st')
  BY <1>1 DEF Waiting
<1>2. ASSUME NEW s \in Sessions, \A t \in Sessions \ {s} : st'[t] = st[t], Closer(s) \notin waits',
             \A t \in Sessions : Closer(t) \in waits' => Closer(t) \in waits
      PROVE  Waiting(waits', st')
  BY <1>2 DEF Waiting
<1>3. CASE Boot
  <2>1. waits' = {Main} \/ waits' = {}
    BY <1>3 DEF Boot
  <2> QED
    BY <1>0, <2>1 DEF Waiting
<1>4. CASE api_thread_fn
  <2>1. waits' = waits /\ st' = st
    BY <1>4 DEF api_thread_fn, session
  <2> QED
    BY <1>1, <2>1
<1>5. CASE haltKernel \/ HaltGoesOn \/ MainDone
  <2>1. (waits' = waits \/ waits' = waits \cup {Main} \/ waits' = waits \ {Main}) /\ st' = st
    BY <1>5 DEF haltKernel, HaltGoesOn, HaltSettled, MainDone, session
  <2> QED
    BY <1>0, <1>1, <2>1
<1>6. CASE Abort
  BY <1>6 DEF Abort, Waiting
<1>7. ASSUME NEW s \in Sessions, attachPath(s) PROVE Waiting(waits', st')
  <2>1. /\ waits' = waits \/ waits' = waits \cup {App(s)}
        /\ st' = [st EXCEPT ![s] = "open"] /\ st[s] \in {"none", "closed"}
    BY <1>7 DEF attachPath
  <2>2. \A t \in Sessions : Closer(t) \in waits' => Closer(t) \in waits
    BY <1>0, <2>1
  <2>3. Closer(s) \notin waits
    BY <2>1 DEF Waiting
  <2>4. \A t \in Sessions \ {s} : st'[t] = st[t]
    BY <2>1 DEF SessionTypes
  <2> QED
    BY <1>2, <2>2, <2>3, <2>4
<1>8. ASSUME NEW s \in Sessions, diskOp(s) \/ pathOp(s) \/ openFd(s) \/ readFd(s) \/ closeFd(s)
      PROVE  Waiting(waits', st')
  <2>1. waits' = waits \cup {App(s)} /\ st' = st
    BY <1>8 DEF diskOp, pathOp, openFd, readFd, closeFd, session
  <2> QED
    BY <1>0, <1>1, <2>1
<1>9. ASSUME NEW s \in Sessions, close(s) PROVE Waiting(waits', st')
  <2>1. CASE GoOnClosing(s)
    BY <2>1, GoOnWaits
  <2>2. CASE Closed({s}) /\ waits' = waits
    <3>1. Closer(s) \notin waits
      BY <1>9 DEF close, Waiting
    <3>2. \A t \in Sessions \ {s} : st'[t] = st[t]
      BY <2>2 DEF Closed
    <3> QED
      BY <1>2, <2>2, <3>1, <3>2
  <2> QED
    BY <1>9, <2>1, <2>2 DEF close
<1>10. ASSUME NEW s \in Sessions, anyfsApiDone(s) PROVE Waiting(waits', st')
  <2>1. CASE st' = st /\ (waits' = waits \/ waits' = waits \ {App(s)})
    BY <1>1, <2>1
  <2>2. CASE CloseDone(s)
    <3>1. CASE GoOnClosing(s)
      BY <3>1, GoOnWaits
    <3>2. CASE Closed({s}) /\ waits' = waits \ {Closer(s)}
      <4>1. \A t \in Sessions \ {s} : st'[t] = st[t]
        BY <3>2 DEF Closed
      <4> QED
        BY <1>2, <3>2, <4>1
    <3>3. CASE UNCHANGED <<waits, st>>
      BY <1>1, <3>3
    <3> QED
      BY <2>2, <3>1, <3>2, <3>3 DEF CloseDone
  <2>3. ASSUME NEW r, AttachDone(s, r) \/ EnterDone(s, r) \/ TextDone(s, r) \/ OpenDone(s, r) \/ PlainDone(s)
        PROVE  st' = st /\ (waits' = waits \/ waits' = waits \ {App(s)})
    BY <2>3 DEF AttachDone, EnterDone, TextDone, OpenDone, PlainDone
  <2> QED
    BY <1>10, <2>1, <2>2, <2>3 DEF anyfsApiDone
<1>11. ASSUME NEW s \in Sessions, Timeout(s) PROVE Waiting(waits', st')
  <2> DEFINE dead == {p \in waits : p[1] = s /\ job[p].op \in Guarded}
  <2>1. waits' = waits \ dead /\ Closed(IF Closer(s) \in dead THEN {s} ELSE {})
    BY <1>11 DEF Timeout
  <2> HIDE DEF dead
  <2>2. CASE Closer(s) \in dead
    <3>1. \A t \in Sessions \ {s} : st'[t] = st[t]
      BY <2>1, <2>2 DEF Closed
    <3> QED
      BY <1>2, <2>1, <2>2, <3>1
  <2>3. CASE Closer(s) \notin dead
    <3>1. \A t \in Sessions : st'[t] = st[t]
      BY <2>1, <2>3 DEF Closed
    <3> QED
      BY <2>1, <3>1 DEF Waiting
  <2> QED
    BY <2>2, <2>3
<1> QED
  BY <1>3, <1>4, <1>5, <1>6, <1>7, <1>8, <1>9, <1>10, <1>11 DEF NodeNext

-----------------------------------------------------------------------------
(* NodeInv, with who awaits close(), is an invariant. *)

NodeInvariant == NodeInv /\ Waiting(waits, st)

\* The invariant of the Node edition holds at the start.
LEMMA NodeStart == NodeInit => NodeInvariant
<1> SUFFICES ASSUME NodeInit PROVE NodeInvariant
  OBVIOUS
<1>1. /\ queue = <<>> /\ doneq = <<>> /\ waits = {} /\ job = [p \in Chains |-> NoJob]
      /\ g_handles = [h \in 0 .. MAX_HANDLES - 1 |-> Nobody] /\ fdtab = [fd \in KernelFds |-> Nobody]
      /\ st = [s \in Sessions |-> "none"] /\ handle = [s \in Sessions |-> -1]
      /\ fds = [s \in Sessions |-> {}] /\ visited = [s \in Sessions |-> {}]
  BY DEF NodeInit
<1>2. JobTypes(job) /\ \A p \in Chains : job[p] = NoJob /\ job[p].op = "none"
  BY <1>1, NoJobs
<1>3. Requests(queue, doneq, job, held) /\ (\A x : ~In(queue, x)) /\ \A x, r : ~Ans(doneq, x, r)
  BY <1>1, NothingAsked
<1>4. EngineTypes
  BY <1>1 DEF EngineTypes
<1>5. SessionTypes
  <2>1. -1 \in Int
    BY SMTT(30)
  <2> QED
    BY <1>1, <2>1 DEF SessionTypes
<1>6. ASSUME NEW s \in Sessions PROVE SessionOK(s)
  <2>1. st[s] = "none" /\ ~Alive(st[s]) /\ job[App(s)].op = "none" /\ job[Closer(s)].op = "none"
    BY <1>1, <1>2, Apart DEF Alive
  <2>2. Phases(s) /\ Turns(s)
    BY <1>3, <2>1 DEF Phases, Turns
  <2>3. Handles(s) /\ Files(s)
    BY <1>3, <2>1 DEF Handles, Files
  <2> QED
    BY <2>2, <2>3 DEF SessionOK
<1>7. Booting /\ Waiting(waits, st)
  BY <1>1, <1>2, Apart DEF Booting, Waiting
<1> QED
  BY <1>2, <1>3, <1>4, <1>5, <1>6, <1>7 DEF NodeInvariant, NodeInv

\* Every step keeps the invariant of the Node edition.
LEMMA NodeStep == NodeInvariant /\ [NodeNext]_nodevars => NodeInvariant'
<1> SUFFICES ASSUME NodeInvariant, [NodeNext]_nodevars PROVE NodeInvariant'
  OBVIOUS
<1>1. NodeInv /\ SessionTypes /\ Waiting(waits, st) /\ \A s \in Sessions : Closer(s) \in waits => st[s] = "closing"
  BY DEF NodeInvariant, NodeInv, Waiting
<1>2. CASE NodeNext
  <2>1. Waiting(waits', st')
    BY <1>1, <1>2, WaitingStep
  <2>2. ASSUME Boot \/ haltKernel \/ HaltGoesOn \/ MainDone \/ Abort \/ api_thread_fn PROVE NodeInv'
    BY <1>1, <2>2, BootStep, haltKernelStep, MainStep, AbortStep, RunStep
  <2>3. ASSUME NEW s \in Sessions,
               \/ attachPath(s) \/ diskOp(s) \/ pathOp(s) \/ openFd(s) \/ readFd(s) \/ closeFd(s)
               \/ close(s) \/ anyfsApiDone(s) \/ Timeout(s)
        PROVE  NodeInv'
    <3>1. CASE attachPath(s)
      BY <1>1, <3>1, AttachStep
    <3>2. CASE diskOp(s) \/ pathOp(s) \/ openFd(s) \/ readFd(s) \/ closeFd(s)
      BY <1>1, <3>2, Operations
    <3>3. CASE close(s)
      BY <1>1, <3>3, CloseStep
    <3>4. CASE anyfsApiDone(s)
      BY <1>1, <3>4, DoneStep
    <3>5. CASE Timeout(s)
      BY <1>1, <3>5, TimeoutStep
    <3> QED
      BY <2>3, <3>1, <3>2, <3>3, <3>4, <3>5
  <2>4. NodeInv'
    BY <1>2, <2>2, <2>3 DEF NodeNext
  <2> QED
    BY <2>1, <2>4 DEF NodeInvariant
<1>3. CASE UNCHANGED nodevars
  <2>1. UNCHANGED <<up, g_handles, fdtab, queue, doneq, job, held, waits, st, handle, fds, visited, boot>>
    BY <1>3 DEF nodevars, process, engine, session
  <2>2. NoRun /\ \A t \in Sessions : Fewer(t) /\ JobsLess(t)
    BY <2>1 DEF NoRun, Fewer, JobsLess
  <2>3. Requests(queue', doneq', job', held') /\ JobTypes(job') /\ Booting'
    BY <1>1, <2>1 DEF NodeInv, Booting
  <2>4. NodeInv'
    BY <1>1, <2>1, <2>2, <2>3, Still
  <2> QED
    BY <1>1, <2>1, <2>4 DEF NodeInvariant
<1> QED
  BY <1>2, <1>3

\* The memory of a request the API thread has yet to serve is allocated,
\* whatever timeouts, closes and aborts happen meanwhile (WasmApi.call and
\* guard in node-wasm-session.ts).
THEOREM NodeRequestsHeld == NodeSpec => []RequestsHeld
<1>1. NodeInvariant => RequestsHeld
  <2> SUFFICES ASSUME NodeInvariant, NEW i \in 1 .. Len(queue) PROVE queue[i] \in held
    BY DEF RequestsHeld
  <2>1. Requests(queue, doneq, job, held)
    BY DEF NodeInvariant, NodeInv
  <2>2. queue \in Seq(Chains)
    BY <2>1 DEF Requests
  <2>3. queue[i] \in Chains /\ In(queue, queue[i])
    <3>1. queue[i] \in Chains
      BY <2>2, SMTT(30)
    <3> QED
      BY <3>1 DEF In
  <2> QED
    BY <2>1, <2>3 DEF Requests
<1> QED
  BY <1>1, NodeStart, NodeStep, PTL DEF NodeSpec

\* The request the API thread runs names a handle or an fd of its own session,
\* or one that is nobody's: what a session gave back, and another got since, it
\* does not touch (but for the repeated listParts or meta, which OwnDisk leaves out).
THEOREM NodeOwnDisk == NodeSpec => []OwnDisk
<1>1. NodeInvariant => OwnDisk
  <2> DEFINE p == Head(queue)
             j == job[p]
  <2> SUFFICES ASSUME NodeInvariant, queue # <<>>
               PROVE  /\ j.op \in {"enter", "sessclose"} \/ (j.op = "text" /\ j.tries = 1) =>
                           get_handle(j.arg) \in {Nobody, p[1]}
                      /\ j.op \in {"read", "closefd"} => fdtab[j.arg] \in {Nobody, p[1]}
    BY DEF OwnDisk
  <2>1. Requests(queue, doneq, job, held) /\ JobTypes(job) /\ \A s \in Sessions : SessionOK(s)
    BY DEF NodeInvariant, NodeInv
  <2>0. -1 \notin DOMAIN g_handles
    <3>1. -1 \notin 0 .. MAX_HANDLES - 1
      BY NodeAssumption, SMTT(30)
    <3> QED
      BY <3>1 DEF NodeInvariant, NodeInv, EngineTypes
  <2>2. queue \in Seq(Chains) /\ Once(queue)
    BY <2>1 DEF Requests
  <2>3. p \in Chains /\ In(queue, p)
    BY <2>2, Dropped, InTail
  <2> HIDE DEF p
  <2>4. job[p].op # "none"
    BY <2>1, <2>3 DEF Requests
  <2>5. CASE p = Main
    <3>1. j.op \in MainOps
      BY <2>1, <2>3, <2>5 DEF JobTypes, JobOK
    <3> QED
      BY <3>1 DEF MainOps
  <2>6. ASSUME NEW s \in Sessions, p = App(s) \/ p = Closer(s)
        PROVE  /\ j.op \in {"enter", "sessclose"} \/ (j.op = "text" /\ j.tries = 1) =>
                    get_handle(j.arg) \in {Nobody, p[1]}
               /\ j.op \in {"read", "closefd"} => fdtab[j.arg] \in {Nobody, p[1]}
    <3>1. p[1] = s /\ Handles(s) /\ Files(s)
      BY <2>1, <2>6, Apart DEF SessionOK
    <3>2. p = App(s) => j.op \in AppOps
      BY <2>1, <2>3 DEF JobTypes, JobOK
    <3>3. p = Closer(s) => j.op \in CloserOps
      BY <2>1, <2>3 DEF JobTypes, JobOK
    <3>4. ASSUME j.op \in {"enter", "sessclose"} \/ (j.op = "text" /\ j.tries = 1)
          PROVE  get_handle(j.arg) \in {Nobody, p[1]}
      <4>1. CASE j.arg \in DOMAIN g_handles
        <5>1. j.arg # -1 /\ get_handle(j.arg) = g_handles[j.arg]
          BY <2>0, <4>1 DEF get_handle
        <5>2. Mine(g_handles, up, j.arg, s)
          BY <2>3, <2>6, <3>1, <3>2, <3>3, <3>4, <5>1 DEF Handles, NamesDisk, AppOps, CloserOps
        <5> QED
          BY <3>1, <5>1, <5>2 DEF Mine
      <4>2. CASE j.arg \notin DOMAIN g_handles
        BY <4>2 DEF get_handle
      <4> QED
        BY <4>1, <4>2
    <3>5. ASSUME j.op \in {"read", "closefd"} PROVE fdtab[j.arg] \in {Nobody, p[1]}
      <4>1. Own(fdtab, j.arg, s)
        BY <2>3, <2>6, <3>1, <3>3, <3>5 DEF Files, CloserOps
      <4> QED
        BY <3>1, <4>1 DEF Own
    <3> QED
      BY <3>4, <3>5
  <2> QED
    BY <2>3, <2>5, <2>6 DEF Chains
<1> QED
  BY <1>1, NodeStart, NodeStep, PTL DEF NodeSpec
==============================================================================
