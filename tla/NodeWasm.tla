------------------------------- MODULE NodeWasm -------------------------------
(* The Node edition: several NodeWasmSessions of one process share one wasm  *)
(* module, its kernel and its API thread.                                    *)
(*                                                                           *)
(* JavaScript runs on the thread that owns the module.  An action of it is   *)
(* one task with the microtasks behind it: what happens from one completion  *)
(* (anyfsApiDone), timer or call of the application up to the next await.    *)
(* The API thread (anyfs_ts.c) takes requests in the order of submission and *)
(* posts their completions, which arrive in that order.                      *)
EXTENDS Integers, Sequences, FiniteSets, FiniteSetsExt

CONSTANTS Sessions,     \* NodeWasmSession objects, each for a disk of its own
          Nobody,       \* not a session
          MAX_HANDLES,  \* size of the C table of open disks
          KernelFds,    \* numbers the kernel hands out for open files
          MaxTries      \* bound on the attempts of callStringOut (6 in the code)

ASSUME NodeAssumption ==
  /\ Nobody \notin Sessions
  /\ MAX_HANDLES \in Nat /\ KernelFds \subseteq Nat /\ MaxTries \in Nat \ {0}

VARIABLES
  boot,        \* g_modulePromise: "none", "booting", "ok", "rejected"
  halting,     \* haltKernel is under way
  failure,     \* WasmApi.failure: the module aborted
  up,          \* the kernel runs
  queue,       \* requests submitted and not served; the thread runs the first
  doneq,       \* completions on their way to the owner thread, with the results
  job,         \* the request each chain of calls awaits
  held,        \* chains whose request and buffers are allocated
  waits,       \* chains somebody still awaits
  g_handles,   \* whose disk a handle stands for
  fdtab,       \* whose file an fd stands for
  last_error,  \* whose failure the API thread's last error message tells of
  st,          \* a session: "none", "open", "closing", "closed"
  handle,      \* NodeWasmSession.handle
  fds,         \* AnyfsSessionBase.fds
  visited,     \* the fds the loop in close() has been through
  fatal        \* sessions with fatalErr set

engine == <<up, g_handles, fdtab, last_error>>
session == <<st, handle, fds, visited, fatal>>
process == <<boot, halting, failure>>
nodevars == <<process, engine, queue, doneq, job, held, waits, session>>

(* An application awaits one call of a session before the next and names      *)
(* only fds the session gave it and it has not closed; close() it calls when  *)
(* it likes.  One haltKernel() is under way at a time.                        *)
App(s) == <<s, "app">>
Closer(s) == <<s, "close">>
Main == <<Nobody, "main">>
Chains == {App(s) : s \in Sessions} \cup {Closer(s) : s \in Sessions} \cup {Main}

NoJob == [op |-> "none", arg |-> -1, tries |-> 0]

NodeInit ==
  /\ boot = "none" /\ halting = FALSE /\ failure = FALSE /\ up = FALSE
  /\ queue = <<>> /\ doneq = <<>> /\ held = {} /\ waits = {}
  /\ job = [p \in Chains |-> NoJob]
  /\ g_handles = [h \in 0 .. MAX_HANDLES - 1 |-> Nobody]
  /\ fdtab = [fd \in KernelFds |-> Nobody]
  /\ last_error = Main
  /\ st = [s \in Sessions |-> "none"] /\ handle = [s \in Sessions |-> -1]
  /\ fds = [s \in Sessions |-> {}] /\ visited = [s \in Sessions |-> {}]
  /\ fatal = {}

-----------------------------------------------------------------------------
(* WasmApi.call: the request is written, submitted and awaited. *)

Call(p, op, arg, n) ==
  /\ job' = [job EXCEPT ![p] = [op |-> op, arg |-> arg, tries |-> n]]
  /\ queue' = Append(queue, p)
  /\ held' = held \cup {p}

(* The chain of p ends: everything it allocated is freed. *)
Return(p) ==
  /\ job' = [job EXCEPT ![p] = NoJob]
  /\ held' = held \ {p}
  /\ UNCHANGED queue

-----------------------------------------------------------------------------
(* boot.ts. *)

(* bootModule: the module is instantiated (an abort may beat the factory) and *)
(* KERNEL_INIT submitted, unless the API thread cannot be started.  A kernel  *)
(* that was halted is booted anew once its sessions are gone.                 *)
Boot ==
  /\ boot = "none" /\ ~halting
  /\ \A s \in Sessions : st[s] \in {"none", "closed"}
  /\ \A p \in Chains : job[p] = NoJob
  /\ g_handles' = [h \in DOMAIN g_handles |-> Nobody]
  /\ fdtab' = [fd \in KernelFds |-> Nobody] /\ up' = FALSE /\ last_error' = Main
  /\ doneq' = <<>>
  /\ \/ /\ boot' = "booting" /\ failure' = FALSE
        /\ job' = [job EXCEPT ![Main] = [op |-> "init", arg |-> -1, tries |-> 1]]
        /\ queue' = <<Main>> /\ held' = {Main} /\ waits' = {Main}
     \/ /\ boot' = "rejected" /\ failure' \in BOOLEAN
        /\ queue' = <<>> /\ held' = {} /\ waits' = {}
        /\ UNCHANGED job
  /\ UNCHANGED <<halting, session>>

(* A kernel that runs is halted, a dead module or a failed boot only          *)
(* forgotten.                                                                 *)
HaltSettled ==
  /\ job[Main] = NoJob
  /\ \/ /\ boot = "ok" /\ ~failure
        /\ Call(Main, "halt", -1, 1) /\ waits' = waits \cup {Main}
        /\ halting' = TRUE
        /\ UNCHANGED boot
     \/ /\ boot = "rejected" \/ (boot = "ok" /\ failure)
        /\ boot' = "none" /\ halting' = FALSE
        /\ UNCHANGED <<job, queue, held, waits>>

(* The promise of the boot is awaited first. *)
haltKernel ==
  /\ boot # "none" /\ ~halting
  /\ \/ HaltSettled
     \/ /\ boot = "booting"
        /\ halting' = TRUE
        /\ UNCHANGED <<boot, queue, job, held, waits>>
  /\ UNCHANGED <<failure, engine, doneq, session>>

HaltGoesOn ==
  /\ halting
  /\ HaltSettled
  /\ UNCHANGED <<failure, engine, doneq, session>>

-----------------------------------------------------------------------------
(* node-wasm-session.ts and session-base.ts: what the application calls. *)

(* new NodeWasmSession and attachPath, which no watchdog guards.  On a module *)
(* that is dead already the session is fatal and the attach rejects.          *)
attachPath(s) ==
  /\ boot = "ok"
  /\ st[s] \in {"none", "closed"}
  /\ job[App(s)] = NoJob /\ job[Closer(s)] = NoJob
  /\ st' = [st EXCEPT ![s] = "open"]
  /\ handle' = [handle EXCEPT ![s] = -1] /\ fds' = [fds EXCEPT ![s] = {}]
  /\ visited' = [visited EXCEPT ![s] = {}]
  /\ \/ /\ ~failure
        /\ Call(App(s), "attach", -1, 1) /\ waits' = waits \cup {App(s)}
        /\ fatal' = fatal \ {s}
     \/ /\ failure
        /\ fatal' = fatal \cup {s}
        /\ UNCHANGED <<job, queue, held, waits>>
  /\ UNCHANGED <<process, engine, doneq>>

(* Mutant: an operation does not check whether the session is being closed. *)
ReadyUnchecked(s) ==
  st[s] \in {"open", "closing"} /\ s \notin fatal /\ job[App(s)] = NoJob

(* check() and guard(): a session that is closed or dead takes no operation; *)
(* one whose attach failed does.                                             *)
Ready(s) == st[s] = "open" /\ s \notin fatal /\ job[App(s)] = NoJob

(* The operations that name the disk: enter, listParts and meta. *)
diskOp(s) ==
  /\ Ready(s)
  /\ \E op \in {"enter", "text"} : Call(App(s), op, handle[s], 1)
  /\ waits' = waits \cup {App(s)}
  /\ UNCHANGED <<process, engine, doneq, session>>

(* Those that name a path and answer a text: readdir, stat, readKernelFile.    *)
pathOp(s) ==
  /\ Ready(s)
  /\ Call(App(s), "text", -1, 1)
  /\ waits' = waits \cup {App(s)}
  /\ UNCHANGED <<process, engine, doneq, session>>

openFd(s) ==
  /\ Ready(s)
  /\ Call(App(s), "open", -1, 1)
  /\ waits' = waits \cup {App(s)}
  /\ UNCHANGED <<process, engine, doneq, session>>

readFd(s) ==
  /\ Ready(s)
  /\ \E fd \in fds[s] : Call(App(s), "read", fd, 1)
  /\ waits' = waits \cup {App(s)}
  /\ UNCHANGED <<process, engine, doneq, session>>

(* The fd leaves the session's set before it is closed. *)
closeFd(s) ==
  /\ Ready(s)
  /\ \E fd \in fds[s] : /\ Call(App(s), "closefd", fd, 1)
                        /\ fds' = [fds EXCEPT ![s] = @ \ {fd}]
  /\ waits' = waits \cup {App(s)}
  /\ UNCHANGED <<process, engine, doneq, st, handle, visited, fatal>>

(* The sessions of C are closed: close() returned. *)
Closed(C) ==
  /\ st' = [s \in Sessions |-> IF s \in C THEN "closed" ELSE st[s]]
  /\ handle' = [s \in Sessions |-> IF s \in C THEN -1 ELSE handle[s]]
  /\ fds' = [s \in Sessions |-> IF s \in C THEN {} ELSE fds[s]]
  /\ visited' = [s \in Sessions |-> IF s \in C THEN {} ELSE visited[s]]

(* close() of a live session from where it stands: the next fd of the set     *)
(* (fds opened meanwhile join it), then _dispose, then the end.               *)
GoOnClosing(s) ==
  LET left == fds[s] \ visited[s]
      p == Closer(s)
  IN \/ /\ left # {}
        /\ Call(p, "closefd", Min(left), 1) /\ waits' = waits \cup {p}
        /\ visited' = [visited EXCEPT ![s] = @ \cup {Min(left)}]
        /\ st' = [st EXCEPT ![s] = "closing"]
        /\ UNCHANGED <<handle, fds>>
     \/ /\ left = {} /\ handle[s] # -1
        /\ Call(p, "sessclose", handle[s], 1) /\ waits' = waits \cup {p}
        /\ st' = [st EXCEPT ![s] = "closing"]
        /\ UNCHANGED <<handle, fds, visited>>
     \/ /\ left = {} /\ handle[s] = -1
        /\ Return(p) /\ waits' = waits \ {p}
        /\ Closed({s})

close(s) ==
  /\ st[s] = "open" /\ job[Closer(s)] = NoJob
  /\ \/ /\ s \notin fatal /\ GoOnClosing(s)
     \/ /\ s \in fatal /\ Closed({s})
        /\ UNCHANGED <<job, queue, held, waits>>
  /\ UNCHANGED <<process, engine, doneq, fatal>>

-----------------------------------------------------------------------------
(* guard(): the watchdog. *)

(* Mutant: the close of the disk is not guarded. *)
GuardedButClose == {"enter", "enterwhy", "text", "open", "read", "closefd"}

Guarded == {"enter", "enterwhy", "text", "open", "read", "closefd", "sessclose"}

(* Mutant: the operation that timed out gives its buffers back. *)
TimeoutFrees(s) ==
  LET dead == {p \in waits : p[1] = s /\ job[p].op \in Guarded}
  IN /\ dead # {}
     /\ fatal' = fatal \cup {s}
     /\ waits' = waits \ dead
     /\ Closed(IF Closer(s) \in dead THEN {s} ELSE {})
     /\ held' = held \ dead
     /\ UNCHANGED <<process, engine, queue, doneq, job>>

(* Only the attach, with its question for the reason, goes unguarded. *)
Unguarded == {"attach", "attachwhy"}

(* The timer of an operation of s fires: the session is dead and its guarded  *)
(* operations reject; a close() under way then finds nothing left to do.  The *)
(* chains themselves go on.                                                   *)
Timeout(s) ==
  LET dead == {p \in waits : p[1] = s /\ job[p].op \in Guarded}
  IN /\ dead # {}
     /\ fatal' = fatal \cup {s}
     /\ waits' = waits \ dead
     /\ Closed(IF Closer(s) \in dead THEN {s} ELSE {})
     /\ UNCHANGED <<process, engine, queue, doneq, job, held>>

(* WasmApi.fail: everything pending rejects, every session is dead.  Nothing   *)
(* is freed in a dead heap.                                                    *)
Abort ==
  /\ boot \in {"booting", "ok"} /\ ~failure
  /\ failure' = TRUE
  /\ queue' = <<>> /\ doneq' = <<>>
  /\ job' = [p \in Chains |-> NoJob] /\ waits' = {}
  /\ fatal' = fatal \cup {s \in Sessions : st[s] \in {"open", "closing"}}
  /\ Closed({s \in Sessions : st[s] = "closing"})
  /\ boot' = IF boot = "booting" THEN "rejected" ELSE boot
  /\ halting' = (halting /\ job[Main].op # "halt")
  /\ UNCHANGED <<engine, held>>

-----------------------------------------------------------------------------
(* The completion of the request of p resumes its chain. *)

(* SESSION_OPEN answered: the handle is kept, also by a session that was      *)
(* closed meanwhile; a failure is asked for its reason.                       *)
AttachDone(s, r) ==
  LET p == App(s) IN
  /\ job[p].op = "attach"
  /\ \/ /\ r >= 0
        /\ handle' = [handle EXCEPT ![s] = r]
        /\ Return(p) /\ waits' = waits \ {p}
     \/ /\ r < 0
        /\ Call(p, "attachwhy", -1, 1)
        /\ UNCHANGED <<handle, waits>>
  /\ UNCHANGED <<st, fds, visited>>

EnterDone(s, r) ==
  LET p == App(s) IN
  /\ job[p].op = "enter"
  /\ \/ /\ r >= 0 /\ Return(p) /\ waits' = waits \ {p}
     \/ /\ r < 0 /\ Call(p, "enterwhy", -1, 1) /\ UNCHANGED waits
  /\ UNCHANGED <<st, handle, fds, visited>>

(* callStringOut: -2 asks for a larger buffer, and the call is repeated with   *)
(* the arguments of the first attempt.                                         *)
TextDone(s, r) ==
  LET p == App(s) IN
  /\ job[p].op = "text"
  /\ \/ /\ r = -2 /\ job[p].tries < MaxTries
        /\ Call(p, job[p].op, job[p].arg, job[p].tries + 1) /\ UNCHANGED waits
     \/ /\ r # -2 \/ job[p].tries = MaxTries
        /\ Return(p) /\ waits' = waits \ {p}
  /\ UNCHANGED <<st, handle, fds, visited>>

(* openFd records the fd if its caller still waits for it. *)
OpenDone(s, r) ==
  LET p == App(s) IN
  /\ job[p].op = "open"
  /\ fds' = IF p \in waits /\ r >= 0 THEN [fds EXCEPT ![s] = @ \cup {r}] ELSE fds
  /\ Return(p) /\ waits' = waits \ {p}
  /\ UNCHANGED <<st, handle, visited>>

PlainDone(s) ==
  LET p == App(s) IN
  /\ job[p].op \in {"attachwhy", "enterwhy", "read", "closefd"}
  /\ Return(p) /\ waits' = waits \ {p}
  /\ UNCHANGED <<st, handle, fds, visited>>

(* A step of close(): an fd is closed, or the disk; nobody waits for it any    *)
(* more when the session died meanwhile.                                       *)
CloseDone(s) ==
  LET p == Closer(s) IN
  \/ /\ p \in waits /\ job[p].op = "closefd" /\ GoOnClosing(s)
  \/ /\ p \in waits /\ job[p].op = "sessclose"
     /\ Return(p) /\ waits' = waits \ {p} /\ Closed({s})
  \/ /\ p \notin waits /\ Return(p)
     /\ UNCHANGED <<waits, st, handle, fds, visited>>

anyfsApiDone(s) ==
  /\ doneq # <<>> /\ doneq' = Tail(doneq)
  /\ \/ /\ Head(doneq)[1] = App(s)
        /\ LET r == Head(doneq)[2] IN
             AttachDone(s, r) \/ EnterDone(s, r) \/ TextDone(s, r) \/ OpenDone(s, r) \/ PlainDone(s)
     \/ Head(doneq)[1] = Closer(s) /\ CloseDone(s)
  /\ UNCHANGED <<process, engine, fatal>>

(* bootModule and haltKernel get the answer of the kernel. *)
MainDone ==
  /\ doneq # <<>> /\ Head(doneq)[1] = Main /\ doneq' = Tail(doneq)
  /\ \/ /\ job[Main].op = "init"
        /\ boot' = IF Head(doneq)[2] = 0 THEN "ok" ELSE "rejected"
        /\ UNCHANGED halting
     \/ /\ job[Main].op = "halt"
        /\ boot' = "none" /\ halting' = FALSE
  /\ Return(Main) /\ waits' = waits \ {Main}
  /\ UNCHANGED <<failure, engine, session>>

-----------------------------------------------------------------------------
(* api_run on the API thread: a request and its result r. *)

Results == {-3, -2, -1} \cup (0 .. MAX_HANDLES) \cup KernelFds

kernelOp(p, r) ==
  \/ /\ job[p].op = "init"
     /\ \/ r = 0 /\ up' = TRUE
        \/ r = -1 /\ UNCHANGED up
     /\ UNCHANGED <<g_handles, fdtab, last_error>>
  \/ /\ job[p].op = "halt"
     /\ r = 0 /\ up' = FALSE
     /\ g_handles' = [h \in DOMAIN g_handles |-> Nobody]
     /\ UNCHANGED <<fdtab, last_error>>

get_handle(h) == IF h \in DOMAIN g_handles THEN g_handles[h] ELSE Nobody

Free == {h \in DOMAIN g_handles : g_handles[h] = Nobody}

(* anyfs_ts_session_open: the error message is cleared first; a disk that     *)
(* finds the table full is closed again.                                      *)
anyfs_ts_session_open(p, r) ==
  /\ job[p].op = "attach"
  /\ \/ /\ r = -1 /\ last_error' = p
        /\ UNCHANGED g_handles
     \/ /\ up /\ Free = {}
        /\ r = -2 /\ last_error' = Main
        /\ UNCHANGED g_handles
     \/ /\ up /\ Free # {}
        /\ r = Min(Free) /\ last_error' = Main
        /\ g_handles' = [g_handles EXCEPT ![Min(Free)] = p[1]]
  /\ UNCHANGED <<up, fdtab>>

(* anyfs_ts_session_enter, also of a handle that is not open any more. *)
anyfs_ts_session_enter(p, r) ==
  /\ job[p].op = "enter"
  /\ \/ /\ get_handle(job[p].arg) = Nobody
        /\ r = -1 /\ last_error' = Main
     \/ /\ get_handle(job[p].arg) # Nobody
        /\ \/ r = 0 /\ last_error' = Main
           \/ r = -3 /\ last_error' = p
  /\ UNCHANGED <<up, g_handles, fdtab>>

anyfs_ts_session_close(p, r) ==
  /\ job[p].op = "sessclose"
  /\ r = IF g_handles[job[p].arg] = Nobody THEN -1 ELSE 0
  /\ g_handles' = [g_handles EXCEPT ![job[p].arg] = Nobody]
  /\ UNCHANGED <<up, fdtab, last_error>>

(* The operations that answer a text, of a handle or of a path: done, with    *)
(* the text or a failure, or -2 for want of room.                             *)
textOp(p, r) ==
  /\ job[p].op = "text"
  /\ r \in {0, -2}
  /\ UNCHANGED engine

api_last_error(p, r) ==
  /\ job[p].op \in {"attachwhy", "enterwhy"}
  /\ r = 0
  /\ UNCHANGED engine

fdOp(p, r) ==
  \/ /\ job[p].op = "open"
     /\ \/ /\ r = -1 /\ UNCHANGED fdtab
        \/ \E fd \in KernelFds :
             /\ up /\ fdtab[fd] = Nobody /\ \A n \in KernelFds : n < fd => fdtab[n] # Nobody
             /\ r = fd
             /\ fdtab' = [fdtab EXCEPT ![fd] = p[1]]
     /\ UNCHANGED <<up, g_handles, last_error>>
  \/ /\ job[p].op = "read"
     /\ r = 0
     /\ UNCHANGED engine
  \/ /\ job[p].op = "closefd"
     /\ r = 0
     /\ fdtab' = [fdtab EXCEPT ![job[p].arg] = Nobody]
     /\ UNCHANGED <<up, g_handles, last_error>>

(* api_thread_fn: the first request is run and its completion posted. *)
api_thread_fn ==
  /\ queue # <<>> /\ ~failure
  /\ \E r \in Results :
       /\ LET p == Head(queue) IN
            \/ kernelOp(p, r) \/ anyfs_ts_session_open(p, r) \/ anyfs_ts_session_enter(p, r)
            \/ anyfs_ts_session_close(p, r) \/ textOp(p, r) \/ api_last_error(p, r)
            \/ fdOp(p, r)
       /\ doneq' = Append(doneq, <<Head(queue), r>>)
  /\ queue' = Tail(queue)
  /\ UNCHANGED <<process, job, held, waits, session>>

-----------------------------------------------------------------------------
NodeNext ==
  \/ Boot \/ haltKernel \/ HaltGoesOn \/ MainDone \/ Abort \/ api_thread_fn
  \/ \E s \in Sessions :
       \/ attachPath(s) \/ diskOp(s) \/ pathOp(s) \/ openFd(s) \/ readFd(s) \/ closeFd(s)
       \/ close(s) \/ anyfsApiDone(s) \/ Timeout(s)

(* Timers fire.  Nothing is assumed of the API thread, which may stop for     *)
(* ever in any request.                                                       *)
NodeFairness == \A s \in Sessions : WF_nodevars(Timeout(s))

NodeSpec == NodeInit /\ [][NodeNext]_nodevars /\ NodeFairness

-----------------------------------------------------------------------------
(* Memory the API thread reads or writes is allocated: neither a watchdog     *)
(* nor a close frees the request or the buffers of a call under way.          *)
RequestsHeld == \A i \in 1 .. Len(queue) : queue[i] \in held

(* The request the API thread runs acts on what its session opened: a handle  *)
(* or an fd that was given back and handed out again is not used.  The one    *)
(* exception is listParts (and meta), which repeats a call with the handle it *)
(* began with, though the session may be closed by then (wasm-api.ts, 178).   *)
OwnDisk ==
  queue # <<>> =>
    LET p == Head(queue)
        j == job[p]
    IN /\ (j.op \in {"enter", "sessclose"} \/ (j.op = "text" /\ j.tries = 1)) =>
            get_handle(j.arg) \in {Nobody, p[1]}
       /\ j.op \in {"read", "closefd"} => fdtab[j.arg] \in {Nobody, p[1]}

(* Whatever the engine does, every operation under the watchdog returns, and  *)
(* so does close(), also of a session beside the one whose call is stuck.     *)
NodeCallsReturn ==
  \A s \in Sessions :
    []<>(Closer(s) \notin waits) /\ []<>(App(s) \notin waits \/ job[App(s)].op \in Unguarded)

(* "The API thread's last error message (set by the op that just failed)"     *)
(* (wasm-api.ts, lastError): nobody is told the reason of another's failure.  *)
LastErrorIsOwn ==
  queue # <<>> /\ job[Head(queue)].op \in {"attachwhy", "enterwhy"} =>
    last_error \in {Head(queue), Main}
=============================================================================
