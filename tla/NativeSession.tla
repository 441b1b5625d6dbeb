--------------------------- MODULE NativeSession ---------------------------
(***************************************************************************)
(* The Electron sessions (native-session.ts on session-base.ts): sessions  *)
(* of one renderer share the addon, whose worker threads take a mutex for  *)
(* every call and may wedge in one for ever.                               *)
(*                                                                         *)
(* JavaScript runs to completion, so an action is one task with the        *)
(* promise reactions it causes; an operation accepted by serialize starts  *)
(* in a reaction of its own, and the code that called it may call close    *)
(* before.  Everything but attaching and fd traffic has no effect on the   *)
(* state kept here: enter, listParts, meta, readdir, stat, readlink,       *)
(* realpath and pread are the operation "op", pread with an fd.            *)
(***************************************************************************)
EXTENDS Naturals, Sequences, FiniteSets

CONSTANTS
  Sessions,
  Fds,        \* file descriptor numbers of the kernel, reused
  NoFd,
  MaxOps,     \* bound: operations an application starts on each session
  MayWedge    \* TRUE: the addon may hang in a call

ASSUME NativeAssumption ==
  NoFd \notin Fds /\ MaxOps \in [Sessions -> Nat] /\ MayWedge \in BOOLEAN

Op(kind, fd) == [kind |-> kind, fd |-> fd]
None == Op("none", NoFd)
Attaches == {"path", "url"}
Kinds == Attaches \cup {"op", "open", "close"}

VARIABLES
  phase,     \* of a session: "new", "init" (in boot), "ready", "failed"
  disposed, fatal, handle, proxyId, \* sessions
  fds,       \* this.fds
  queue,     \* operations that wait for their turn in serialize
  run,       \* the operation whose turn it is, None when the queue is idle
  guarded,   \* sessions whose operation is under the watchdog
  attach,    \* attachUrl: "idle", "starting", "opening", "stopping"
  stage, left, \* _dispose, and the fds it has still to close
  awaited,   \* sessions whose _dispose awaits a call under the watchdog
  used,      \* operations started
  dead,      \* deadEngines has the bridge
  failed,    \* the main process was told (nativeFailed)
  calls,     \* bridge calls to the addon that wait for its mutex
  answers,   \* results on their way back
  wedged,    \* a call holds the mutex for ever
  disk,      \* disks open in the addon: "none", "path" or "url"
  kfds,      \* file descriptors a session has open in the kernel
  proxies,   \* sessions with an HTTP proxy the main process was not asked to stop
  given      \* fds handed to closeFd and still open

session == <<phase, disposed, fatal, handle, proxyId, fds, attach, used>>
ops == <<queue, run, guarded>>
closing == <<stage, left, awaited>>
bridge == <<calls, answers>>
addon == <<wedged, disk, kfds>>
engine == <<dead, failed>>
vars == <<session, ops, closing, bridge, addon, engine, proxies, given>>

Init ==
  /\ phase = [s \in Sessions |-> "new"]
  /\ disposed = {} /\ fatal = {} /\ handle = {} /\ proxyId = {}
  /\ fds = [s \in Sessions |-> {}]
  /\ queue = [s \in Sessions |-> <<>>] /\ run = [s \in Sessions |-> None]
  /\ guarded = {} /\ awaited = {}
  /\ attach = [s \in Sessions |-> "idle"]
  /\ stage = [s \in Sessions |-> "open"] /\ left = [s \in Sessions |-> {}]
  /\ used = [s \in Sessions |-> 0]
  /\ dead = FALSE /\ failed = FALSE /\ calls = {} /\ answers = {}
  /\ wedged = FALSE
  /\ disk = [s \in Sessions |-> "none"]
  /\ kfds = [s \in Sessions |-> {}]
  /\ proxies = {} /\ given = {}

Call(s, kind, fd) == [s |-> s, kind |-> kind, fd |-> fd]

Idle(s) == queue[s] = <<>> /\ run[s] = None

-----------------------------------------------------------------------------
(* session-base.ts *)

(* fireFatal, with the listener the constructor registers: the calls under *)
(* the watchdog reject, and with them the operation whose turn it is.      *)
FireFatal(S) ==
  /\ fatal' = fatal \cup S
  /\ guarded' = guarded \ S /\ awaited' = awaited \ S
  /\ run' = [s \in Sessions |-> IF s \in S \cap guarded THEN None ELSE run[s]]
  /\ dead' = (dead \/ S # {})

(* serialize: accepted unless disposed. *)
Serialize(s, kind, fd) ==
  /\ s \notin disposed
  /\ queue' = [queue EXCEPT ![s] = Append(@, Op(kind, fd))]

(* The turn of the next operation: refused for the sessions in "refused";  *)
(* else the bridge is called, under guard for the kinds in "watched".      *)
TurnWith(s, refused, watched) ==
  /\ run[s] = None /\ queue[s] # <<>>
  /\ LET o == Head(queue[s]) IN
     IF s \in refused
     THEN /\ attach' = IF o.kind # "url" THEN attach
                       ELSE [attach EXCEPT ![s] = "stopping"]
          /\ UNCHANGED <<run, guarded, calls>>
     ELSE /\ run' = [run EXCEPT ![s] = o]
          /\ guarded' = IF o.kind \in watched THEN guarded \cup {s} ELSE guarded
          /\ calls' = calls \cup {Call(s, o.kind, o.fd)}
          /\ UNCHANGED attach
  /\ queue' = [queue EXCEPT ![s] = Tail(@)]
  /\ UNCHANGED <<phase, disposed, fatal, handle, proxyId, fds, used, closing,
                 answers, addon, engine, proxies, given>>

(* Mutant: no operation has a watchdog. *)
TurnUnguarded(s) == TurnWith(s, fatal \cup disposed, {})

(* serialize looks again when the turn comes; an attach is not guarded. *)
Turn(s) == TurnWith(s, fatal \cup disposed, Kinds \ Attaches)

(* The timer of guard. *)
Timeout(s) ==
  /\ s \in guarded \cup awaited
  /\ FireFatal({s})
  /\ UNCHANGED <<phase, disposed, handle, proxyId, fds, attach, used, queue,
                 stage, left, bridge, addon, failed, proxies, given>>

(* openFd, and any operation that changes nothing here. *)
CallOp(s, kind, fd) ==
  /\ s \in handle /\ used[s] < MaxOps[s]
  /\ Serialize(s, kind, fd)
  /\ used' = [used EXCEPT ![s] = @ + 1]
  /\ UNCHANGED <<phase, disposed, fatal, handle, proxyId, fds, attach, run,
                 guarded, closing, bridge, addon, engine, proxies, given>>

CloseFdWith(s, f, kept) ==
  /\ f \in fds[s] \ given /\ used[s] < MaxOps[s]
  /\ Serialize(s, "close", f)
  /\ fds' = [fds EXCEPT ![s] = @ \ ({f} \ kept)]
  /\ given' = given \cup {f}
  /\ used' = [used EXCEPT ![s] = @ + 1]
  /\ UNCHANGED <<phase, disposed, fatal, handle, proxyId, attach, run, guarded,
                 closing, bridge, addon, engine, proxies>>

(* Mutant: the fd stays in the set. *)
CloseFdKeeps(s, f) == CloseFdWith(s, f, {f})

(* closeFd, which an application calls once for an fd: it forgets the fd, *)
(* then queues its close.                                                 *)
CloseFd(s, f) == CloseFdWith(s, f, {})

(* close: its own loop over the fds only collects refusals of serialize. *)
Close(s) ==
  /\ phase[s] # "new" /\ s \notin disposed
  /\ disposed' = disposed \cup {s}
  /\ stage' = [stage EXCEPT ![s] = "idle"]
  /\ UNCHANGED <<phase, fatal, handle, proxyId, fds, attach, used, ops, left,
                 awaited, bridge, addon, engine, proxies, given>>

-----------------------------------------------------------------------------
(* native-session.ts *)

(* The constructor and boot: dead at once if an earlier session on this   *)
(* bridge died; the main process starts the kernel only once.             *)
Create(s) ==
  LET booted == \E t \in Sessions : phase[t] = "ready" IN
  /\ phase[s] = "new"
  /\ fatal' = IF dead THEN fatal \cup {s} ELSE fatal
  /\ phase' = [phase EXCEPT ![s] = IF dead \/ failed THEN "failed"
                                  ELSE IF booted THEN "ready" ELSE "init"]
  /\ calls' = IF dead \/ failed \/ booted THEN calls
              ELSE calls \cup {Call(s, "init", NoFd)}
  /\ UNCHANGED <<disposed, handle, proxyId, fds, attach, used, ops, closing,
                 answers, addon, engine, proxies, given>>

(* A call outlived the addon's own watchdog, the one of its QEMU thread:  *)
(* the host reports it to every session that listens, and the call may    *)
(* come back all the same.                                                *)
HostFatal ==
  /\ (wedged \/ calls # {}) /\ ~failed
  /\ failed' = TRUE
  /\ FireFatal({s \in Sessions : phase[s] # "new" /\ stage[s] # "done"} \ fatal)
  /\ UNCHANGED <<phase, disposed, handle, proxyId, fds, attach, used, queue,
                 stage, left, bridge, addon, proxies, given>>

(* An application attaches once at a time and awaits the outcome. *)
Attaching(s) ==
  \/ attach[s] # "idle" \/ run[s].kind \in Attaches
  \/ \E i \in DOMAIN queue[s] : queue[s][i].kind \in Attaches

MayAttach(s) ==
  /\ phase[s] = "ready" /\ s \notin disposed \cup handle /\ ~Attaching(s)
  /\ used[s] < MaxOps[s]

attachPath(s) ==
  /\ MayAttach(s)
  /\ Serialize(s, "path", NoFd)
  /\ used' = [used EXCEPT ![s] = @ + 1]
  /\ UNCHANGED <<phase, disposed, fatal, handle, proxyId, fds, attach, run,
                 guarded, closing, bridge, addon, engine, proxies, given>>

attachUrl(s) ==
  /\ MayAttach(s)
  /\ attach' = [attach EXCEPT ![s] = "starting"]
  /\ used' = [used EXCEPT ![s] = @ + 1]
  /\ UNCHANGED <<phase, disposed, fatal, handle, proxyId, fds, ops, closing,
                 bridge, addon, engine, proxies, given>>

(* startProxy answers; diskOpen is queued, or refused after close. *)
ProxyStarted(s) ==
  /\ attach[s] = "starting"
  /\ \/ /\ attach' = [attach EXCEPT ![s] = "idle"]
        /\ UNCHANGED <<proxies, proxyId, queue>>
     \/ /\ proxies' = proxies \cup {s} /\ proxyId' = proxyId \cup {s}
        /\ IF s \in disposed
           THEN attach' = [attach EXCEPT ![s] = "stopping"] /\ UNCHANGED queue
           ELSE /\ attach' = [attach EXCEPT ![s] = "opening"]
                /\ Serialize(s, "url", NoFd)
  /\ UNCHANGED <<phase, disposed, fatal, handle, fds, used, run, guarded,
                 closing, bridge, addon, engine, given>>

(* stopProxy answers, after a diskOpen that failed; when it throws, the   *)
(* id is kept.                                                            *)
AttachStopped(s) ==
  /\ attach[s] = "stopping"
  /\ attach' = [attach EXCEPT ![s] = "idle"]
  /\ proxies' = proxies \ {s}
  /\ proxyId' = proxyId \ {s} \/ UNCHANGED proxyId
  /\ UNCHANGED <<phase, disposed, fatal, handle, fds, used, ops, closing,
                 bridge, addon, engine, given>>

(* A bridge call settles; the sessions in "deaf" do not keep the result. *)
AnswerWith(a, deaf) ==
  LET s == a.s IN
  /\ a \in answers
  /\ answers' = answers \ {a}
  /\ phase' = IF a.kind # "init" THEN phase
              ELSE [phase EXCEPT ![s] = IF a.ok THEN "ready" ELSE "failed"]
  /\ handle' = IF a.kind \in Attaches /\ a.ok /\ s \notin deaf
               THEN handle \cup {s} ELSE handle
  /\ attach' = IF a.kind # "url" THEN attach
               ELSE [attach EXCEPT ![s] = IF a.ok THEN "idle" ELSE "stopping"]
  /\ fds' = IF a.kind = "open" /\ a.ok /\ s \in guarded \ deaf
            THEN [fds EXCEPT ![s] = @ \cup {a.fd}] ELSE fds
  /\ run' = IF a.kind \in Attaches \/ (a.kind \in Kinds /\ s \in guarded)
            THEN [run EXCEPT ![s] = None] ELSE run
  /\ guarded' = IF a.kind \in Kinds \ Attaches THEN guarded \ {s} ELSE guarded
  /\ awaited' = IF a.kind \in {"drop", "disk"} THEN awaited \ {s} ELSE awaited
  /\ UNCHANGED <<disposed, fatal, proxyId, used, queue, stage, left, calls,
                 addon, engine, proxies, given>>

(* Mutant: a session that is being closed does not take what arrives. *)
AnswerDropped(a) == AnswerWith(a, disposed)

(* The result is kept, unless guard has rejected the call already. *)
Answer(a) == AnswerWith(a, {})

-----------------------------------------------------------------------------
(* _dispose.  Its calls go straight to the bridge: only the wait for the   *)
(* queue keeps them apart from the operations.                             *)

StartDispose(s) ==
  /\ stage[s] = "idle"
  /\ stage' = [stage EXCEPT ![s] = "fds"] /\ left' = [left EXCEPT ![s] = fds[s]]
  /\ UNCHANGED <<session, ops, awaited, bridge, addon, engine, proxies, given>>

(* Mutant: it does not wait for the queue. *)
DisposeAtOnce(s) == StartDispose(s)

(* The queue drained, or the session died. *)
DisposeIdle(s) == (s \in fatal \/ Idle(s)) /\ StartDispose(s)

DisposeFd(s) ==
  /\ stage[s] = "fds" /\ s \notin awaited \cup fatal
  /\ \E f \in left[s] :
       /\ left' = [left EXCEPT ![s] = @ \ {f}]
       /\ calls' = calls \cup {Call(s, "drop", f)}
  /\ awaited' = awaited \cup {s}
  /\ UNCHANGED <<session, ops, stage, answers, addon, engine, proxies, given>>

(* What follows the disk: the proxy, if there is one. *)
AfterDisk(s) == IF s \in proxyId THEN "stopping" ELSE "done"

(* The fds are closed, or the session died: diskClose on a live engine. *)
DisposeDisk(s) ==
  /\ stage[s] = "fds" /\ s \notin awaited /\ (s \in fatal \/ left[s] = {})
  /\ IF s \in handle \ fatal
     THEN /\ calls' = calls \cup {Call(s, "disk", NoFd)}
          /\ awaited' = awaited \cup {s}
          /\ stage' = [stage EXCEPT ![s] = "disk"]
          /\ UNCHANGED handle
     ELSE /\ handle' = handle \ {s}
          /\ stage' = [stage EXCEPT ![s] = AfterDisk(s)]
          /\ UNCHANGED <<calls, awaited>>
  /\ UNCHANGED <<phase, disposed, fatal, proxyId, fds, attach, used, ops, left,
                 answers, addon, engine, proxies, given>>

DisposeDiskDone(s) ==
  /\ stage[s] = "disk" /\ s \notin awaited
  /\ handle' = handle \ {s}
  /\ stage' = [stage EXCEPT ![s] = AfterDisk(s)]
  /\ UNCHANGED <<phase, disposed, fatal, proxyId, fds, attach, used, ops, left,
                 awaited, bridge, addon, engine, proxies, given>>

(* stopProxy answers or throws: close returns. *)
DisposeStopped(s) ==
  /\ stage[s] = "stopping"
  /\ stage' = [stage EXCEPT ![s] = "done"]
  /\ proxies' = proxies \ {s} /\ proxyId' = proxyId \ {s}
  /\ UNCHANGED <<phase, disposed, fatal, handle, fds, attach, used, ops, left,
                 awaited, bridge, addon, engine, given>>

-----------------------------------------------------------------------------
(* The addon: one call at a time, in the order its threads get the mutex. *)

Result(c, ok, fd) ==
  answers' = answers \cup {[s |-> c.s, kind |-> c.kind, fd |-> fd, ok |-> ok]}

Serve(c) ==
  /\ c \in calls /\ ~wedged
  /\ calls' = calls \ {c}
  /\ \/ /\ c.kind \in {"init", "open"} \cup Attaches
        /\ Result(c, FALSE, NoFd)
        /\ UNCHANGED <<disk, kfds, given>>
     \/ /\ c.kind \in {"init", "op"}
        /\ Result(c, TRUE, NoFd)
        /\ UNCHANGED <<disk, kfds, given>>
     \/ /\ c.kind \in Attaches
        /\ disk' = [disk EXCEPT ![c.s] = c.kind]
        /\ Result(c, TRUE, NoFd)
        /\ UNCHANGED <<kfds, given>>
     \/ /\ c.kind = "open"
        /\ \E f \in Fds \ UNION {kfds[t] : t \in Sessions} :
             /\ kfds' = [kfds EXCEPT ![c.s] = @ \cup {f}]
             /\ Result(c, TRUE, f)
        /\ UNCHANGED <<disk, given>>
     \/ /\ c.kind \in {"close", "drop"}
        /\ kfds' = [t \in Sessions |-> kfds[t] \ {c.fd}]
        /\ given' = given \ {c.fd}
        /\ Result(c, TRUE, NoFd)
        /\ UNCHANGED disk
     \/ /\ c.kind = "disk"
        /\ disk' = [disk EXCEPT ![c.s] = "none"]
        /\ Result(c, TRUE, NoFd)
        /\ UNCHANGED <<kfds, given>>
  /\ UNCHANGED <<session, ops, closing, wedged, engine, proxies>>

Wedge(c) ==
  /\ MayWedge /\ c \in calls /\ ~wedged
  /\ calls' = calls \ {c}
  /\ wedged' = TRUE
  /\ UNCHANGED <<session, ops, closing, answers, disk, kfds, engine, proxies,
                 given>>

-----------------------------------------------------------------------------
(* What a session does by itself, and what an application asks of it. *)
Steps(s) ==
  \/ Turn(s) \/ ProxyStarted(s) \/ AttachStopped(s)
  \/ DisposeIdle(s) \/ DisposeFd(s) \/ DisposeDisk(s) \/ DisposeDiskDone(s)
  \/ DisposeStopped(s)

Uses(s) ==
  \/ Create(s) \/ attachPath(s) \/ attachUrl(s) \/ Close(s)
  \/ CallOp(s, "open", NoFd)
  \/ \E f \in fds[s] \cup {NoFd} : CallOp(s, "op", f)
  \/ \E f \in fds[s] : CloseFd(s, f)

Served == \E c \in calls : Serve(c)
Answered == \E a \in answers : Answer(a)

Next ==
  \/ \E s \in Sessions : Steps(s) \/ Uses(s) \/ Timeout(s)
  \/ Served \/ Answered \/ HostFatal
  \/ \E c \in calls : Wedge(c)

Spec == Init /\ [][Next]_vars

(* Tasks get their turn, timers fire (opTimeoutMs is not 0), the main      *)
(* process and a healthy addon answer.  Nobody has to report a wedged      *)
(* engine: only a wait for the QEMU thread does, and onFatal is optional.  *)
(* Fairness of each kind of step, not of each session, is enough, as the   *)
(* work an application asks for is bounded.                                *)
FairSpec ==
  /\ Spec
  /\ WF_vars(\E s \in Sessions : Steps(s)) /\ WF_vars(\E s \in Sessions : Timeout(s))
  /\ WF_vars(Served \/ Answered)

-----------------------------------------------------------------------------
Results ==
  [s : Sessions, kind : Kinds \cup {"init", "drop", "disk"}, fd : Fds \cup {NoFd},
   ok : BOOLEAN]

TypeOK ==
  /\ phase \in [Sessions -> {"new", "init", "ready", "failed"}]
  /\ \A S \in {disposed, fatal, handle, proxyId, guarded, awaited, proxies} :
       S \subseteq Sessions
  /\ fds \in [Sessions -> SUBSET Fds] /\ kfds \in [Sessions -> SUBSET Fds]
  /\ left \in [Sessions -> SUBSET Fds] /\ given \subseteq Fds
  /\ \A s \in Sessions :
       /\ queue[s] \in Seq([kind : Kinds, fd : Fds \cup {NoFd}])
       /\ run[s] \in [kind : Kinds \cup {"none"}, fd : Fds \cup {NoFd}]
       /\ s \in guarded => run[s].kind \notin Attaches
  /\ attach \in [Sessions -> {"idle", "starting", "opening", "stopping"}]
  /\ stage \in [Sessions ->
                  {"open", "idle", "fds", "disk", "stopping", "done"}]
  /\ \A s \in Sessions : used[s] \in 0..MaxOps[s]
  /\ calls \subseteq [s : Sessions, kind : Kinds \cup {"init", "drop", "disk"},
                      fd : Fds \cup {NoFd}]
  /\ answers \subseteq Results
  /\ {dead, failed, wedged} \subseteq BOOLEAN
  /\ disk \in [Sessions -> {"none"} \cup Attaches]

(* "serialized (a slow readdir must not interleave with a pread on the     *)
(* same kernel)": the operations of a session and the calls of its close   *)
(* reach the addon one at a time.  serialize, guard and _dispose look      *)
(* again before every call: a session that died, or was made on a bridge   *)
(* whose engine had died, calls the addon no more.                         *)
CallsInTurn ==
  [][/\ \A c, d \in calls' : c.s = d.s => c = d
     /\ \A c \in calls' \ calls : c.s \notin fatal']_vars

(* _dispose: when diskClose is called, every fd the session opened is      *)
(* closed, also one whose open was still under way when close was called,  *)
(* except those the application had given to closeFd.                      *)
FdsBeforeDisk ==
  \A c \in calls : c.kind = "disk" => kfds[c.s] \subseteq given

(* An fd a session reads or closes is its own: a number the kernel has     *)
(* reused for another session is never touched.                            *)
OwnFd ==
  \A c \in calls : c.fd # NoFd => c.fd \in kfds[c.s]

(* A disk behind an HTTP proxy never loses the proxy while it is open in a *)
(* healthy session, whichever of attachUrl and close stops it.             *)
ProxyUnderDisk ==
  \A s \in Sessions \ fatal : disk[s] = "url" => s \in proxies

(* After close returned, a session that did not die leaves no disk open,   *)
(* also if an attach was under way, and no proxy it has not told to stop,  *)
(* unless attachUrl is about to.                                           *)
ClosedReleases ==
  \A s \in Sessions \ fatal : stage[s] = "done" =>
    disk[s] = "none" /\ (s \in proxies => attach[s] = "stopping")

(* A session is taken down in order and whole: fds, disk, proxy.           *)
TornDown == FdsBeforeDisk /\ ProxyUnderDisk /\ ClosedReleases

(* An attach has no watchdog: it waits in a wedged addon, or for its       *)
(* mutex, until the host reports it.                                       *)
StuckAttach(s) == wedged /\ s \notin fatal /\ run[s].kind \in Attaches

(* The watchdog: no operation of an attached session is waited for. *)
OpsSettled == \A s \in handle : Idle(s)

(* _dispose waits for the queue or the end of the engine: close returned,  *)
(* unless it came behind a stuck attach ("close() never queues behind a    *)
(* stuck op", session-base.ts, is not true of that one).                   *)
ClosesReturned == \A s \in disposed : stage[s] = "done" \/ StuckAttach(s)

(* No caller is left waiting for ever, neither for an operation nor for    *)
(* close, whatever the engine does and whether or not the host reports it, *)
(* but in the one case of an attach the addon never answers.               *)
Settles == []<>(OpsSettled /\ ClosesReturned)

(* "close() never queues behind a stuck op" (session-base.ts:278), not even *)
(* behind an attach.                                                       *)
ClosesNeverStuck == []<>(\A s \in disposed : stage[s] = "done")

(* "an fd left open keeps the mount busy, so diskClose would unbind the    *)
(* disk under a live mount" (native-session.ts): no fd of the session is   *)
(* open when diskClose is called.                                          *)
NoFdLeftOpen ==
  \A c \in calls : c.kind = "disk" => kfds[c.s] = {}
=============================================================================
