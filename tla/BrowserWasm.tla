------------------------------ MODULE BrowserWasm ------------------------------
(* The browser edition: a WasmSession on the page and the Web Worker that      *)
(* hosts the wasm module, which exchange messages.                             *)
(*                                                                             *)
(* Each side runs to completion: an action is one message, timer or call with  *)
(* the microtasks behind it.                                                   *)
EXTENDS Integers, Sequences

CONSTANTS Slots,     \* bound: calls of the application at the same time
          BootSlot   \* the slot prewarm uses for its boot call

VARIABLES
  ws,          \* the session: "none", "starting", "live", "closed"
  booted,      \* prewarm has returned the session
  wfatal,      \* workerError or fatalErr is set
  wcall,       \* the call of each slot, or "none"
  line,        \* opQueue: the slots in the order of their calls
  posted,      \* the first of the line is in `pending`
  wk,          \* the worker: "none", "loading", "ready", "gone"
  mail, out,   \* messages to and from the worker
  cur,         \* the step of the operation the worker is in
  hasM,        \* worker.ts: M is set
  diskHandle,  \* worker.ts: diskHandle >= 0
  work,        \* /work: "none", "dir", "mounted"
  disk         \* the engine has the image open

page == <<ws, booted, wfatal, wcall, line, posted>>
host == <<cur, hasM, diskHandle, work, disk>>
webvars == <<page, wk, mail, out, host>>

WebInit ==
  /\ ws = "none" /\ booted = FALSE /\ wfatal = FALSE
  /\ wcall = [c \in Slots |-> "none"] /\ line = <<>> /\ posted = FALSE
  /\ wk = "none" /\ mail = <<>> /\ out = <<>>
  /\ cur = "idle" /\ hasM = FALSE /\ diskHandle = FALSE /\ work = "none" /\ disk = FALSE

-----------------------------------------------------------------------------
(* index.ts: prewarm. *)

prewarm ==
  /\ ws = "none" /\ ws' = "starting" /\ wk' = "loading"
  /\ UNCHANGED <<booted, wfatal, wcall, line, posted, mail, out, host>>

(* The worker script is loaded, or cannot be. *)
workerLoads ==
  /\ wk = "loading" /\ wk' = "ready"
  /\ \E e \in {"host-ready", "host-error"} : out' = Append(out, e)
  /\ UNCHANGED <<page, mail, host>>

(* WasmSession.waitForReady, and the boot call that follows it; an error, or  *)
(* the timeout at any time, ends the worker.                                  *)
waitForReady ==
  /\ ws = "starting"
  /\ \/ /\ out # <<>> /\ Head(out) = "host-ready" /\ out' = Tail(out)
        /\ ws' = "live" /\ line' = <<BootSlot>>
        /\ wcall' = [wcall EXCEPT ![BootSlot] = "boot"]
        /\ UNCHANGED <<wk, mail>>
     \/ /\ ws' = "closed" /\ wk' = "gone" /\ out' = <<>> /\ mail' = <<>>
        /\ UNCHANGED <<line, wcall>>
  /\ UNCHANGED <<booted, wfatal, posted, host>>

-----------------------------------------------------------------------------
(* wasm-session.ts: the page. *)

(* attachBlob, attachUrl, and "op" for everything under the watchdog: enter,  *)
(* listParts, meta, readdir, stat, readlink, realpath, openFd and the rest.   *)
WebOps == {"attach", "attachUrl", "op"}

callRaw(c) ==
  /\ ws = "live" /\ booted /\ wcall[c] = "none"
  /\ \E op \in WebOps : wcall' = [wcall EXCEPT ![c] = op]
  /\ line' = Append(line, c)
  /\ UNCHANGED <<ws, booted, wfatal, posted, wk, mail, out, host>>

(* The first call of the line settles. *)
Settle ==
  /\ wcall' = [wcall EXCEPT ![Head(line)] = "none"]
  /\ line' = Tail(line) /\ posted' = FALSE

(* serialize: the turn of a call comes.  A dead or disposed session, and a     *)
(* message that cannot be posted, reject it.                                   *)
takeTurn ==
  /\ line # <<>> /\ ~posted
  /\ \/ /\ ws = "live" /\ ~wfatal
        /\ mail' = Append(mail, wcall[Head(line)]) /\ posted' = TRUE
        /\ UNCHANGED <<wcall, line>>
     \/ /\ Settle /\ UNCHANGED mail
  /\ UNCHANGED <<ws, booted, wfatal, wk, out, host>>

(* The session ends: the worker is terminated. *)
Terminate == ws' = "closed" /\ wk' = "gone" /\ mail' = <<>> /\ out' = <<>>

(* onMessage: a reply settles the call it is for, if anybody waits; a boot    *)
(* that failed ends the session.                                              *)
onReply ==
  /\ ws = "live" /\ out # <<>> /\ Head(out) \in {"ok", "err"}
  /\ \/ posted /\ Settle
     \/ ~posted /\ UNCHANGED <<wcall, line, posted>>
  /\ \/ /\ ~booted /\ Head(out) = "err" /\ Terminate /\ UNCHANGED booted
     \/ /\ booted \/ Head(out) = "ok"
        /\ booted' = TRUE /\ out' = Tail(out) /\ UNCHANGED <<ws, wk, mail>>
  /\ UNCHANGED <<wfatal, host>>

(* onMessage and onError: the worker is taken for lost.  Under prewarm the boot   *)
(* call rejects with the rest, and the session is closed.                      *)
onFatal ==
  /\ ws = "live" /\ out # <<>> /\ Head(out) = "abort"
  /\ wfatal' = TRUE
  /\ \/ posted /\ Settle
     \/ ~posted /\ UNCHANGED <<wcall, line, posted>>
  /\ \/ ~booted /\ Terminate
     \/ booted /\ out' = Tail(out) /\ UNCHANGED <<ws, wk, mail>>
  /\ UNCHANGED <<booted, host>>

(* guard: the watchdog of the operation under way. *)
opTimeout ==
  /\ posted /\ wcall[Head(line)] = "op"
  /\ wfatal' = TRUE /\ Settle
  /\ UNCHANGED <<ws, booted, wk, mail, out, host>>

(* AnyfsSessionBase.close and _dispose: the fds cannot be closed any more      *)
(* (serialize refuses), the worker is terminated, what is pending rejects.     *)
closeSession ==
  /\ ws = "live" /\ booted
  /\ Terminate
  /\ \/ posted /\ Settle
     \/ ~posted /\ UNCHANGED <<wcall, line, posted>>
  /\ UNCHANGED <<booted, wfatal, host>>

-----------------------------------------------------------------------------
(* worker.ts: one operation at a time (opChain). *)

Reply(r) == out' = Append(out, r) /\ cur' = "idle"

Next1(op) == /\ wk = "ready" /\ cur = "idle" /\ mail # <<>> /\ Head(mail) = op
             /\ mail' = Tail(mail)

(* boot, which prewarm sends once: M is set before KERNEL_INIT is asked for. *)
hostBoot ==
  /\ Next1("boot")
  /\ \/ Reply("err") /\ UNCHANGED hasM
     \/ hasM' = TRUE /\ cur' = "init" /\ UNCHANGED out
  /\ UNCHANGED <<page, wk, diskHandle, work, disk>>

(* attach and attachUrl up to SESSION_OPEN: refused without a kernel and with  *)
(* a disk; resetWorkFs, mkdir and mount, which may fail and is then undone.    *)
hostAttach(op) ==
  /\ Next1(op)
  /\ \/ Reply("err") /\ UNCHANGED work
     \/ hasM /\ ~diskHandle /\ work' = "mounted" /\ cur' = "open" /\ UNCHANGED out
     \/ hasM /\ ~diskHandle /\ work' = "none" /\ Reply("err")
  /\ UNCHANGED <<page, wk, hasM, diskHandle, disk>>

(* The other operations are one request each (or several that change nothing). *)
hostOp ==
  /\ Next1("op") /\ hasM
  /\ cur' = "run"
  /\ UNCHANGED <<page, wk, out, hasM, diskHandle, work, disk>>

(* Mutant: the failed attach keeps its mount. *)
hostWhyKeeps ==
  /\ wk = "ready" /\ cur = "why"
  /\ Reply("err")
  /\ UNCHANGED <<page, wk, mail, hasM, diskHandle, work, disk>>

(* A failed attach, once it knows why, detaches: the handle and /work go. *)
hostWhy ==
  /\ wk = "ready" /\ cur = "why"
  /\ diskHandle' = FALSE /\ work' = "none"
  /\ Reply("err")
  /\ UNCHANGED <<page, wk, mail, hasM, disk>>

(* The engine answers what the worker awaits. *)
hostAnswer ==
  /\ wk = "ready"
  /\ \/ /\ cur = "open"
        /\ \/ disk' = TRUE /\ diskHandle' = TRUE /\ Reply("ok")
           \/ cur' = "why" /\ UNCHANGED <<disk, diskHandle, out>>
     \/ /\ cur \in {"init", "run"}
        /\ \E r \in {"ok", "err"} : Reply(r)
        /\ UNCHANGED <<disk, diskHandle>>
  /\ UNCHANGED <<page, wk, mail, hasM, work>>

(* The module aborts: the page hears of it, the operation never ends. *)
hostAbort ==
  /\ wk = "ready" /\ hasM /\ cur # "stuck"
  /\ cur' = "stuck" /\ out' = Append(out, "abort")
  /\ UNCHANGED <<page, wk, mail, hasM, diskHandle, work, disk>>

(* An uncaught error or rejection in the worker, which goes on: for the page   *)
(* it is as bad.  Bound: one, as the page is deaf to a second.                 *)
hostError ==
  /\ wk = "ready" /\ ~wfatal /\ \A i \in 1 .. Len(out) : out[i] # "abort"
  /\ out' = Append(out, "abort")
  /\ UNCHANGED <<page, wk, mail, host>>

-----------------------------------------------------------------------------
WebNext ==
  \/ prewarm \/ workerLoads \/ waitForReady
  \/ \E c \in Slots : callRaw(c)
  \/ takeTurn \/ onReply \/ onFatal \/ opTimeout \/ closeSession
  \/ hostBoot \/ (\E op \in {"attach", "attachUrl"} : hostAttach(op)) \/ hostOp
  \/ hostWhy \/ hostAnswer \/ hostAbort \/ hostError

(* Promises settle, timers fire and messages arrive; nothing is assumed of    *)
(* the worker.                                                                *)
WebFairness ==
  /\ WF_webvars(takeTurn) /\ WF_webvars(onReply) /\ WF_webvars(onFatal)
  /\ WF_webvars(opTimeout) /\ WF_webvars(waitForReady)

WebSpec == WebInit /\ [][WebNext]_webvars /\ WebFairness

-----------------------------------------------------------------------------
(* worker.ts, attach: "Leave the worker reusable".  Between two operations a   *)
(* worker without a disk has nothing at /work and no image open in the engine, *)
(* and the mount an image is read through is never taken away under it.        *)
WorkerClean ==
  /\ wk = "ready" /\ cur = "idle" /\ ~diskHandle => work = "none" /\ ~disk
  /\ wk = "ready" /\ (disk \/ cur = "open") => work = "mounted"

(* Every call of the page settles, whatever the worker does: only a boot or    *)
(* an attach of a session that nobody closes may stay, and what queues behind. *)
WebCallsReturn ==
  \A c \in Slots :
    []<>(\/ wcall[c] = "none"
         \/ /\ ws = "live" /\ posted /\ wcall[Head(line)] # "op")
=============================================================================
