----------------------------- MODULE QemuThread -----------------------------
(***************************************************************************)
(* The dedicated QEMU thread (core/qemu_thread.c) and the block backend    *)
(* that is its only client (core/qemu_backend.c), driven by the threads of *)
(* the process: API callers adding and removing disks, LKL kernel threads  *)
(* issuing block requests, and whoever shuts the process down.             *)
(*                                                                         *)
(* A call lives on its caller's stack: the caller schedules a bottom half  *)
(* that points at it and blocks on the call's semaphore.  A call is        *)
(* therefore named by its thread.  The QEMU thread moves the scheduled     *)
(* bottom halves to a slice and runs the slice; a plain function runs to   *)
(* its end but may poll meanwhile (blk_new_open and blk_unref do), which   *)
(* runs other bottom halves on top of it: "stack" holds the functions in   *)
(* progress.  A coroutine either finishes inside its bottom half or        *)
(* yields, and is then resumed by a later poll.                            *)
(***************************************************************************)
EXTENDS Naturals, Sequences, FiniteSets, Functions

CONSTANTS
  Threads,      \* threads other than the QEMU thread
  NoThread,     \* no owner of g_start_lock
  Disks         \* image handles

ASSUME NoThreadAssumption == NoThread \notin Threads

(* The bottom half qemu_thread_stop schedules. *)
StopBh == NoThread

VARIABLES
  orderly,           \* of this process: it shuts down only after the last disk
                     \* was removed and with no other call under way, as
                     \* anyfs_kernel_halt's users do, and its QEMU thread
                     \* never stops making progress
  g_state,           \* QT_IDLE, QT_RUNNING, QT_FAILED or QT_STOPPED
  g_start_lock,      \* its owner while that owner blocks, or NoThread
  g_ready, g_stopped, \* semaphore counts
  g_stop_requested,
  spawned,           \* QEMU threads created so far
  qpc,               \* where the QEMU thread is
  hung,              \* it stopped making progress
  bhs, slice,        \* scheduled bottom halves; those being run by a poll
  stack,             \* plain functions in progress, innermost first
  inflight,          \* coroutines that yielded
  done,              \* calls whose semaphore is posted
  fatal,             \* anyfs_fatal was called
  blks,              \* BlockBackends that exist inside QEMU
  added,             \* disks LKL knows, and may send requests for
  pc, op, disk,      \* of each thread
  warned,            \* threads whose current wait outlived the watchdog
  halted,            \* some qemu_thread_stop returned
  late               \* threads whose operation began after that

qvars == <<spawned, qpc, hung, slice, stack, inflight, g_stop_requested>>
syncs == <<g_state, g_start_lock, g_ready, g_stopped>>
callers == <<pc, op, disk, warned, late>>
moves == <<qvars, syncs, callers, bhs, done, fatal, blks, added, halted>>
vars == <<orderly, moves>>

States == {"IDLE", "RUNNING", "FAILED", "STOPPED"}
Ops == {"open", "io", "close", "stop"}
Labels == {"idle", "start", "ready", "call", "schedule", "done", "add",
           "remove", "stop", "stopped"}

(* Everything the QEMU thread still holds a pointer to. *)
Held == (bhs \cup slice \cup inflight \cup Range(stack))
          \ {StopBh}

Init ==
  /\ orderly \in BOOLEAN
  /\ g_state = "IDLE" /\ g_start_lock = NoThread
  /\ g_ready = 0 /\ g_stopped = 0 /\ g_stop_requested = FALSE
  /\ spawned = 0 /\ qpc = "none" /\ hung = FALSE
  /\ bhs = {} /\ slice = {} /\ stack = <<>> /\ inflight = {} /\ done = {}
  /\ fatal = FALSE /\ blks = {} /\ added = {}
  /\ pc = [t \in Threads |-> "idle"]
  /\ op = [t \in Threads |-> "stop"] /\ disk \in [Threads -> Disks]
  /\ warned = {} /\ halted = FALSE /\ late = {}

-----------------------------------------------------------------------------
(* What the threads of the process ask for. *)

Goto(t, label) == pc' = [pc EXCEPT ![t] = label]

Begin(t, o, d, label) ==
  /\ pc[t] = "idle"
  /\ Goto(t, label)
  /\ op' = [op EXCEPT ![t] = o]
  /\ disk' = [disk EXCEPT ![t] = d]
  /\ late' = IF halted THEN late \cup {t} ELSE late \ {t}
  /\ UNCHANGED <<qvars, syncs, warned, bhs, done, fatal, blks, added, halted>>

(* With an orderly shutdown nothing else is going on meanwhile. *)
Stopping == \E t \in Threads : pc[t] # "idle" /\ op[t] = "stop"

Active(d) == {t \in Threads : pc[t] # "idle" /\ op[t] # "stop" /\ disk[t] = d}

(* anyfs_disk_add hands a fresh handle to qemu_blk_open; the slot it has  *)
(* picked before, without a lock, is in Backends.                         *)
DiskAdd(t) ==
  /\ ~(orderly /\ Stopping)
  /\ \E d \in Disks : /\ d \notin blks \cup added /\ Active(d) = {}
                      /\ Begin(t, "open", d, "start")

(* No caller of anyfs_disk_remove is busy with d. *)
Kept(d) == \A u \in Active(d) : op[u] = "io"

(* An LKL thread sends a request to a disk LKL knows and is not removing. *)
Request(t) ==
  /\ ~(orderly /\ Stopping)
  /\ \E d \in added : Kept(d) /\ Begin(t, "io", d, "call")

(* anyfs_disk_remove; a disk is removed by one caller. *)
DiskRemove(t) ==
  /\ ~(orderly /\ Stopping)
  /\ \E d \in added : Kept(d) /\ Begin(t, "close", d, "remove")

(* qemu_backend_shutdown, from anyfs_kernel_halt or atexit. *)
Shutdown(t) ==
  /\ orderly => added = {} /\ \A u \in Threads : pc[u] = "idle"
  /\ Begin(t, "stop", disk[t], "stop")

-----------------------------------------------------------------------------
(* qemu_thread_start, qemu_thread_stop, run_on_thread on a caller. *)

(* Mutant: a start that failed is tried again. *)
AfterStartRetries == IF g_state = "RUNNING" THEN "call" ELSE "start"

(* A failed or stopped thread fails the open: both are for good. *)
AfterStart == IF g_state = "RUNNING" THEN "call" ELSE "idle"

Start(t) ==
  /\ pc[t] = "start" /\ g_start_lock = NoThread
  /\ \/ /\ g_state = "IDLE"
        /\ spawned' = spawned + 1 /\ qpc' = "init"
        /\ g_start_lock' = t
        /\ Goto(t, "ready")
     \/ /\ g_state # "IDLE"
        /\ Goto(t, AfterStart)
        /\ UNCHANGED <<spawned, qpc, g_start_lock>>
  /\ UNCHANGED <<hung, slice, stack, inflight, g_stop_requested, g_state,
                 g_ready, g_stopped, op, disk, warned, late, bhs, done, fatal,
                 blks, added, halted>>

StartReady(t) ==
  /\ pc[t] = "ready" /\ g_ready > 0
  /\ g_ready' = g_ready - 1
  /\ g_start_lock' = NoThread
  /\ warned' = warned \ {t}
  /\ Goto(t, AfterStart)
  /\ UNCHANGED <<qvars, g_state, g_stopped, op, disk, late, bhs, done, fatal,
                 blks, added, halted>>

(* run_on_thread returns -1 unless the thread runs: the open fails, the   *)
(* request fails with IOERR, the close only frees its context.            *)
Check(t) ==
  /\ pc[t] = "call"
  /\ Goto(t, IF g_state = "RUNNING" THEN "schedule" ELSE "idle")
  /\ UNCHANGED <<qvars, syncs, op, disk, warned, late, bhs, done, fatal, blks,
                 added, halted>>

Schedule(t) ==
  /\ pc[t] = "schedule"
  /\ bhs' = bhs \cup {t}
  /\ Goto(t, "done")
  /\ UNCHANGED <<qvars, syncs, op, disk, warned, late, done, fatal, blks,
                 added, halted>>

(* The call's semaphore was posted: run_on_thread returns 0, and a        *)
(* successful open goes on to lkl_disk_add.                               *)
Finish(t) ==
  /\ pc[t] = "done" /\ t \in done
  /\ done' = done \ {t}
  /\ warned' = warned \ {t}
  /\ Goto(t, IF op[t] = "open" /\ disk[t] \in blks THEN "add" ELSE "idle")
  /\ UNCHANGED <<qvars, syncs, op, disk, late, bhs, fatal, blks, added, halted>>

(* Mutant: a failed lkl_disk_add forgets the backend it opened. *)
LklDiskAddForgets(t) ==
  /\ pc[t] = "add"
  /\ \/ added' = added \cup {disk[t]} /\ Goto(t, "idle") /\ UNCHANGED op
     \/ Goto(t, "idle") /\ UNCHANGED <<added, op>>
  /\ UNCHANGED <<qvars, syncs, disk, warned, late, bhs, done, fatal, blks,
                 halted>>

(* lkl_disk_add; when it fails the backend is closed again. *)
LklDiskAdd(t) ==
  /\ pc[t] = "add"
  /\ \/ added' = added \cup {disk[t]} /\ Goto(t, "idle") /\ UNCHANGED op
     \/ /\ op' = [op EXCEPT ![t] = "close"]
        /\ Goto(t, "call")
        /\ UNCHANGED added
  /\ UNCHANGED <<qvars, syncs, disk, warned, late, bhs, done, fatal, blks,
                 halted>>

(* Mutant: the backend is closed first, while LKL still knows the disk. *)
LklDiskRemoveLate(t) ==
  /\ pc[t] = "remove"
  /\ added' = added \ {disk[t]}
  /\ Goto(t, "call")
  /\ UNCHANGED <<qvars, syncs, op, disk, warned, late, bhs, done, fatal, blks,
                 halted>>

(* lkl_disk_remove returns once the last request of the disk ended; only  *)
(* then does anyfs_disk_remove close the backend.                         *)
LklDiskRemove(t) ==
  /\ pc[t] = "remove"
  /\ Active(disk[t]) = {t}
  /\ added' = added \ {disk[t]}
  /\ Goto(t, "call")
  /\ UNCHANGED <<qvars, syncs, op, disk, warned, late, bhs, done, fatal, blks,
                 halted>>

Stop(t) ==
  /\ pc[t] = "stop" /\ g_start_lock = NoThread
  /\ CASE g_state = "RUNNING" ->
            /\ g_state' = "STOPPED" /\ bhs' = bhs \cup {StopBh}
            /\ g_start_lock' = t
            /\ Goto(t, "stopped") /\ UNCHANGED halted
       [] g_state = "IDLE" ->
            /\ g_state' = "STOPPED" /\ halted' = TRUE
            /\ Goto(t, "idle") /\ UNCHANGED <<bhs, g_start_lock>>
       [] OTHER -> /\ halted' = (halted \/ g_state = "STOPPED")
                   /\ Goto(t, "idle")
                   /\ UNCHANGED <<g_state, bhs, g_start_lock>>
  /\ UNCHANGED <<qvars, g_ready, g_stopped, op, disk, warned, late, done,
                 fatal, blks, added>>

StopDone(t) ==
  /\ pc[t] = "stopped" /\ g_stopped > 0
  /\ g_stopped' = g_stopped - 1
  /\ g_start_lock' = NoThread
  /\ halted' = TRUE
  /\ warned' = warned \ {t}
  /\ Goto(t, "idle")
  /\ UNCHANGED <<qvars, g_state, g_ready, op, disk, late, bhs, done, fatal,
                 blks, added>>

(* Whether the semaphore t waits on is posted. *)
Posted(t) == CASE pc[t] = "ready" -> g_ready > 0
               [] pc[t] = "stopped" -> g_stopped > 0
               [] pc[t] = "done" -> t \in done

Waits(t) == pc[t] \in {"ready", "stopped", "done"}

(* Mutant: the caller gives up when the watchdog fires. *)
TimeoutReturns(t) ==
  /\ Waits(t) /\ ~Posted(t) /\ t \notin warned
  /\ fatal' = TRUE
  /\ Goto(t, "idle")
  /\ UNCHANGED <<qvars, syncs, op, disk, warned, late, bhs, done, blks, added,
                 halted>>

(* Mutant: only the waits of run_on_thread are watched. *)
TimeoutOfCalls(t) ==
  /\ pc[t] = "done" /\ ~Posted(t) /\ t \notin warned
  /\ warned' = warned \cup {t}
  /\ fatal' = TRUE
  /\ UNCHANGED <<qvars, syncs, pc, op, disk, late, bhs, done, blks, added,
                 halted>>

(* wait_done: the watchdog fires, reports, and the thread waits on. *)
Timeout(t) ==
  /\ Waits(t) /\ ~Posted(t) /\ t \notin warned
  /\ warned' = warned \cup {t}
  /\ fatal' = TRUE
  /\ UNCHANGED <<qvars, syncs, pc, op, disk, late, bhs, done, blks, added,
                 halted>>

-----------------------------------------------------------------------------
(* qemu_thread_fn and what it runs. *)

(* Initialisation succeeds, or fails for good. *)
QInit ==
  /\ qpc = "init" /\ ~hung
  /\ \/ g_state' = "RUNNING" /\ qpc' = "loop"
     \/ g_state' = "FAILED" /\ qpc' = "gone"
  /\ g_ready' = g_ready + 1
  /\ UNCHANGED <<spawned, hung, slice, stack, inflight, g_stop_requested,
                 g_start_lock, g_stopped, callers, bhs, done, fatal, blks,
                 added, halted>>

Looping == qpc = "loop" /\ ~hung

(* aio_poll takes what is scheduled: from the loop, or from a function in *)
(* progress that polls.                                                   *)
Poll ==
  /\ Looping /\ bhs # {}
  /\ stack # <<>> \/ (slice = {} /\ ~g_stop_requested)
  /\ slice' = slice \cup bhs
  /\ bhs' = {}
  /\ UNCHANGED <<spawned, qpc, hung, stack, inflight, g_stop_requested, syncs,
                 callers, done, fatal, blks, added, halted>>

(* qt_call_bh enters open_fn or close_fn. *)
RunFn(t) ==
  /\ Looping /\ t \in slice /\ op[t] \in {"open", "close"}
  /\ slice' = slice \ {t}
  /\ stack' = <<t>> \o stack
  /\ UNCHANGED <<spawned, qpc, hung, inflight, g_stop_requested, syncs,
                 callers, bhs, done, fatal, blks, added, halted>>

(* The innermost function returns and its call is posted: open_fn leaves  *)
(* a backend or none, close_fn drops it.                                  *)
FnDone(t) ==
  /\ Looping /\ stack # <<>> /\ t = Head(stack)
  /\ blks' \in IF op[t] = "open" THEN {blks, blks \cup {disk[t]}}
                                 ELSE {blks \ {disk[t]}}
  /\ done' = done \cup {t}
  /\ stack' = Tail(stack)
  /\ UNCHANGED <<spawned, qpc, hung, slice, inflight, g_stop_requested, syncs,
                 callers, bhs, fatal, added, halted>>

(* qt_call_bh enters io_co, which finishes or yields. *)
RunCo(t) ==
  /\ Looping /\ t \in slice /\ op[t] = "io"
  /\ slice' = slice \ {t}
  /\ \/ done' = done \cup {t} /\ UNCHANGED inflight
     \/ inflight' = inflight \cup {t} /\ UNCHANGED done
  /\ UNCHANGED <<spawned, qpc, hung, stack, g_stop_requested, syncs, callers,
                 bhs, fatal, blks, added, halted>>

(* A poll resumes a coroutine whose I/O completed; it runs to its end. *)
CoDone(t) ==
  /\ Looping /\ t \in inflight
  /\ inflight' = inflight \ {t}
  /\ done' = done \cup {t}
  /\ UNCHANGED <<spawned, qpc, hung, slice, stack, g_stop_requested, syncs,
                 callers, bhs, fatal, blks, added, halted>>

(* qt_stop_bh. *)
RunStop ==
  /\ Looping /\ StopBh \in slice
  /\ slice' = slice \ {StopBh}
  /\ g_stop_requested' = TRUE
  /\ UNCHANGED <<spawned, qpc, hung, stack, inflight, syncs, callers, bhs,
                 done, fatal, blks, added, halted>>

(* The loop ends after the poll that ran the stop bottom half. *)
Exit ==
  /\ Looping /\ g_stop_requested /\ slice = {} /\ stack = <<>>
  /\ qpc' = "gone"
  /\ g_stopped' = g_stopped + 1
  /\ UNCHANGED <<spawned, hung, slice, stack, inflight, g_stop_requested,
                 g_state, g_start_lock, g_ready, callers, bhs, done, fatal,
                 blks, added, halted>>

(* A stalled source or an endless loop in a driver. *)
Hang ==
  /\ ~orderly /\ ~hung /\ qpc \in {"init", "loop"}
  /\ hung' = TRUE
  /\ UNCHANGED <<spawned, qpc, slice, stack, inflight, g_stop_requested, syncs,
                 callers, bhs, done, fatal, blks, added, halted>>

-----------------------------------------------------------------------------
Ask(t) == DiskAdd(t) \/ Request(t) \/ DiskRemove(t) \/ Shutdown(t)

Work(t) == \/ Start(t) \/ StartReady(t) \/ Check(t) \/ Schedule(t) \/ Finish(t)
           \/ LklDiskAdd(t) \/ LklDiskRemove(t) \/ Stop(t) \/ StopDone(t)

Loop == \/ QInit \/ Poll \/ RunStop \/ Exit
        \/ \E t \in Threads : RunFn(t) \/ RunCo(t)

Next ==
  /\ \/ \E t \in Threads : Ask(t) \/ Work(t) \/ Timeout(t)
     \/ \E t \in Threads : FnDone(t) \/ CoDone(t)
     \/ Loop \/ Hang
  /\ UNCHANGED orderly

Spec == Init /\ [][Next]_vars

(* A thread inside an operation, and the QEMU thread unless it hangs, keep *)
(* running; timers fire; I/O completes, and a poll resumes every coroutine *)
(* and ends every nested wait whose I/O did (strong, since other bottom    *)
(* halves may run in between).                                             *)
FairSpec ==
  /\ Spec
  /\ WF_moves(Loop)
  /\ \A t \in Threads : WF_moves(Work(t)) /\ WF_moves(Timeout(t))
  /\ \A t \in Threads : SF_moves(FnDone(t)) /\ SF_moves(CoDone(t))

-----------------------------------------------------------------------------
(* Every variable ranges over the values the code can give it; in         *)
(* particular at most one QEMU thread and one posted g_ready or g_stopped  *)
(* ever exist.                                                             *)
TypeOK ==
  /\ orderly \in BOOLEAN
  /\ g_state \in States
  /\ g_start_lock \in Threads \cup {NoThread}
  /\ g_ready \in 0..1 /\ g_stopped \in 0..1
  /\ g_stop_requested \in BOOLEAN /\ spawned \in 0..1
  /\ qpc \in {"none", "init", "loop", "gone"} /\ hung \in BOOLEAN
  /\ bhs \subseteq Threads \cup {StopBh} /\ slice \subseteq Threads \cup {StopBh}
  /\ stack \in Seq(Threads) /\ inflight \subseteq Threads /\ done \subseteq Threads
  /\ fatal \in BOOLEAN /\ blks \subseteq Disks /\ added \subseteq Disks
  /\ pc \in [Threads -> Labels] /\ op \in [Threads -> Ops]
  /\ disk \in [Threads -> Disks]
  /\ warned \subseteq Threads /\ halted \in BOOLEAN /\ late \subseteq Threads

(* "Returning early could corrupt memory later" (qemu_thread.c:9): while   *)
(* the QEMU thread holds a call, queued, running or yielded, its owner is  *)
(* still blocked in wait_done and the call's stack frame and buffers are   *)
(* alive, whatever the watchdog, the stop and nested polls do.             *)
CallerWaits == \A t \in Held : pc[t] = "done" /\ t \notin done

(* Whatever QEMU runs or will run for a request or a close works on a      *)
(* backend that still exists: blk_unref never overtakes a request.         *)
LiveBackend ==
  \A t \in Held : op[t] \in {"io", "close"} => disk[t] \in blks

(* "Later calls fail fast" (qemu_thread.h): an operation that began after  *)
(* a qemu_thread_stop returned never gets as far as scheduling work.       *)
LateCallsFail ==
  \A t \in late : pc[t] \notin {"ready", "schedule", "done", "add", "stopped"}

(* A thread is created once, and QT_FAILED and QT_STOPPED are for ever:    *)
(* neither a stop that meets a start nor a start that meets a stop revives *)
(* or doubles the QEMU thread.                                             *)
StickyEnd ==
  [][/\ g_state \in {"FAILED", "STOPPED"} => g_state' = g_state
     /\ spawned = 1 => spawned' = 1]_vars

(* A backend exists only for a disk LKL knows or an operation under way:   *)
(* every path of anyfs_disk_add and anyfs_disk_remove gives it back when   *)
(* the process shuts down in the documented order.                         *)
NoBackendLeak == orderly => \A d \in blks : d \in added \/ Active(d) # {}

(* "Never a silent hang": an operation ends, or a fatal error is reported, *)
(* even if the QEMU thread hangs at any point or a stop meets a call.      *)
NoSilentHang ==
  \A t \in Threads : pc[t] # "idle" ~> pc[t] = "idle" \/ fatal

(* With a QEMU thread that does not hang and an orderly shutdown every     *)
(* operation returns; no call is left behind by the end of the loop.       *)
CallsReturn == \A t \in Threads : orderly /\ pc[t] # "idle" ~> pc[t] = "idle"
=============================================================================
