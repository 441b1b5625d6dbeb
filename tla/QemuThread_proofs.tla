------------------------- MODULE QemuThread_proofs -------------------------
(***************************************************************************)
(* What QemuThread guarantees for any number of threads and disks.         *)
(*                                                                         *)
(* The argument has layers, each an inductive strengthening that uses the  *)
(* ones before it: the life cycle of the QEMU thread (Lifecycle), the      *)
(* labels each kind of operation passes through (Roles), the hand-off of a *)
(* call between its owner and the QEMU thread (Handoff), who may touch a   *)
(* BlockBackend (Backends), what a stop leaves behind (Halting), and what  *)
(* the documented shutdown order adds to all of them (InOrder).            *)
(***************************************************************************)
EXTENDS QemuThread, TLAPS

\* A leaf that names no prover is for Zenon.
USE ZenonT(60)

(* The QEMU thread is created by the holder of g_start_lock, who keeps the *)
(* lock until g_ready is posted; the state leaves QT_IDLE once.            *)
Lifecycle ==
  /\ qpc = "none" <=> spawned = 0
  /\ qpc = "init" => /\ g_state = "IDLE" /\ g_ready = 0
                     /\ g_start_lock # NoThread
  /\ g_state = "IDLE" => qpc \in {"none", "init"} /\ g_ready = 0
  /\ g_stopped = 1 => qpc = "gone"

(* The labels of each kind of operation. *)
Roles ==
  \A t \in Threads :
    pc[t] \in {"idle"} \cup
      CASE op[t] = "open" -> {"start", "ready", "call", "schedule", "done", "add"}
        [] op[t] = "io" -> {"call", "schedule", "done"}
        [] op[t] = "close" -> {"remove", "call", "schedule", "done"}
        [] op[t] = "stop" -> {"stop", "stopped"}

(* A call is in one place at a time: scheduled, in the slice, yielded, on  *)
(* the stack, or posted, and only while its owner waits for it.            *)
Handoff ==
  /\ CallerWaits
  /\ \A t \in done : pc[t] = "done"
  /\ IsInjective(stack)
  /\ \A t \in Range(stack) : op[t] # "io"
  /\ \A t \in Threads :
       /\ t \in bhs => t \notin slice \cup inflight \cup Range(stack)
       /\ t \in slice => t \notin inflight \cup Range(stack)
       /\ t \in inflight => t \notin Range(stack)

(* Every disk LKL knows has a backend; opening and closing exclude every   *)
(* other operation on the disk, requests keep it known to LKL.             *)
Backends ==
  /\ added \subseteq blks
  /\ \A t \in Threads :
       /\ pc[t] = "add" => disk[t] \in blks
       /\ op[t] = "io" /\ pc[t] # "idle" => disk[t] \in added
       /\ pc[t] = "remove" => disk[t] \in added
       /\ op[t] = "close" /\ pc[t] # "idle" /\ t \notin done => disk[t] \in blks
       /\ \/ pc[t] = "idle" \/ op[t] \in {"io", "stop"} \/ pc[t] = "remove"
          \/ disk[t] \notin added
       /\ \A u \in Threads :
            u # t /\ pc[t] # "idle" /\ pc[u] # "idle" /\ disk[t] = disk[u] =>
              \/ op[t] \in {"io", "stop"} \/ op[u] = "stop"
              \/ pc[t] = "remove" /\ op[u] = "io"

(* Once a stop has returned the state is QT_STOPPED. *)
Halting ==
  /\ halted => g_state = "STOPPED"
  /\ late # {} => halted
  /\ \A t \in Threads : pc[t] = "stopped" => g_state = "STOPPED"
  /\ LateCallsFail

(* With the documented shutdown order: a stop is alone and meets no        *)
(* backend, and while the thread does not run no operation is past its     *)
(* start.                                                                  *)
InOrder ==
  /\ NoBackendLeak
  /\ \A t \in Threads : t \in done /\ op[t] = "close" => disk[t] \notin blks
  /\ \A t \in inflight : op[t] = "io"
  /\ orderly =>
       /\ Stopping => blks = {} /\ \A u \in Threads : pc[u] # "idle" => op[u] = "stop"
       /\ g_state # "RUNNING" =>
            /\ blks = {}
            /\ \A u \in Threads : op[u] # "stop" => pc[u] \in {"idle", "start", "ready"}

-----------------------------------------------------------------------------
(* Pushing a call on the stack and popping the innermost one. *)
LEMMA PushPop ==
  ASSUME NEW S, NEW s \in Seq(S), NEW e \in S
  PROVE  /\ <<e>> \o s \in Seq(S)
         /\ Range(<<e>> \o s) = {e} \cup Range(s)
         /\ IsInjective(s) /\ e \notin Range(s) => IsInjective(<<e>> \o s)
         /\ s # <<>> =>
              /\ Head(s) \in Range(s) /\ Tail(s) \in Seq(S)
              /\ Range(Tail(s)) \subseteq Range(s)
              /\ IsInjective(s) => /\ IsInjective(Tail(s))
                                   /\ Range(Tail(s)) = Range(s) \ {Head(s)}
<1> DEFINE p == <<e>> \o s
           q == Tail(s)
<1>1. /\ p \in Seq(S) /\ Len(p) = Len(s) + 1
      /\ p[1] = e /\ \A i \in 1..Len(s) : p[i + 1] = s[i]
  BY SMTT(60)
<1>2. \A i \in DOMAIN p : i = 1 \/ (i - 1 \in 1..Len(s) /\ p[i] = s[i - 1])
  BY <1>1, SMTT(60)
<1>3. Range(p) = {e} \cup Range(s)
  <2>1. Range(p) \subseteq {e} \cup Range(s)
    BY <1>1, <1>2, SMTT(60) DEF Range
  <2>2. e \in Range(p)
    BY <1>1, SMTT(60) DEF Range
  <2>3. ASSUME NEW i \in DOMAIN s PROVE s[i] \in Range(p)
    <3>1. i + 1 \in DOMAIN p /\ p[i + 1] = s[i]
      BY <1>1, SMTT(60)
    <3> QED
      BY <3>1 DEF Range
  <2> QED
    BY <2>1, <2>2, <2>3 DEF Range
<1>4. ASSUME IsInjective(s), e \notin Range(s) PROVE IsInjective(p)
  <2> SUFFICES ASSUME NEW i \in DOMAIN p, NEW j \in DOMAIN p, p[i] = p[j]
               PROVE  i = j
    BY DEF IsInjective
  <2>1. i \in Nat /\ j \in Nat
    BY <1>1, SMTT(60)
  <2>2. CASE i = 1
    BY <2>2, <1>1, <1>2, <1>4, SMTT(60) DEF Range
  <2>3. CASE j = 1
    BY <2>3, <1>1, <1>2, <1>4, SMTT(60) DEF Range
  <2>4. CASE i # 1 /\ j # 1
    <3>1. i - 1 \in DOMAIN s /\ j - 1 \in DOMAIN s /\ s[i - 1] = s[j - 1]
      BY <2>4, <1>2, SMTT(60)
    <3>2. i - 1 = j - 1
      BY <3>1, <1>4 DEF IsInjective
    <3> QED
      BY <3>2, <2>1, SMTT(60)
  <2> QED
    BY <2>2, <2>3, <2>4
<1>5. ASSUME s # <<>>
      PROVE  /\ Head(s) \in Range(s) /\ q \in Seq(S)
             /\ Range(q) \subseteq Range(s)
             /\ IsInjective(s) => /\ IsInjective(q)
                                  /\ Range(q) = Range(s) \ {Head(s)}
  <2>1. /\ q \in Seq(S) /\ Len(q) = Len(s) - 1 /\ Len(s) > 0 /\ Head(s) = s[1]
        /\ \A i \in 1..Len(q) : q[i] = s[i + 1] /\ i + 1 \in DOMAIN s
    BY <1>5, SMTT(60)
  <2>2. Head(s) \in Range(s)
    BY <2>1, SMTT(60) DEF Range
  <2>3. Range(q) \subseteq Range(s)
    BY <2>1, SMTT(60) DEF Range
  <2>4. ASSUME IsInjective(s) PROVE IsInjective(q) /\ Head(s) \notin Range(q)
    <3>1. ASSUME NEW i \in DOMAIN q, NEW j \in DOMAIN q, q[i] = q[j]
          PROVE  i = j
      <4>1. i + 1 = j + 1
        BY <2>1, <2>4, <3>1, SMTT(60) DEF IsInjective
      <4> QED
        BY <4>1, <2>1, SMTT(60)
    <3>2. ASSUME NEW i \in DOMAIN q PROVE q[i] # Head(s)
      <4>1. i + 1 # 1 /\ 1 \in DOMAIN s
        BY <2>1, SMTT(60)
      <4> QED
        BY <4>1, <2>1, <2>4, SMTT(60) DEF IsInjective
    <3> QED
      BY <3>1, <3>2 DEF IsInjective, Range
  <2>5. ASSUME NEW i \in DOMAIN s, s[i] # Head(s) PROVE s[i] \in Range(q)
    <3>1. i - 1 \in DOMAIN q /\ q[i - 1] = s[i]
      BY <2>1, <2>5, SMTT(60)
    <3> QED
      BY <3>1 DEF Range
  <2>6. Range(s) \ {Head(s)} \subseteq Range(q)
    BY <2>5 DEF Range
  <2> QED
    BY <2>1, <2>2, <2>3, <2>4, <2>6
<1> QED
  BY <1>1, <1>3, <1>4, <1>5

(* The life cycle keeps the counters of the type invariant in range. *)
LEMMA TypeStep == TypeOK /\ Lifecycle /\ [Next]_vars => TypeOK'
<1> SUFFICES ASSUME TypeOK, Lifecycle, [Next]_vars PROVE TypeOK'
  OBVIOUS
<1>0. orderly' = orderly
  BY DEF Next, vars
<1> USE <1>0, NoThreadAssumption DEF TypeOK, States, Ops, Labels, StopBh,
        vars, moves, qvars, syncs, callers
<1>1. ASSUME NEW t \in Threads, DiskAdd(t) PROVE TypeOK'
  BY <1>1, SMTT(60) DEF DiskAdd, Begin, Goto
<1>2. ASSUME NEW t \in Threads, Request(t) PROVE TypeOK'
  BY <1>2, SMTT(60) DEF Request, Begin, Goto
<1>3. ASSUME NEW t \in Threads, DiskRemove(t) PROVE TypeOK'
  BY <1>3, SMTT(60) DEF DiskRemove, Begin, Goto
<1>4. ASSUME NEW t \in Threads, Shutdown(t) PROVE TypeOK'
  BY <1>4 DEF Shutdown, Begin, Goto
<1>5. ASSUME NEW t \in Threads, Start(t) PROVE TypeOK'
  BY <1>5, SMTT(60) DEF Start, Goto, AfterStart, Lifecycle
<1>6. ASSUME NEW t \in Threads, StartReady(t) PROVE TypeOK'
  BY <1>6, SMTT(60) DEF StartReady, Goto, AfterStart
<1>7. ASSUME NEW t \in Threads, Check(t) PROVE TypeOK'
  BY <1>7 DEF Check, Goto
<1>8. ASSUME NEW t \in Threads, Schedule(t) PROVE TypeOK'
  BY <1>8, SMTT(60) DEF Schedule, Goto
<1>9. ASSUME NEW t \in Threads, Finish(t) PROVE TypeOK'
  BY <1>9, SMTT(60) DEF Finish, Goto
<1>10. ASSUME NEW t \in Threads, LklDiskAdd(t) PROVE TypeOK'
  <2>1. pc' \in [Threads -> Labels] /\ op' \in [Threads -> Ops]
    BY <1>10 DEF LklDiskAdd, Goto
  <2>2. added' \subseteq Disks
    BY <1>10, SMTT(60) DEF LklDiskAdd
  <2> QED
    BY <1>10, <2>1, <2>2 DEF LklDiskAdd
<1>11. ASSUME NEW t \in Threads, LklDiskRemove(t) PROVE TypeOK'
  BY <1>11 DEF LklDiskRemove, Goto
<1>12. ASSUME NEW t \in Threads, Stop(t) PROVE TypeOK'
  BY <1>12 DEF Stop, Goto
<1>13. ASSUME NEW t \in Threads, StopDone(t) PROVE TypeOK'
  BY <1>13, SMTT(60) DEF StopDone, Goto
<1>14. ASSUME NEW t \in Threads, Timeout(t) PROVE TypeOK'
  BY <1>14 DEF Timeout, Waits
<1>15. CASE QInit
  BY <1>15, SMTT(60) DEF QInit, Lifecycle
<1>16. CASE Poll
  BY <1>16 DEF Poll, Looping
<1>17. ASSUME NEW t \in Threads, RunFn(t) PROVE TypeOK'
  BY <1>17, PushPop DEF RunFn, Looping
<1>18. ASSUME NEW t \in Threads, FnDone(t) PROVE TypeOK'
  BY <1>18, PushPop, SMTT(60) DEF FnDone, Looping
<1>19. ASSUME NEW t \in Threads, RunCo(t) PROVE TypeOK'
  BY <1>19 DEF RunCo, Looping
<1>20. ASSUME NEW t \in Threads, CoDone(t) PROVE TypeOK'
  BY <1>20 DEF CoDone, Looping
<1>21. CASE RunStop
  BY <1>21 DEF RunStop, Looping
<1>22. CASE Exit
  BY <1>22, SMTT(60) DEF Exit, Looping, Lifecycle
<1>23. CASE Hang
  BY <1>23 DEF Hang
<1>24. CASE UNCHANGED vars
  BY <1>24
<1> QED
  BY <1>1, <1>2, <1>3, <1>4, <1>5, <1>6, <1>7, <1>8, <1>9, <1>10,
     <1>11, <1>12, <1>13, <1>14, <1>15, <1>16, <1>17, <1>18, <1>19,
     <1>20, <1>21, <1>22, <1>23, <1>24 DEF Next, Ask, Work, Loop

(* Start, stop and the QEMU thread respect the life cycle. *)
LEMMA LifecycleStep == TypeOK /\ Lifecycle /\ [Next]_vars => Lifecycle'
<1> SUFFICES ASSUME TypeOK, Lifecycle, [Next]_vars PROVE Lifecycle'
  OBVIOUS
<1> USE NoThreadAssumption DEF TypeOK, States, Lifecycle,
        vars, moves, qvars, syncs, callers
<1>1. ASSUME NEW t \in Threads, DiskAdd(t) PROVE Lifecycle'
  BY <1>1 DEF DiskAdd, Begin, Goto
<1>2. ASSUME NEW t \in Threads, Request(t) PROVE Lifecycle'
  BY <1>2 DEF Request, Begin, Goto
<1>3. ASSUME NEW t \in Threads, DiskRemove(t) PROVE Lifecycle'
  BY <1>3 DEF DiskRemove, Begin, Goto
<1>4. ASSUME NEW t \in Threads, Shutdown(t) PROVE Lifecycle'
  BY <1>4 DEF Shutdown, Begin, Goto
<1>5. ASSUME NEW t \in Threads, Start(t) PROVE Lifecycle'
  BY <1>5, SMTT(60) DEF Start, Goto
<1>6. ASSUME NEW t \in Threads, StartReady(t) PROVE Lifecycle'
  BY <1>6, SMTT(60) DEF StartReady, Goto
<1>7. ASSUME NEW t \in Threads, Check(t) PROVE Lifecycle'
  BY <1>7 DEF Check, Goto
<1>8. ASSUME NEW t \in Threads, Schedule(t) PROVE Lifecycle'
  BY <1>8 DEF Schedule, Goto
<1>9. ASSUME NEW t \in Threads, Finish(t) PROVE Lifecycle'
  BY <1>9 DEF Finish, Goto
<1>10. ASSUME NEW t \in Threads, LklDiskAdd(t) PROVE Lifecycle'
  BY <1>10 DEF LklDiskAdd, Goto
<1>11. ASSUME NEW t \in Threads, LklDiskRemove(t) PROVE Lifecycle'
  BY <1>11 DEF LklDiskRemove, Goto
<1>12. ASSUME NEW t \in Threads, Stop(t) PROVE Lifecycle'
  BY <1>12 DEF Stop, Goto
<1>13. ASSUME NEW t \in Threads, StopDone(t) PROVE Lifecycle'
  BY <1>13, SMTT(60) DEF StopDone, Goto
<1>14. ASSUME NEW t \in Threads, Timeout(t) PROVE Lifecycle'
  BY <1>14 DEF Timeout, Waits
<1>15. CASE QInit
  BY <1>15 DEF QInit
<1>16. CASE Poll
  BY <1>16 DEF Poll, Looping
<1>17. ASSUME NEW t \in Threads, RunFn(t) PROVE Lifecycle'
  BY <1>17 DEF RunFn, Looping
<1>18. ASSUME NEW t \in Threads, FnDone(t) PROVE Lifecycle'
  BY <1>18 DEF FnDone, Looping
<1>19. ASSUME NEW t \in Threads, RunCo(t) PROVE Lifecycle'
  BY <1>19 DEF RunCo, Looping
<1>20. ASSUME NEW t \in Threads, CoDone(t) PROVE Lifecycle'
  BY <1>20 DEF CoDone, Looping
<1>21. CASE RunStop
  BY <1>21 DEF RunStop, Looping
<1>22. CASE Exit
  BY <1>22 DEF Exit, Looping
<1>23. CASE Hang
  BY <1>23 DEF Hang
<1>24. CASE UNCHANGED vars
  BY <1>24
<1> QED
  BY <1>1, <1>2, <1>3, <1>4, <1>5, <1>6, <1>7, <1>8, <1>9, <1>10,
     <1>11, <1>12, <1>13, <1>14, <1>15, <1>16, <1>17, <1>18, <1>19,
     <1>20, <1>21, <1>22, <1>23, <1>24 DEF Next, Ask, Work, Loop

(* No operation leaves its own labels. *)
LEMMA RolesStep == TypeOK /\ Roles /\ [Next]_vars => Roles'
<1> SUFFICES ASSUME TypeOK, Roles, [Next]_vars PROVE Roles'
  OBVIOUS
<1> USE DEF TypeOK, Labels, Ops, Roles, vars, moves, qvars, syncs, callers
<1>1. ASSUME NEW t \in Threads, DiskAdd(t) PROVE Roles'
  BY <1>1, SMTT(60) DEF DiskAdd, Begin, Goto
<1>2. ASSUME NEW t \in Threads, Request(t) PROVE Roles'
  BY <1>2, SMTT(60) DEF Request, Begin, Goto
<1>3. ASSUME NEW t \in Threads, DiskRemove(t) PROVE Roles'
  BY <1>3, SMTT(60) DEF DiskRemove, Begin, Goto
<1>4. ASSUME NEW t \in Threads, Shutdown(t) PROVE Roles'
  BY <1>4 DEF Shutdown, Begin, Goto
<1>5. ASSUME NEW t \in Threads, Start(t) PROVE Roles'
  BY <1>5, SMTT(60) DEF Start, Goto, AfterStart
<1>6. ASSUME NEW t \in Threads, StartReady(t) PROVE Roles'
  BY <1>6 DEF StartReady, Goto, AfterStart
<1>7. ASSUME NEW t \in Threads, Check(t) PROVE Roles'
  BY <1>7 DEF Check, Goto
<1>8. ASSUME NEW t \in Threads, Schedule(t) PROVE Roles'
  BY <1>8 DEF Schedule, Goto
<1>9. ASSUME NEW t \in Threads, Finish(t) PROVE Roles'
  BY <1>9 DEF Finish, Goto
<1>10. ASSUME NEW t \in Threads, LklDiskAdd(t) PROVE Roles'
  BY <1>10, SMTT(60) DEF LklDiskAdd, Goto
<1>11. ASSUME NEW t \in Threads, LklDiskRemove(t) PROVE Roles'
  BY <1>11 DEF LklDiskRemove, Goto
<1>12. ASSUME NEW t \in Threads, Stop(t) PROVE Roles'
  BY <1>12, SMTT(60) DEF Stop, Goto
<1>13. ASSUME NEW t \in Threads, StopDone(t) PROVE Roles'
  BY <1>13 DEF StopDone, Goto
<1>14. ASSUME NEW t \in Threads, Timeout(t) PROVE Roles'
  BY <1>14 DEF Timeout, Waits
<1>15. CASE QInit
  BY <1>15 DEF QInit
<1>16. CASE Poll
  BY <1>16 DEF Poll, Looping
<1>17. ASSUME NEW t \in Threads, RunFn(t) PROVE Roles'
  BY <1>17 DEF RunFn, Looping
<1>18. ASSUME NEW t \in Threads, FnDone(t) PROVE Roles'
  BY <1>18 DEF FnDone, Looping
<1>19. ASSUME NEW t \in Threads, RunCo(t) PROVE Roles'
  BY <1>19 DEF RunCo, Looping
<1>20. ASSUME NEW t \in Threads, CoDone(t) PROVE Roles'
  BY <1>20 DEF CoDone, Looping
<1>21. CASE RunStop
  BY <1>21 DEF RunStop, Looping
<1>22. CASE Exit
  BY <1>22 DEF Exit, Looping
<1>23. CASE Hang
  BY <1>23 DEF Hang
<1>24. CASE UNCHANGED vars
  BY <1>24
<1> QED
  BY <1>1, <1>2, <1>3, <1>4, <1>5, <1>6, <1>7, <1>8, <1>9, <1>10,
     <1>11, <1>12, <1>13, <1>14, <1>15, <1>16, <1>17, <1>18, <1>19,
     <1>20, <1>21, <1>22, <1>23, <1>24 DEF Next, Ask, Work, Loop

(* A call changes hands only along scheduled, slice, stack or yielded, posted. *)
LEMMA HandoffStep == TypeOK /\ Handoff /\ [Next]_vars => Handoff'
<1> SUFFICES ASSUME TypeOK, Handoff, [Next]_vars PROVE Handoff'
  OBVIOUS
<1> USE NoThreadAssumption DEF TypeOK, Labels, Ops, Handoff, CallerWaits, Held,
        StopBh, vars, moves, qvars, syncs, callers
<1>1. ASSUME NEW t \in Threads, DiskAdd(t) PROVE Handoff'
  BY <1>1, SMTT(60) DEF DiskAdd, Begin, Goto
<1>2. ASSUME NEW t \in Threads, Request(t) PROVE Handoff'
  BY <1>2, SMTT(60) DEF Request, Begin, Goto
<1>3. ASSUME NEW t \in Threads, DiskRemove(t) PROVE Handoff'
  BY <1>3, SMTT(60) DEF DiskRemove, Begin, Goto
<1>4. ASSUME NEW t \in Threads, Shutdown(t) PROVE Handoff'
  BY <1>4, SMTT(60) DEF Shutdown, Begin, Goto
<1>5. ASSUME NEW t \in Threads, Start(t) PROVE Handoff'
  <2>1. /\ t \notin Held \cup done
        /\ \A u \in Threads : u # t => pc'[u] = pc[u] /\ op'[u] = op[u]
    BY <1>5 DEF Start, Goto
  <2>2. UNCHANGED <<bhs, slice, stack, inflight, done>>
    BY <1>5 DEF Start
  <2>3. Range(stack) \subseteq Threads
    BY SMTT(60) DEF Range
  <2> QED
    BY <2>1, <2>2, <2>3
<1>6. ASSUME NEW t \in Threads, StartReady(t) PROVE Handoff'
  BY <1>6, SMTT(60) DEF StartReady, Goto, AfterStart
<1>7. ASSUME NEW t \in Threads, Check(t) PROVE Handoff'
  BY <1>7, SMTT(60) DEF Check, Goto
<1>8. ASSUME NEW t \in Threads, Schedule(t) PROVE Handoff'
  BY <1>8, SMTT(60) DEF Schedule, Goto
<1>9. ASSUME NEW t \in Threads, Finish(t) PROVE Handoff'
  BY <1>9, SMTT(60) DEF Finish, Goto
<1>10. ASSUME NEW t \in Threads, LklDiskAdd(t) PROVE Handoff'
  <2>1. /\ t \notin Held \cup done
        /\ \A u \in Threads : u # t => pc'[u] = pc[u] /\ op'[u] = op[u]
    BY <1>10 DEF LklDiskAdd, Goto
  <2>2. UNCHANGED <<bhs, slice, stack, inflight, done>>
    BY <1>10 DEF LklDiskAdd
  <2>3. Range(stack) \subseteq Threads
    BY SMTT(60) DEF Range
  <2> QED
    BY <2>1, <2>2, <2>3
<1>11. ASSUME NEW t \in Threads, LklDiskRemove(t) PROVE Handoff'
  BY <1>11, SMTT(60) DEF LklDiskRemove, Goto
<1>12. ASSUME NEW t \in Threads, Stop(t) PROVE Handoff'
  <2>1. /\ t \notin Held \cup done
        /\ \A u \in Threads : u # t => pc'[u] = pc[u] /\ op'[u] = op[u]
    BY <1>12 DEF Stop, Goto
  <2>2. bhs' \in {bhs, bhs \cup {StopBh}} /\ UNCHANGED <<slice, stack, inflight, done>>
    BY <1>12 DEF Stop
  <2>3. Range(stack) \subseteq Threads
    BY SMTT(60) DEF Range
  <2> QED
    BY <2>1, <2>2, <2>3
<1>13. ASSUME NEW t \in Threads, StopDone(t) PROVE Handoff'
  BY <1>13, SMTT(60) DEF StopDone, Goto
<1>14. ASSUME NEW t \in Threads, Timeout(t) PROVE Handoff'
  BY <1>14 DEF Timeout, Waits
<1>15. CASE QInit
  BY <1>15 DEF QInit
<1>16. CASE Poll
  BY <1>16 DEF Poll, Looping
<1>17. ASSUME NEW t \in Threads, RunFn(t) PROVE Handoff'
  BY <1>17, PushPop, SMTT(60) DEF RunFn, Looping
<1>18. ASSUME NEW t \in Threads, FnDone(t) PROVE Handoff'
  <2>1. /\ t \in Range(stack) /\ IsInjective(stack')
        /\ Range(stack') = Range(stack) \ {t}
    BY <1>18, PushPop DEF FnDone
  <2>2. done' = done \cup {t} /\ UNCHANGED <<bhs, slice, inflight, pc, op>>
    BY <1>18 DEF FnDone
  <2> QED
    BY <2>1, <2>2
<1>19. ASSUME NEW t \in Threads, RunCo(t) PROVE Handoff'
  BY <1>19, SMTT(60) DEF RunCo, Looping
<1>20. ASSUME NEW t \in Threads, CoDone(t) PROVE Handoff'
  BY <1>20 DEF CoDone, Looping
<1>21. CASE RunStop
  BY <1>21 DEF RunStop, Looping
<1>22. CASE Exit
  BY <1>22 DEF Exit, Looping
<1>23. CASE Hang
  BY <1>23 DEF Hang
<1>24. CASE UNCHANGED vars
  BY <1>24
<1> QED
  BY <1>1, <1>2, <1>3, <1>4, <1>5, <1>6, <1>7, <1>8, <1>9, <1>10,
     <1>11, <1>12, <1>13, <1>14, <1>15, <1>16, <1>17, <1>18, <1>19,
     <1>20, <1>21, <1>22, <1>23, <1>24 DEF Next, Ask, Work, Loop

(* Removing a disk from LKL first keeps requests and backends together. *)
LEMMA BackendsStep == TypeOK /\ Roles /\ Handoff /\ Backends /\ [Next]_vars => Backends'
<1> SUFFICES ASSUME TypeOK, Roles, Handoff, Backends, [Next]_vars PROVE Backends'
  OBVIOUS
<1> USE DEF TypeOK, Labels, Ops, Roles, Backends, vars, moves, qvars, syncs, callers
<1>1. ASSUME NEW t \in Threads, DiskAdd(t) PROVE Backends'
  BY <1>1, SMTT(60) DEF DiskAdd, Begin, Goto, Active
<1>2. ASSUME NEW t \in Threads, Request(t) PROVE Backends'
  BY <1>2, SMTT(60) DEF Request, Begin, Goto, Active, Kept
<1>3. ASSUME NEW t \in Threads, DiskRemove(t) PROVE Backends'
  BY <1>3, SMTT(60) DEF DiskRemove, Begin, Goto, Active, Kept
<1>4. ASSUME NEW t \in Threads, Shutdown(t) PROVE Backends'
  BY <1>4, SMTT(60) DEF Shutdown, Begin, Goto
<1>5. ASSUME NEW t \in Threads, Start(t) PROVE Backends'
  BY <1>5, SMTT(60) DEF Start, Goto, AfterStart
<1>6. ASSUME NEW t \in Threads, StartReady(t) PROVE Backends'
  BY <1>6, SMTT(60) DEF StartReady, Goto, AfterStart
<1>7. ASSUME NEW t \in Threads, Check(t) PROVE Backends'
  BY <1>7, SMTT(60) DEF Check, Goto
<1>8. ASSUME NEW t \in Threads, Schedule(t) PROVE Backends'
  BY <1>8, SMTT(60) DEF Schedule, Goto
<1>9. ASSUME NEW t \in Threads, Finish(t) PROVE Backends'
  BY <1>9, SMTT(60) DEF Finish, Goto, Handoff
<1>10. ASSUME NEW t \in Threads, LklDiskAdd(t) PROVE Backends'
  BY <1>10, SMTT(60) DEF LklDiskAdd, Goto
<1>11. ASSUME NEW t \in Threads, LklDiskRemove(t) PROVE Backends'
  BY <1>11, SMTT(60) DEF LklDiskRemove, Goto, Active
<1>12. ASSUME NEW t \in Threads, Stop(t) PROVE Backends'
  BY <1>12, SMTT(60) DEF Stop, Goto
<1>13. ASSUME NEW t \in Threads, StopDone(t) PROVE Backends'
  BY <1>13, SMTT(60) DEF StopDone, Goto
<1>14. ASSUME NEW t \in Threads, Timeout(t) PROVE Backends'
  BY <1>14 DEF Timeout, Waits
<1>15. CASE QInit
  BY <1>15 DEF QInit
<1>16. CASE Poll
  BY <1>16 DEF Poll, Looping
<1>17. ASSUME NEW t \in Threads, RunFn(t) PROVE Backends'
  BY <1>17 DEF RunFn, Looping
<1>18. ASSUME NEW t \in Threads, FnDone(t) PROVE Backends'
  <2>1. t \in Range(stack)
    BY <1>18, PushPop DEF FnDone
  <2>2. pc[t] = "done" /\ t \notin done /\ op[t] \in {"open", "close"}
    BY <2>1, NoThreadAssumption, SMTT(60) DEF Handoff, CallerWaits, Held, StopBh
  <2>3. done' = done \cup {t} /\ UNCHANGED <<pc, op, disk, added>>
    BY <1>18 DEF FnDone
  <2>4. CASE op[t] = "open"
    <3>1. blks \subseteq blks'
      BY <1>18, <2>4, SMTT(60) DEF FnDone
    <3> QED
      BY <2>2, <2>3, <2>4, <3>1
  <2>5. CASE op[t] = "close"
    <3>1. blks' = blks \ {disk[t]}
      BY <1>18, <2>5 DEF FnDone
    <3> QED
      BY <2>2, <2>3, <2>5, <3>1
  <2> QED
    BY <2>2, <2>4, <2>5
<1>19. ASSUME NEW t \in Threads, RunCo(t) PROVE Backends'
  BY <1>19 DEF RunCo, Looping, Handoff, CallerWaits, Held
<1>20. ASSUME NEW t \in Threads, CoDone(t) PROVE Backends'
  BY <1>20 DEF CoDone, Looping, Handoff, CallerWaits, Held
<1>21. CASE RunStop
  BY <1>21 DEF RunStop, Looping
<1>22. CASE Exit
  BY <1>22 DEF Exit, Looping
<1>23. CASE Hang
  BY <1>23 DEF Hang
<1>24. CASE UNCHANGED vars
  BY <1>24
<1> QED
  BY <1>1, <1>2, <1>3, <1>4, <1>5, <1>6, <1>7, <1>8, <1>9, <1>10,
     <1>11, <1>12, <1>13, <1>14, <1>15, <1>16, <1>17, <1>18, <1>19,
     <1>20, <1>21, <1>22, <1>23, <1>24 DEF Next, Ask, Work, Loop

(* After a stop has returned nothing is scheduled by a new operation. *)
LEMMA HaltingStep == TypeOK /\ Lifecycle /\ Roles /\ Halting /\ [Next]_vars => Halting'
<1> SUFFICES ASSUME TypeOK, Lifecycle, Roles, Halting, [Next]_vars PROVE Halting'
  OBVIOUS
<1> USE DEF TypeOK, Labels, Ops, States, Halting, LateCallsFail, vars, moves, qvars, syncs,
            callers
<1>1. ASSUME NEW t \in Threads, DiskAdd(t) PROVE Halting'
  BY <1>1, SMTT(60) DEF DiskAdd, Begin, Goto
<1>2. ASSUME NEW t \in Threads, Request(t) PROVE Halting'
  BY <1>2, SMTT(60) DEF Request, Begin, Goto
<1>3. ASSUME NEW t \in Threads, DiskRemove(t) PROVE Halting'
  BY <1>3, SMTT(60) DEF DiskRemove, Begin, Goto
<1>4. ASSUME NEW t \in Threads, Shutdown(t) PROVE Halting'
  BY <1>4 DEF Shutdown, Begin, Goto
<1>5. ASSUME NEW t \in Threads, Start(t) PROVE Halting'
  BY <1>5 DEF Start, Goto, AfterStart
<1>6. ASSUME NEW t \in Threads, StartReady(t) PROVE Halting'
  BY <1>6 DEF StartReady, Goto, AfterStart
<1>7. ASSUME NEW t \in Threads, Check(t) PROVE Halting'
  BY <1>7 DEF Check, Goto
<1>8. ASSUME NEW t \in Threads, Schedule(t) PROVE Halting'
  BY <1>8 DEF Schedule, Goto
<1>9. ASSUME NEW t \in Threads, Finish(t) PROVE Halting'
  BY <1>9 DEF Finish, Goto
<1>10. ASSUME NEW t \in Threads, LklDiskAdd(t) PROVE Halting'
  BY <1>10 DEF LklDiskAdd, Goto
<1>11. ASSUME NEW t \in Threads, LklDiskRemove(t) PROVE Halting'
  BY <1>11 DEF LklDiskRemove, Goto
<1>12. ASSUME NEW t \in Threads, Stop(t) PROVE Halting'
  BY <1>12 DEF Stop, Goto
<1>13. ASSUME NEW t \in Threads, StopDone(t) PROVE Halting'
  BY <1>13 DEF StopDone, Goto
<1>14. ASSUME NEW t \in Threads, Timeout(t) PROVE Halting'
  BY <1>14 DEF Timeout, Waits
<1>15. CASE QInit
  BY <1>15 DEF QInit, Lifecycle
<1>16. CASE Poll
  BY <1>16 DEF Poll, Looping
<1>17. ASSUME NEW t \in Threads, RunFn(t) PROVE Halting'
  BY <1>17 DEF RunFn, Looping
<1>18. ASSUME NEW t \in Threads, FnDone(t) PROVE Halting'
  BY <1>18 DEF FnDone, Looping
<1>19. ASSUME NEW t \in Threads, RunCo(t) PROVE Halting'
  BY <1>19 DEF RunCo, Looping
<1>20. ASSUME NEW t \in Threads, CoDone(t) PROVE Halting'
  BY <1>20 DEF CoDone, Looping
<1>21. CASE RunStop
  BY <1>21 DEF RunStop, Looping
<1>22. CASE Exit
  BY <1>22 DEF Exit, Looping
<1>23. CASE Hang
  BY <1>23 DEF Hang
<1>24. CASE UNCHANGED vars
  BY <1>24
<1> QED
  BY <1>1, <1>2, <1>3, <1>4, <1>5, <1>6, <1>7, <1>8, <1>9, <1>10,
     <1>11, <1>12, <1>13, <1>14, <1>15, <1>16, <1>17, <1>18, <1>19,
     <1>20, <1>21, <1>22, <1>23, <1>24 DEF Next, Ask, Work, Loop

(* A backend is given back before the operation that holds it ends. *)
LEMMA InOrderStep ==
  TypeOK /\ Lifecycle /\ Roles /\ Handoff /\ Backends /\ InOrder /\ [Next]_vars => InOrder'
<1> SUFFICES ASSUME TypeOK, Lifecycle, Roles, Handoff, Backends, InOrder, [Next]_vars
             PROVE  InOrder'
  OBVIOUS
<1>0. orderly' = orderly
  BY DEF Next, vars
<1> USE <1>0 DEF TypeOK, Labels, Ops, States, Roles, InOrder, NoBackendLeak, Active, Stopping,
        vars, moves, qvars, syncs, callers
<1>a. \A t \in Threads : t \in inflight \cup done => pc[t] = "done"
  BY NoThreadAssumption DEF Handoff, CallerWaits, Held, StopBh
<1>1. ASSUME NEW t \in Threads, DiskAdd(t) PROVE InOrder'
  BY <1>a, <1>1, SMTT(60) DEF DiskAdd, Begin, Goto
<1>2. ASSUME NEW t \in Threads, Request(t) PROVE InOrder'
  BY <1>a, <1>2, SMTT(60) DEF Request, Begin, Goto, Backends
<1>3. ASSUME NEW t \in Threads, DiskRemove(t) PROVE InOrder'
  BY <1>a, <1>3, SMTT(60) DEF DiskRemove, Begin, Goto, Backends
<1>4. ASSUME NEW t \in Threads, Shutdown(t) PROVE InOrder'
  BY <1>a, <1>4, SMTT(60) DEF Shutdown, Begin, Goto
<1>5. ASSUME NEW t \in Threads, Start(t) PROVE InOrder'
  BY <1>5, SMTT(60) DEF Start, Goto, AfterStart, Handoff, Backends
<1>6. ASSUME NEW t \in Threads, StartReady(t) PROVE InOrder'
  BY <1>6, SMTT(60) DEF StartReady, Goto, AfterStart, Handoff, Backends
<1>7. ASSUME NEW t \in Threads, Check(t) PROVE InOrder'
  BY <1>7, SMTT(60) DEF Check, Goto, Handoff, Backends
<1>8. ASSUME NEW t \in Threads, Schedule(t) PROVE InOrder'
  BY <1>8, SMTT(60) DEF Schedule, Goto, Handoff
<1>9. ASSUME NEW t \in Threads, Finish(t) PROVE InOrder'
  BY <1>9, SMTT(60) DEF Finish, Goto, Handoff, Backends
<1>10. ASSUME NEW t \in Threads, LklDiskAdd(t) PROVE InOrder'
  BY <1>a, <1>10, SMTT(60) DEF LklDiskAdd, Goto, Backends, Handoff
<1>11. ASSUME NEW t \in Threads, LklDiskRemove(t) PROVE InOrder'
  BY <1>11, SMTT(60) DEF LklDiskRemove, Goto, Handoff, Backends
<1>12. ASSUME NEW t \in Threads, Stop(t) PROVE InOrder'
  BY <1>12, SMTT(60) DEF Stop, Goto
<1>13. ASSUME NEW t \in Threads, StopDone(t) PROVE InOrder'
  BY <1>13 DEF StopDone, Goto
<1>14. ASSUME NEW t \in Threads, Timeout(t) PROVE InOrder'
  BY <1>14, SMTT(60) DEF Timeout, Waits
<1>15. CASE QInit
  BY <1>15 DEF QInit, Lifecycle
<1>16. CASE Poll
  BY <1>16, SMTT(60) DEF Poll, Looping
<1>17. ASSUME NEW t \in Threads, RunFn(t) PROVE InOrder'
  BY <1>17, SMTT(60) DEF RunFn, Looping
<1>18. ASSUME NEW t \in Threads, FnDone(t) PROVE InOrder'
  <2>1. t \in Range(stack)
    BY <1>18, PushPop DEF FnDone
  <2>2. pc[t] = "done" /\ t \notin done /\ op[t] \in {"open", "close"}
    BY <2>1, NoThreadAssumption DEF Handoff, CallerWaits, Held, StopBh
  <2>3. done' = done \cup {t} /\ UNCHANGED <<pc, op, disk, added, inflight, g_state>>
    BY <1>18 DEF FnDone, syncs
  <2>4. CASE op[t] = "open"
    <3>1. blks' = blks \/ blks' = blks \cup {disk[t]}
      BY <1>18, <2>4 DEF FnDone
    <3> QED
      BY <2>2, <2>3, <2>4, <3>1, SMTT(60) DEF Backends, Handoff
  <2>5. CASE op[t] = "close"
    <3>1. blks' = blks \ {disk[t]}
      BY <1>18, <2>5 DEF FnDone
    <3> QED
      BY <2>2, <2>3, <2>5, <3>1, SMTT(60)
  <2> QED
    BY <2>2, <2>4, <2>5
<1>19. ASSUME NEW t \in Threads, RunCo(t) PROVE InOrder'
  BY <1>19, SMTT(60) DEF RunCo, Looping
<1>20. ASSUME NEW t \in Threads, CoDone(t) PROVE InOrder'
  BY <1>20, SMTT(60) DEF CoDone, Looping
<1>21. CASE RunStop
  BY <1>21, SMTT(60) DEF RunStop, Looping
<1>22. CASE Exit
  BY <1>22, SMTT(60) DEF Exit, Looping
<1>23. CASE Hang
  BY <1>23 DEF Hang
<1>24. CASE UNCHANGED vars
  BY <1>24, SMTT(60)
<1> QED
  BY <1>1, <1>2, <1>3, <1>4, <1>5, <1>6, <1>7, <1>8, <1>9, <1>10,
     <1>11, <1>12, <1>13, <1>14, <1>15, <1>16, <1>17, <1>18, <1>19,
     <1>20, <1>21, <1>22, <1>23, <1>24 DEF Next, Ask, Work, Loop

(* All of it holds of a process that has not used QEMU yet. *)
LEMMA Initially ==
  ASSUME Init
  PROVE  TypeOK /\ Lifecycle /\ Roles /\ Handoff /\ Backends /\ Halting /\ InOrder
<1> USE NoThreadAssumption DEF Init
<1>1. TypeOK
  <2>1. pc \in [Threads -> Labels] /\ op \in [Threads -> Ops]
    BY DEF Labels, Ops
  <2>2. /\ g_state \in States /\ stack \in Seq(Threads)
        /\ g_start_lock \in Threads \cup {NoThread}
    BY SMTT(60) DEF States
  <2>3. /\ bhs \subseteq Threads \cup {StopBh} /\ slice \subseteq Threads \cup {StopBh}
        /\ inflight \subseteq Threads /\ done \subseteq Threads
        /\ blks \subseteq Disks /\ added \subseteq Disks
        /\ warned \subseteq Threads /\ late \subseteq Threads
    OBVIOUS
  <2>4. /\ g_ready \in 0..1 /\ g_stopped \in 0..1 /\ spawned \in 0..1
        /\ qpc \in {"none", "init", "loop", "gone"} /\ disk \in [Threads -> Disks]
    BY SMTT(60)
  <2>5. /\ g_stop_requested \in BOOLEAN /\ hung \in BOOLEAN
        /\ fatal \in BOOLEAN /\ halted \in BOOLEAN
    OBVIOUS
  <2> QED
    BY <2>1, <2>2, <2>3, <2>4, <2>5 DEF TypeOK
<1>2. Lifecycle
  BY SMTT(60) DEF Lifecycle
<1>3. Roles
  BY DEF Roles
<1>4. Range(stack) = {} /\ IsInjective(stack)
  BY SMTT(60) DEF Range, IsInjective
<1>5. Handoff
  BY <1>4 DEF Handoff, CallerWaits, Held
<1>6. Backends
  BY DEF Backends
<1>7. Halting
  BY DEF Halting, LateCallsFail
<1>8. InOrder
  BY DEF InOrder, NoBackendLeak, Stopping
<1> QED
  BY <1>1, <1>2, <1>3, <1>5, <1>6, <1>7, <1>8

(* The inductive invariant. *)
IInv == TypeOK /\ Lifecycle /\ Roles /\ Handoff /\ Backends /\ Halting /\ InOrder

(* The inductive invariant holds in every behaviour. *)
LEMMA Invariance == Spec => []IInv
<1>1. Init => IInv
  BY Initially DEF IInv
<1>2. IInv /\ [Next]_vars => IInv'
  BY TypeStep, LifecycleStep, RolesStep, HandoffStep, BackendsStep,
     HaltingStep, InOrderStep DEF IInv
<1> QED
  BY <1>1, <1>2, PTL DEF Spec

-----------------------------------------------------------------------------
(* One QEMU thread, one post of g_ready and of g_stopped, for any number   *)
(* of threads that start, use and stop it.                                 *)
THEOREM TypeCorrect == Spec => []TypeOK
<1>1. IInv => TypeOK
  BY DEF IInv
<1> QED
  BY Invariance, <1>1, PTL

(* wait_done: while QEMU holds a call its owner is blocked on it, although *)
(* the watchdog may have fired and the thread may have been stopped.       *)
THEOREM CallersWait == Spec => []CallerWaits
<1>1. IInv => CallerWaits
  BY DEF IInv, Handoff
<1> QED
  BY Invariance, <1>1, PTL

(* anyfs_disk_remove: no request or close ever runs on a backend that was  *)
(* already given up.                                                       *)
THEOREM BackendsLive == Spec => []LiveBackend
<1>1. IInv => LiveBackend
  <2> SUFFICES ASSUME IInv, NEW t \in Held, op[t] \in {"io", "close"}
               PROVE  disk[t] \in blks
    BY DEF LiveBackend
  <2>1. t \in Threads /\ pc[t] = "done" /\ t \notin done
    BY NoThreadAssumption, SMTT(60) DEF IInv, Handoff, CallerWaits, Held, TypeOK, StopBh, Range
  <2> QED
    BY <2>1 DEF IInv, Backends
<1> QED
  BY Invariance, <1>1, PTL

(* anyfs_disk_add and anyfs_disk_remove: when the process shuts down in    *)
(* the documented order every backend belongs to a disk LKL knows or to an *)
(* operation under way.                                                    *)
THEOREM BackendsGivenBack == Spec => []NoBackendLeak
<1>1. IInv => NoBackendLeak
  BY DEF IInv, InOrder
<1> QED
  BY Invariance, <1>1, PTL

(* qemu_thread_stop: "later calls fail fast". *)
THEOREM LateCallsFailFast == Spec => []LateCallsFail
<1>1. IInv => LateCallsFail
  BY DEF IInv, Halting
<1> QED
  BY Invariance, <1>1, PTL

(* qemu_thread_start and qemu_thread_stop: the thread is created once, and *)
(* a failed or stopped thread never comes back.                            *)
THEOREM EndIsSticky == Spec => StickyEnd
<1> DEFINE Sticky == /\ g_state \in {"FAILED", "STOPPED"} => g_state' = g_state
                     /\ spawned = 1 => spawned' = 1
<1>1. IInv /\ [Next]_vars => [Sticky]_vars
  <2> SUFFICES ASSUME IInv, Next PROVE Sticky
    OBVIOUS
  <2> USE DEF IInv, TypeOK, Lifecycle, qvars, syncs
  <2>1. ASSUME NEW t \in Threads, Start(t) PROVE Sticky
    BY <2>1, SMTT(60) DEF Start
  <2>2. ASSUME NEW t \in Threads, Stop(t) PROVE Sticky
    BY <2>2 DEF Stop
  <2>3. CASE QInit
    BY <2>3 DEF QInit
  <2>4. ASSUME NEW t \in Threads,
               Ask(t) \/ StartReady(t) \/ Check(t) \/ Schedule(t) \/ Finish(t)
               \/ LklDiskAdd(t) \/ LklDiskRemove(t) \/ StopDone(t) \/ Timeout(t)
        PROVE  Sticky
    BY <2>4 DEF Ask, DiskAdd, Request, DiskRemove, Shutdown, Begin, StartReady,
       Check, Schedule, Finish, LklDiskAdd, LklDiskRemove, StopDone, Timeout
  <2>5. ASSUME NEW t \in Threads, FnDone(t) \/ CoDone(t) \/ RunFn(t) \/ RunCo(t)
        PROVE  Sticky
    BY <2>5 DEF FnDone, CoDone, RunFn, RunCo
  <2>6. CASE Poll \/ RunStop \/ Exit \/ Hang
    BY <2>6 DEF Poll, RunStop, Exit, Hang
  <2> QED
    BY <2>1, <2>2, <2>3, <2>4, <2>5, <2>6 DEF Next, Work, Loop
<1> QED
  BY Invariance, <1>1, PTL DEF Spec, StickyEnd
=============================================================================
