------------------------- MODULE AnyfsSession_proofs -------------------------
(***************************************************************************)
(* Proofs about AnyfsSession, for any number of threads, partitions and    *)
(* retries.  See the README for the argument.                              *)
(***************************************************************************)
EXTENDS AnyfsSession, TLAPS

\* A leaf that names no prover is for Zenon.
USE ZenonT(60)

LeaveLabels == {"leave", "umount", "unlinkLeft", "left"}

MountLabels == {"mknod", "mount", "busy", "commit"}

EnterLabels == {"enter", "wait", "container", "release", "unlink"} \cup MountLabels

\* Where thread t is agrees with what it was called for, and only a
\* serialised caller ever unmounts before the session is closed.
Shape(t) ==
    /\ pc[t] # "idle" => attached
    /\ pc[t] \in EnterLabels => back[t] # "close"
    /\ pc[t] \in {"close", "remove"} => back[t] = "close"
    /\ back[t] \in {"idle", "release", "mount", "close"}
    /\ repl[t] => Serialised
    /\ pc[t] = "release" => repl[t] /\ IsFS(slot[t])
    /\ pc[t] \in MountLabels => IsFS(slot[t])
    /\ pc[t] = "container" => slot[t] \in Containers
    /\ pc[t] = "busy" => rc[t] = "EBUSY"
    /\ pc[t] \in LeaveLabels => Serialised \/ back[t] = "close"
    /\ pc[t] \in LeaveLabels /\ back[t] = "mount" => slot[t] # Whole /\ IsFS(slot[t]) /\ repl[t]
    /\ pc[t] \in LeaveLabels /\ back[t] = "release" => IsFS(slot[t]) /\ repl[t]

\* Two threads are inside the library at a time only if both are entering,
\* without REPLACE, for callers that are not serialised.
Alone ==
    \A t, u \in Threads :
        t # u /\ pc[t] # "idle" /\ pc[u] # "idle" =>
            ~Serialised /\ pc[t] \in EnterLabels

Control == TypeOK /\ (\A t \in Threads : Shape(t)) /\ Alone

\* The kernel's mounts against the table.
Kernel ==
    /\ \A s \in mounted : IsFS(s) /\ \A c \in Overlaps(s) : c \notin mounted
    /\ \A t \in Threads : pc[t] = "commit" /\ rc[t] = "OK" => slot[t] \in mounted
    /\ \A t \in Threads, s \in Slots :
          Leaving(t, s) => s \notin mounted /\ state[s] = "MOUNTED"

\* A close in progress still has every mount before it that it can undo.
ClosePending ==
    \A t \in Threads :
        /\ pc[t] = "remove" => todo[t] = {}
        /\ pc[t] # "idle" /\ back[t] = "close" =>
              \A s \in mounted \ pinned :
                  s \in todo[t] \/ (pc[t] = "umount" /\ cur[t] = s)

IInv == /\ Control
        /\ MountExclusive
        /\ TableMatchesKernel
        /\ Kernel
        /\ NoOverlap
        /\ ClosePending

\* The type invariant is inductive by itself.
LEMMA TypeStep == TypeOK /\ [Next]_vars => TypeOK'
<1> SUFFICES ASSUME TypeOK, [Next]_vars PROVE TypeOK'
  OBVIOUS
<1> USE SlotAssumption, RetryAssumption, FlagAssumption
        DEF TypeOK, Slots, SlotStates, Results, Labels, kernelVars, callVars, vars
<1>0. ASSUME NEW t \in Threads, CallRefused(t) PROVE TypeOK'
  BY <1>0 DEF CallRefused, MayCall
<1>1. ASSUME NEW t \in Threads, CallEnter(t) PROVE TypeOK'
  BY <1>1, SMTT(60) DEF CallEnter, MayCall, Goto
<1>2. ASSUME NEW t \in Threads, CallLeave(t) PROVE TypeOK'
  BY <1>2, SMTT(60) DEF CallLeave, MayCall, Goto
<1>3. ASSUME NEW t \in Threads, CallClose(t) PROVE TypeOK'
  BY <1>3 DEF CallClose, MayCall, Goto
<1>4. ASSUME NEW t \in Threads, SpuriousWakeup(t) PROVE TypeOK'
  BY <1>4 DEF SpuriousWakeup, Goto
<1>5. ASSUME NEW t \in Threads, EnterWait(t) PROVE TypeOK'
  BY <1>5 DEF EnterWait, Goto
<1>6. ASSUME NEW t \in Threads, EnterDone(t) PROVE TypeOK'
  BY <1>6 DEF EnterDone, Return
<1>7. ASSUME NEW t \in Threads, EnterStart(t) PROVE TypeOK'
  BY <1>7 DEF EnterStart, StartMounting, FirstLabel, Goto, IsFS
<1>8. ASSUME NEW t \in Threads, ContainerFail(t) PROVE TypeOK'
  BY <1>8 DEF ContainerFail, Broadcast
<1>9. ASSUME NEW t \in Threads, ReleaseWhole(t) PROVE TypeOK'
  BY <1>9, SMTT(60) DEF ReleaseWhole, Goto
<1>10. ASSUME NEW t \in Threads, ReleasePart(t) PROVE TypeOK'
  BY <1>10, SMTT(60) DEF ReleasePart, Goto
<1>11. ASSUME NEW t \in Threads, ReleaseDone(t) PROVE TypeOK'
  BY <1>11 DEF ReleaseDone, Goto
<1>12. ASSUME NEW t \in Threads, Mknod(t) PROVE TypeOK'
  BY <1>12 DEF Mknod, Goto
<1>13. ASSUME NEW t \in Threads, Mount(t) PROVE TypeOK'
  BY <1>13, SMTT(60) DEF Mount, MountResults, Goto
<1>14. ASSUME NEW t \in Threads, Busy(t) PROVE TypeOK'
  BY <1>14, SMTT(60) DEF Busy, Goto
<1>15. ASSUME NEW t \in Threads, Commit(t) PROVE TypeOK'
  BY <1>15 DEF Commit, Outcome, Broadcast
<1>16. ASSUME NEW t \in Threads, UnlinkAfterFailure(t) PROVE TypeOK'
  BY <1>16 DEF UnlinkAfterFailure, Goto
<1>17. ASSUME NEW t \in Threads, LeaveCheck(t) PROVE TypeOK'
  BY <1>17, SMTT(60) DEF LeaveCheck, Resume, Goto
<1>18. ASSUME NEW t \in Threads, UmountRefused(t) PROVE TypeOK'
  BY <1>18 DEF UmountRefused, Resume, Goto
<1>19. ASSUME NEW t \in Threads, Umount(t) PROVE TypeOK'
  BY <1>19 DEF Umount, Goto
<1>20. ASSUME NEW t \in Threads, UnlinkLeft(t) PROVE TypeOK'
  BY <1>20 DEF UnlinkLeft, Goto
<1>21. ASSUME NEW t \in Threads, LeaveDone(t) PROVE TypeOK'
  BY <1>21 DEF LeaveDone, Resume, Goto
<1>22. ASSUME NEW t \in Threads, CloseSlot(t) PROVE TypeOK'
  BY <1>22, SMTT(60) DEF CloseSlot, Goto
<1>23. ASSUME NEW t \in Threads, CloseLoopDone(t) PROVE TypeOK'
  BY <1>23 DEF CloseLoopDone, Goto
<1>24. ASSUME NEW t \in Threads, DiskRemove(t) PROVE TypeOK'
  BY <1>24 DEF DiskRemove, Return
<1>25. CASE Open
  BY <1>25 DEF Open
<1>26. CASE DelayedFput
  BY <1>26 DEF DelayedFput
<1>27. CASE OpenFile
  BY <1>27 DEF OpenFile
<1>28. CASE CloseFile
  BY <1>28 DEF CloseFile
<1>29. CASE UNCHANGED vars
  BY <1>29
<1> QED
  BY <1>0, <1>1, <1>2, <1>3, <1>4, <1>5, <1>6, <1>7, <1>8, <1>9, <1>10, <1>11,
     <1>12, <1>13, <1>14, <1>15, <1>16, <1>17, <1>18, <1>19, <1>20, <1>21,
     <1>22, <1>23, <1>24, <1>25, <1>26, <1>27, <1>28, <1>29
     DEF Next, Step, Enter, Leave, Close

\* A freshly opened session has the right types.
LEMMA TypeInit == ASSUME Init PROVE TypeOK
<1> USE SlotAssumption, RetryAssumption
<1>1. /\ state \in [Slots -> SlotStates]
      /\ hinted \subseteq Slots
      /\ attached \in BOOLEAN /\ node \in BOOLEAN
      /\ mounted \subseteq Slots /\ claims \subseteq Slots /\ pinned \subseteq mounted
  BY DEF Init, Slots, SlotStates
<1>2. pc \in [Threads -> Labels] /\ back \in [Threads -> Labels]
  BY DEF Init, Labels
<1>3. slot \in [Threads -> Slots] /\ cur \in [Threads -> Slots]
  BY DEF Init, Slots
<1>4. repl \in [Threads -> BOOLEAN] /\ rc \in [Threads -> Results]
  BY DEF Init, Results
<1>5. waited \in [Threads -> 0..MaxRetries] /\ todo \in [Threads -> SUBSET Parts]
  BY SMTT(60) DEF Init
<1> QED
  BY <1>1, <1>2, <1>3, <1>4, <1>5 DEF TypeOK

\* The records, labels and sets of a session keep their types in every call
\* sequence.
THEOREM TypeCorrect == Spec => []TypeOK
BY TypeInit, TypeStep, PTL DEF Spec

\* Where each thread is, and who may be inside the library with it.
LEMMA ControlStep == Control /\ [Next]_vars => Control'
<1> SUFFICES ASSUME Control, [Next]_vars PROVE Control'
  OBVIOUS
<1> DEFINE Places == (\A t \in Threads : Shape(t)) /\ Alone
<1>t. /\ pc \in [Threads -> Labels] /\ slot \in [Threads -> Slots]
      /\ repl \in [Threads -> BOOLEAN] /\ rc \in [Threads -> Results]
      /\ back \in [Threads -> Labels] /\ cur \in [Threads -> Slots]
      /\ attached \in BOOLEAN /\ todo \in [Threads -> SUBSET Parts] /\ Places
  BY DEF Control, TypeOK
<1> USE SlotAssumption, FlagAssumption, CallerAssumption, <1>t
        DEF Shape, Alone, EnterLabels, MountLabels, LeaveLabels,
            vars, kernelVars, callVars
<1>0. ASSUME NEW t \in Threads, CallRefused(t) PROVE Places'
  BY <1>0 DEF CallRefused, MayCall
<1>1. ASSUME NEW t \in Threads, CallEnter(t) PROVE Places'
  <2> PICK s \in Slots, r \in BOOLEAN :
         /\ r => MayRelease
         /\ slot' = [slot EXCEPT ![t] = s]
         /\ repl' = [repl EXCEPT ![t] = r]
    BY <1>1 DEF CallEnter
  <2>1. \A u \in Threads : Shape(u)'
    BY <1>1, SMTT(60) DEF CallEnter, MayCall, Goto
  <2>2. ASSUME NEW u \in Threads, pc[u] # "idle" PROVE ~Serialised /\ pc[u] \in EnterLabels
    BY <1>1, <2>2 DEF CallEnter, MayCall, Closing, Idle, Labels
  <2>3. Alone'
    BY <1>1, <2>2, SMTT(60) DEF CallEnter, Goto
  <2> QED
    BY <2>1, <2>3
<1>2. ASSUME NEW t \in Threads, CallLeave(t) PROVE Places'
  BY <1>2, SMTT(60) DEF CallLeave, MayCall, Goto, Closing, Idle
<1>3. ASSUME NEW t \in Threads, CallClose(t) PROVE Places'
  BY <1>3, SMTT(60) DEF CallClose, MayCall, Goto, Closing, Idle
<1>4. ASSUME NEW t \in Threads, SpuriousWakeup(t) PROVE Places'
  BY <1>4, SMTT(60) DEF SpuriousWakeup, Goto
<1>5. ASSUME NEW t \in Threads, EnterWait(t) PROVE Places'
  BY <1>5, SMTT(60) DEF EnterWait, Goto
<1>6. ASSUME NEW t \in Threads, EnterDone(t) PROVE Places'
  BY <1>6, SMTT(60) DEF EnterDone, Return
<1>7. ASSUME NEW t \in Threads, EnterStart(t) PROVE Places'
  BY <1>7, SMTT(60) DEF EnterStart, StartMounting, FirstLabel, Goto, IsFS
<1>8. ASSUME NEW t \in Threads, ContainerFail(t) PROVE Places'
  BY <1>8, SMTT(60) DEF ContainerFail, Broadcast
<1>9. ASSUME NEW t \in Threads, ReleaseWhole(t) PROVE Places'
  BY <1>9, SMTT(60) DEF ReleaseWhole, Goto
<1>10. ASSUME NEW t \in Threads, ReleasePart(t) PROVE Places'
  BY <1>10, SMTT(60) DEF ReleasePart, Goto
<1>11. ASSUME NEW t \in Threads, ReleaseDone(t) PROVE Places'
  BY <1>11, SMTT(60) DEF ReleaseDone, Goto
<1>12. ASSUME NEW t \in Threads, Mknod(t) PROVE Places'
  BY <1>12, SMTT(60) DEF Mknod, Goto
<1>13. ASSUME NEW t \in Threads, Mount(t) PROVE Places'
  BY <1>13, SMTT(60) DEF Mount, MountResults, Goto
<1>14. ASSUME NEW t \in Threads, Busy(t) PROVE Places'
  BY <1>14, SMTT(60) DEF Busy, Goto
<1>15. ASSUME NEW t \in Threads, Commit(t) PROVE Places'
  BY <1>15, SMTT(60) DEF Commit, Outcome, Broadcast
<1>16. ASSUME NEW t \in Threads, UnlinkAfterFailure(t) PROVE Places'
  BY <1>16, SMTT(60) DEF UnlinkAfterFailure, Goto
<1>17. ASSUME NEW t \in Threads, LeaveCheck(t) PROVE Places'
  <2>1. CASE IsFS(cur[t]) /\ state[cur[t]] = "MOUNTED"
    BY <1>17, <2>1, SMTT(60) DEF LeaveCheck, Goto
  <2>2. CASE ~(IsFS(cur[t]) /\ state[cur[t]] = "MOUNTED")
    BY <1>17, <2>2, SMTT(60) DEF LeaveCheck, Resume, Goto
  <2> QED
    BY <2>1, <2>2
<1>18. ASSUME NEW t \in Threads, UmountRefused(t) PROVE Places'
  BY <1>18, SMTT(60) DEF UmountRefused, Resume, Goto
<1>19. ASSUME NEW t \in Threads, Umount(t) PROVE Places'
  BY <1>19, SMTT(60) DEF Umount, Goto
<1>20. ASSUME NEW t \in Threads, UnlinkLeft(t) PROVE Places'
  BY <1>20, SMTT(60) DEF UnlinkLeft, Goto
<1>21. ASSUME NEW t \in Threads, LeaveDone(t) PROVE Places'
  BY <1>21, SMTT(60) DEF LeaveDone, Resume, Goto
<1>22. ASSUME NEW t \in Threads, CloseSlot(t) PROVE Places'
  BY <1>22, SMTT(60) DEF CloseSlot, Goto
<1>23. ASSUME NEW t \in Threads, CloseLoopDone(t) PROVE Places'
  BY <1>23, SMTT(60) DEF CloseLoopDone, Goto
<1>24. ASSUME NEW t \in Threads, DiskRemove(t) PROVE Places'
  BY <1>24, SMTT(60) DEF DiskRemove, Return
<1>25. ASSUME Open PROVE Places'
  BY <1>25 DEF Open
<1>26. ASSUME DelayedFput PROVE Places'
  BY <1>26, SMTT(60) DEF DelayedFput
<1>27. ASSUME OpenFile PROVE Places'
  BY <1>27, SMTT(60) DEF OpenFile
<1>28. ASSUME CloseFile PROVE Places'
  BY <1>28, SMTT(60) DEF CloseFile
<1>29. ASSUME UNCHANGED vars PROVE Places'
  BY <1>29
<1> HIDE DEF Places
<1>30. Places'
  BY <1>0, <1>1, <1>2, <1>3, <1>4, <1>5, <1>6, <1>7, <1>8, <1>9, <1>10, <1>11,
     <1>12, <1>13, <1>14, <1>15, <1>16, <1>17, <1>18, <1>19, <1>20,
     <1>21, <1>22, <1>23, <1>24, <1>25, <1>26, <1>27, <1>28, <1>29
     DEF Next, Step, Enter, Leave, Close
<1> QED
  BY <1>30, TypeStep DEF Control, Places

\* One mounter per slot: a thread leaves the mounting labels only by recording
\* the result, and nobody else touches a slot that is MOUNTING.
LEMMA ExclusiveStep == IInv /\ [Next]_vars => MountExclusive'
<1> SUFFICES ASSUME IInv, [Next]_vars PROVE MountExclusive'
  OBVIOUS
<1>t. /\ state \in [Slots -> SlotStates] /\ pc \in [Threads -> Labels]
      /\ slot \in [Threads -> Slots] /\ rc \in [Threads -> Results]
      /\ cur \in [Threads -> Slots] /\ back \in [Threads -> Labels]
      /\ (\A t \in Threads : Shape(t)) /\ Alone
  BY DEF IInv, Control, TypeOK
<1>m. MountExclusive /\ Kernel
  BY DEF IInv
<1> USE SlotAssumption, CallerAssumption, <1>t, <1>m
        DEF Shape, Alone, EnterLabels, MountLabels, LeaveLabels, vars, kernelVars, callVars
<1> USE DEF MountExclusive, Mounting
<1>0. ASSUME NEW t \in Threads, CallRefused(t) PROVE MountExclusive'
  BY <1>0, SMTT(60) DEF CallRefused, MayCall
<1>1. ASSUME NEW t \in Threads, CallEnter(t) PROVE MountExclusive'
  BY <1>1, SMTT(60) DEF CallEnter, MayCall, Goto, Closing, Idle
<1>2. ASSUME NEW t \in Threads, CallLeave(t) PROVE MountExclusive'
  BY <1>2, SMTT(60) DEF CallLeave, MayCall, Goto, Closing, Idle
<1>3. ASSUME NEW t \in Threads, CallClose(t) PROVE MountExclusive'
  BY <1>3, SMTT(60) DEF CallClose, MayCall, Goto, Closing, Idle
<1>4. ASSUME NEW t \in Threads, SpuriousWakeup(t) PROVE MountExclusive'
  BY <1>4, SMTT(60) DEF SpuriousWakeup, Goto
<1>5. ASSUME NEW t \in Threads, EnterWait(t) PROVE MountExclusive'
  BY <1>5, SMTT(60) DEF EnterWait, Goto
<1>6. ASSUME NEW t \in Threads, EnterDone(t) PROVE MountExclusive'
  BY <1>6, SMTT(60) DEF EnterDone, Return
<1>7. ASSUME NEW t \in Threads, EnterStart(t) PROVE MountExclusive'
  BY <1>7, SMTT(60) DEF EnterStart, StartMounting, FirstLabel, Goto, IsFS
<1>8. ASSUME NEW t \in Threads, ContainerFail(t) PROVE MountExclusive'
  BY <1>8, SMTT(60) DEF ContainerFail, Broadcast
<1>9. ASSUME NEW t \in Threads, ReleaseWhole(t) PROVE MountExclusive'
  BY <1>9, SMTT(60) DEF ReleaseWhole, Goto
<1>10. ASSUME NEW t \in Threads, ReleasePart(t) PROVE MountExclusive'
  <2>1. UNCHANGED <<state, slot>> /\ \A u \in Threads : Mounting(u)' <=> Mounting(u)
    BY <1>10, SMTT(60) DEF ReleasePart, Goto
  <2> HIDE DEF Mounting
  <2> QED
    BY <2>1
<1>11. ASSUME NEW t \in Threads, ReleaseDone(t) PROVE MountExclusive'
  <2>1. UNCHANGED <<state, slot>> /\ \A u \in Threads : Mounting(u)' <=> Mounting(u)
    BY <1>11, SMTT(60) DEF ReleaseDone, Goto
  <2> HIDE DEF Mounting
  <2> QED
    BY <2>1
<1>12. ASSUME NEW t \in Threads, Mknod(t) PROVE MountExclusive'
  BY <1>12, SMTT(60) DEF Mknod, Goto
<1>13. ASSUME NEW t \in Threads, Mount(t) PROVE MountExclusive'
  BY <1>13, SMTT(60) DEF Mount, MountResults, Goto
<1>14. ASSUME NEW t \in Threads, Busy(t) PROVE MountExclusive'
  BY <1>14, SMTT(60) DEF Busy, Goto
<1>15. ASSUME NEW t \in Threads, Commit(t) PROVE MountExclusive'
  BY <1>15, SMTT(60) DEF Commit, Outcome, Broadcast
<1>16. ASSUME NEW t \in Threads, UnlinkAfterFailure(t) PROVE MountExclusive'
  BY <1>16, SMTT(60) DEF UnlinkAfterFailure, Goto
<1>17. ASSUME NEW t \in Threads, LeaveCheck(t) PROVE MountExclusive'
  BY <1>17, SMTT(60) DEF LeaveCheck, Resume, Goto
<1>18. ASSUME NEW t \in Threads, UmountRefused(t) PROVE MountExclusive'
  BY <1>18, SMTT(60) DEF UmountRefused, Resume, Goto
<1>19. ASSUME NEW t \in Threads, Umount(t) PROVE MountExclusive'
  BY <1>19, SMTT(60) DEF Umount, Goto
<1>20. ASSUME NEW t \in Threads, UnlinkLeft(t) PROVE MountExclusive'
  BY <1>20, SMTT(60) DEF UnlinkLeft, Goto
<1>21. ASSUME NEW t \in Threads, LeaveDone(t) PROVE MountExclusive'
  BY <1>21, SMTT(60) DEF LeaveDone, Resume, Goto, Kernel, Leaving
<1>22. ASSUME NEW t \in Threads, CloseSlot(t) PROVE MountExclusive'
  BY <1>22, SMTT(60) DEF CloseSlot, Goto
<1>23. ASSUME NEW t \in Threads, CloseLoopDone(t) PROVE MountExclusive'
  BY <1>23, SMTT(60) DEF CloseLoopDone, Goto
<1>24. ASSUME NEW t \in Threads, DiskRemove(t) PROVE MountExclusive'
  BY <1>24, SMTT(60) DEF DiskRemove, Return
<1>25. CASE Open
  BY <1>25 DEF Open
<1>26. CASE DelayedFput
  BY <1>26, SMTT(60) DEF DelayedFput
<1>27. CASE OpenFile
  BY <1>27, SMTT(60) DEF OpenFile
<1>28. CASE CloseFile
  BY <1>28, SMTT(60) DEF CloseFile
<1>29. CASE UNCHANGED vars
  BY <1>29, SMTT(60)
<1> QED
  BY <1>0, <1>1, <1>2, <1>3, <1>4, <1>5, <1>6, <1>7, <1>8, <1>9, <1>10, <1>11,
     <1>12, <1>13, <1>14, <1>15, <1>16, <1>17, <1>18, <1>19, <1>20,
     <1>21, <1>22, <1>23, <1>24, <1>25, <1>26, <1>27, <1>28, <1>29
     DEF Next, Step, Enter, Leave, Close

\* The kernel keeps overlapping mounts apart, and nobody unmounts behind a thread
\* that has just mounted: whoever unmounts is alone.
LEMMA KernelStep == IInv /\ [Next]_vars => Kernel'
<1> SUFFICES ASSUME IInv, [Next]_vars PROVE Kernel'
  OBVIOUS
<1>t. /\ state \in [Slots -> SlotStates] /\ pc \in [Threads -> Labels]
      /\ slot \in [Threads -> Slots] /\ rc \in [Threads -> Results]
      /\ cur \in [Threads -> Slots] /\ back \in [Threads -> Labels]
      /\ mounted \subseteq Slots /\ pinned \subseteq mounted /\ todo \in [Threads -> SUBSET Parts]
      /\ (\A t \in Threads : Shape(t)) /\ Alone
  BY DEF IInv, Control, TypeOK
<1>m. Kernel
  BY DEF IInv
<1> USE SlotAssumption, CallerAssumption, <1>t, <1>m
        DEF Shape, Alone, EnterLabels, MountLabels, LeaveLabels, vars, kernelVars, callVars
<1> USE DEF Kernel, Leaving
<1>0. ASSUME NEW t \in Threads, CallRefused(t) PROVE Kernel'
  BY <1>0 DEF CallRefused, MayCall
<1>1. ASSUME NEW t \in Threads, CallEnter(t) PROVE Kernel'
  BY <1>1, SMTT(60) DEF CallEnter, MayCall, Goto
<1>2. ASSUME NEW t \in Threads, CallLeave(t) PROVE Kernel'
  BY <1>2, SMTT(60) DEF CallLeave, MayCall, Goto
<1>3. ASSUME NEW t \in Threads, CallClose(t) PROVE Kernel'
  BY <1>3, SMTT(60) DEF CallClose, MayCall, Goto
<1>4. ASSUME NEW t \in Threads, SpuriousWakeup(t) PROVE Kernel'
  BY <1>4 DEF SpuriousWakeup, Goto
<1>5. ASSUME NEW t \in Threads, EnterWait(t) PROVE Kernel'
  BY <1>5, SMTT(60) DEF EnterWait, Goto
<1>6. ASSUME NEW t \in Threads, EnterDone(t) PROVE Kernel'
  BY <1>6, SMTT(60) DEF EnterDone, Return
<1>7. ASSUME NEW t \in Threads, EnterStart(t) PROVE Kernel'
  BY <1>7, SMTT(60) DEF EnterStart, StartMounting, FirstLabel, Goto, IsFS
<1>8. ASSUME NEW t \in Threads, ContainerFail(t) PROVE Kernel'
  BY <1>8, SMTT(60) DEF ContainerFail, Broadcast, MountExclusive, Mounting
<1>9. ASSUME NEW t \in Threads, ReleaseWhole(t) PROVE Kernel'
  BY <1>9, SMTT(60) DEF ReleaseWhole, Goto
<1>10. ASSUME NEW t \in Threads, ReleasePart(t) PROVE Kernel'
  BY <1>10, SMTT(60) DEF ReleasePart, Goto
<1>11. ASSUME NEW t \in Threads, ReleaseDone(t) PROVE Kernel'
  BY <1>11, SMTT(60) DEF ReleaseDone, Goto
<1>12. ASSUME NEW t \in Threads, Mknod(t) PROVE Kernel'
  BY <1>12 DEF Mknod, Goto
<1>13. ASSUME NEW t \in Threads, Mount(t) PROVE Kernel'
  <2> PICK r \in MountResults(slot[t]) :
         /\ rc' = [rc EXCEPT ![t] = r]
         /\ mounted' = IF r = "OK" THEN mounted \cup {slot[t]} ELSE mounted
    BY <1>13 DEF Mount
  <2>1. r = "OK" => \A c \in Overlaps(slot[t]) : c \notin mounted
    BY DEF MountResults, Blocked
  <2>2. \A s \in mounted' : IsFS(s) /\ \A c \in Overlaps(s) : c \notin mounted'
    BY <1>13, <2>1, SMTT(60) DEF Mount, Overlaps, Slots
  <2>3. \A u \in Threads : pc'[u] = "commit" /\ rc'[u] = "OK" => slot'[u] \in mounted'
    BY <1>13, SMTT(60) DEF Mount, Goto
  <2>4. \A u \in Threads, s \in Slots :
           Leaving(u, s)' => s \notin mounted' /\ state'[s] = "MOUNTED"
    BY <1>13, SMTT(60) DEF Mount, Goto
  <2> QED
    BY <2>2, <2>3, <2>4 DEF Overlaps
<1>14. ASSUME NEW t \in Threads, Busy(t) PROVE Kernel'
  BY <1>14, SMTT(60) DEF Busy, Goto
<1>15. ASSUME NEW t \in Threads, Commit(t) PROVE Kernel'
  BY <1>15, SMTT(60) DEF Commit, Outcome, Broadcast
<1>16. ASSUME NEW t \in Threads, UnlinkAfterFailure(t) PROVE Kernel'
  BY <1>16 DEF UnlinkAfterFailure, Goto
<1>17. ASSUME NEW t \in Threads, LeaveCheck(t) PROVE Kernel'
  BY <1>17, SMTT(60) DEF LeaveCheck, Resume, Goto
<1>18. ASSUME NEW t \in Threads, UmountRefused(t) PROVE Kernel'
  BY <1>18, SMTT(60) DEF UmountRefused, Resume, Goto
<1>19. ASSUME NEW t \in Threads, Umount(t) PROVE Kernel'
  <2>1. TableMatchesKernel
    BY DEF IInv
  <2> QED
    BY <1>19, <2>1, SMTT(60) DEF Umount, Goto, TableMatchesKernel
<1>20. ASSUME NEW t \in Threads, UnlinkLeft(t) PROVE Kernel'
  BY <1>20, SMTT(60) DEF UnlinkLeft, Goto
<1>21. ASSUME NEW t \in Threads, LeaveDone(t) PROVE Kernel'
  BY <1>21, SMTT(60) DEF LeaveDone, Resume, Goto
<1>22. ASSUME NEW t \in Threads, CloseSlot(t) PROVE Kernel'
  BY <1>22, SMTT(60) DEF CloseSlot, Goto
<1>23. ASSUME NEW t \in Threads, CloseLoopDone(t) PROVE Kernel'
  BY <1>23, SMTT(60) DEF CloseLoopDone, Goto
<1>24. ASSUME NEW t \in Threads, DiskRemove(t) PROVE Kernel'
  BY <1>24 DEF DiskRemove, Return
<1>25. CASE Open
  BY <1>25 DEF Open
<1>26. CASE DelayedFput
  BY <1>26, SMTT(60) DEF DelayedFput
<1>27. CASE OpenFile
  BY <1>27, SMTT(60) DEF OpenFile
<1>28. CASE CloseFile
  BY <1>28, SMTT(60) DEF CloseFile
<1>29. CASE UNCHANGED vars
  BY <1>29
<1> QED
  BY <1>0, <1>1, <1>2, <1>3, <1>4, <1>5, <1>6, <1>7, <1>8, <1>9, <1>10, <1>11,
     <1>12, <1>13, <1>14, <1>15, <1>16, <1>17, <1>18, <1>19, <1>20,
     <1>21, <1>22, <1>23, <1>24, <1>25, <1>26, <1>27, <1>28, <1>29
     DEF Next, Step, Enter, Leave, Close

\* Mounts and unmounts reach the table before anybody else can rely on it.
LEMMA TableStep == IInv /\ [Next]_vars => TableMatchesKernel'
<1> SUFFICES ASSUME IInv, [Next]_vars PROVE TableMatchesKernel'
  OBVIOUS
<1>t. /\ state \in [Slots -> SlotStates] /\ pc \in [Threads -> Labels]
      /\ slot \in [Threads -> Slots] /\ rc \in [Threads -> Results]
      /\ cur \in [Threads -> Slots] /\ back \in [Threads -> Labels]
      /\ mounted \subseteq Slots /\ pinned \subseteq mounted /\ todo \in [Threads -> SUBSET Parts]
      /\ (\A t \in Threads : Shape(t)) /\ Alone
  BY DEF IInv, Control, TypeOK
<1>m. TableMatchesKernel /\ Kernel /\ MountExclusive
  BY DEF IInv
<1> USE SlotAssumption, CallerAssumption, <1>t, <1>m
        DEF Shape, Alone, EnterLabels, MountLabels, LeaveLabels, vars, kernelVars, callVars
<1> USE DEF TableMatchesKernel, Leaving, Kernel, Closing
<1>0. ASSUME NEW t \in Threads, CallRefused(t) PROVE TableMatchesKernel'
  BY <1>0, SMTT(60) DEF CallRefused, MayCall
<1>1. ASSUME NEW t \in Threads, CallEnter(t) PROVE TableMatchesKernel'
  BY <1>1, SMTT(60) DEF CallEnter, MayCall, Goto, Idle
<1>2. ASSUME NEW t \in Threads, CallLeave(t) PROVE TableMatchesKernel'
  BY <1>2 DEF CallLeave, MayCall, Goto, Idle
<1>3. ASSUME NEW t \in Threads, CallClose(t) PROVE TableMatchesKernel'
  BY <1>3 DEF CallClose, MayCall, Goto, Idle
<1>4. ASSUME NEW t \in Threads, SpuriousWakeup(t) PROVE TableMatchesKernel'
  BY <1>4, SMTT(60) DEF SpuriousWakeup, Goto
<1>5. ASSUME NEW t \in Threads, EnterWait(t) PROVE TableMatchesKernel'
  BY <1>5, SMTT(60) DEF EnterWait, Goto
<1>6. ASSUME NEW t \in Threads, EnterDone(t) PROVE TableMatchesKernel'
  BY <1>6, SMTT(60) DEF EnterDone, Return
<1>7. ASSUME NEW t \in Threads, EnterStart(t) PROVE TableMatchesKernel'
  BY <1>7, SMTT(60) DEF EnterStart, StartMounting, FirstLabel, Goto, IsFS
<1>8. ASSUME NEW t \in Threads, ContainerFail(t) PROVE TableMatchesKernel'
  BY <1>8, SMTT(60) DEF ContainerFail, Broadcast, MountExclusive, Mounting
<1>9. ASSUME NEW t \in Threads, ReleaseWhole(t) PROVE TableMatchesKernel'
  BY <1>9, SMTT(60) DEF ReleaseWhole, Goto
<1>10. ASSUME NEW t \in Threads, ReleasePart(t) PROVE TableMatchesKernel'
  BY <1>10, SMTT(60) DEF ReleasePart, Goto
<1>11. ASSUME NEW t \in Threads, ReleaseDone(t) PROVE TableMatchesKernel'
  BY <1>11, SMTT(60) DEF ReleaseDone, Goto
<1>12. ASSUME NEW t \in Threads, Mknod(t) PROVE TableMatchesKernel'
  BY <1>12, SMTT(60) DEF Mknod, Goto
<1>13. ASSUME NEW t \in Threads, Mount(t) PROVE TableMatchesKernel'
  BY <1>13, SMTT(60) DEF Mount, MountResults, Goto, MountExclusive, Mounting
<1>14. ASSUME NEW t \in Threads, Busy(t) PROVE TableMatchesKernel'
  BY <1>14, SMTT(60) DEF Busy, Goto
<1>15. ASSUME NEW t \in Threads, Commit(t) PROVE TableMatchesKernel'
  BY <1>15, SMTT(60) DEF Commit, Outcome, Broadcast, MountExclusive, Mounting
<1>16. ASSUME NEW t \in Threads, UnlinkAfterFailure(t) PROVE TableMatchesKernel'
  BY <1>16, SMTT(60) DEF UnlinkAfterFailure, Goto
<1>17. ASSUME NEW t \in Threads, LeaveCheck(t) PROVE TableMatchesKernel'
  BY <1>17, SMTT(60) DEF LeaveCheck, Resume, Goto
<1>18. ASSUME NEW t \in Threads, UmountRefused(t) PROVE TableMatchesKernel'
  BY <1>18, SMTT(60) DEF UmountRefused, Resume, Goto
<1>19. ASSUME NEW t \in Threads, Umount(t) PROVE TableMatchesKernel'
  BY <1>19, SMTT(60) DEF Umount, Goto
<1>20. ASSUME NEW t \in Threads, UnlinkLeft(t) PROVE TableMatchesKernel'
  BY <1>20, SMTT(60) DEF UnlinkLeft, Goto
<1>21. ASSUME NEW t \in Threads, LeaveDone(t) PROVE TableMatchesKernel'
  BY <1>21, SMTT(60) DEF LeaveDone, Resume, Goto
<1>22. ASSUME NEW t \in Threads, CloseSlot(t) PROVE TableMatchesKernel'
  BY <1>22, SMTT(60) DEF CloseSlot, Goto
<1>23. ASSUME NEW t \in Threads, CloseLoopDone(t) PROVE TableMatchesKernel'
  BY <1>23, SMTT(60) DEF CloseLoopDone, Goto
<1>24. ASSUME NEW t \in Threads, DiskRemove(t) PROVE TableMatchesKernel'
  BY <1>24 DEF DiskRemove, Return
<1>25. CASE Open
  BY <1>25 DEF Open
<1>26. CASE DelayedFput
  BY <1>26, SMTT(60) DEF DelayedFput
<1>27. CASE OpenFile
  BY <1>27, SMTT(60) DEF OpenFile
<1>28. CASE CloseFile
  BY <1>28, SMTT(60) DEF CloseFile
<1>29. CASE UNCHANGED vars
  BY <1>29, SMTT(60)
<1> QED
  BY <1>0, <1>1, <1>2, <1>3, <1>4, <1>5, <1>6, <1>7, <1>8, <1>9, <1>10, <1>11,
     <1>12, <1>13, <1>14, <1>15, <1>16, <1>17, <1>18, <1>19, <1>20,
     <1>21, <1>22, <1>23, <1>24, <1>25, <1>26, <1>27, <1>28, <1>29
     DEF Next, Step, Enter, Leave, Close

\* A successful mount finds no overlapping slot on record.
LEMMA OverlapStep == IInv /\ [Next]_vars => NoOverlap'
<1> SUFFICES ASSUME IInv, [Next]_vars PROVE NoOverlap'
  OBVIOUS
<1> USE SlotAssumption DEF IInv, Control, TypeOK, NoOverlap, Slots, vars, kernelVars, callVars
<1>0. ASSUME NEW t \in Threads, CallRefused(t) PROVE NoOverlap'
  BY <1>0 DEF CallRefused, MayCall
<1>1. ASSUME NEW t \in Threads, CallEnter(t) PROVE NoOverlap'
  BY <1>1 DEF CallEnter, MayCall, Goto
<1>2. ASSUME NEW t \in Threads, CallLeave(t) PROVE NoOverlap'
  BY <1>2 DEF CallLeave, MayCall, Goto
<1>3. ASSUME NEW t \in Threads, CallClose(t) PROVE NoOverlap'
  BY <1>3 DEF CallClose, MayCall, Goto
<1>4. ASSUME NEW t \in Threads, SpuriousWakeup(t) PROVE NoOverlap'
  BY <1>4 DEF SpuriousWakeup, Goto
<1>5. ASSUME NEW t \in Threads, EnterWait(t) PROVE NoOverlap'
  BY <1>5 DEF EnterWait, Goto
<1>6. ASSUME NEW t \in Threads, EnterDone(t) PROVE NoOverlap'
  BY <1>6 DEF EnterDone, Return
<1>7. ASSUME NEW t \in Threads, EnterStart(t) PROVE NoOverlap'
  BY <1>7 DEF EnterStart, StartMounting, FirstLabel, Goto, IsFS
<1>8. ASSUME NEW t \in Threads, ContainerFail(t) PROVE NoOverlap'
  BY <1>8 DEF ContainerFail, Broadcast
<1>9. ASSUME NEW t \in Threads, ReleaseWhole(t) PROVE NoOverlap'
  BY <1>9 DEF ReleaseWhole, Goto
<1>10. ASSUME NEW t \in Threads, ReleasePart(t) PROVE NoOverlap'
  BY <1>10 DEF ReleasePart, Goto
<1>11. ASSUME NEW t \in Threads, ReleaseDone(t) PROVE NoOverlap'
  BY <1>11 DEF ReleaseDone, Goto
<1>12. ASSUME NEW t \in Threads, Mknod(t) PROVE NoOverlap'
  BY <1>12 DEF Mknod, Goto
<1>13. ASSUME NEW t \in Threads, Mount(t) PROVE NoOverlap'
  BY <1>13 DEF Mount, MountResults, Goto
<1>14. ASSUME NEW t \in Threads, Busy(t) PROVE NoOverlap'
  BY <1>14 DEF Busy, Goto
<1>15. ASSUME NEW t \in Threads, Commit(t) PROVE NoOverlap'
  BY <1>15, SMTT(60)
     DEF Commit, Outcome, Broadcast, Shape, Alone, EnterLabels, MountLabels, LeaveLabels,
           TableMatchesKernel, Kernel, Overlaps, Closing, Leaving
<1>16. ASSUME NEW t \in Threads, UnlinkAfterFailure(t) PROVE NoOverlap'
  BY <1>16 DEF UnlinkAfterFailure, Goto
<1>17. ASSUME NEW t \in Threads, LeaveCheck(t) PROVE NoOverlap'
  BY <1>17 DEF LeaveCheck, Resume, Goto
<1>18. ASSUME NEW t \in Threads, UmountRefused(t) PROVE NoOverlap'
  BY <1>18 DEF UmountRefused, Resume, Goto
<1>19. ASSUME NEW t \in Threads, Umount(t) PROVE NoOverlap'
  BY <1>19 DEF Umount, Goto
<1>20. ASSUME NEW t \in Threads, UnlinkLeft(t) PROVE NoOverlap'
  BY <1>20 DEF UnlinkLeft, Goto
<1>21. ASSUME NEW t \in Threads, LeaveDone(t) PROVE NoOverlap'
  BY <1>21 DEF LeaveDone, Resume, Goto, Kernel
<1>22. ASSUME NEW t \in Threads, CloseSlot(t) PROVE NoOverlap'
  BY <1>22 DEF CloseSlot, Goto
<1>23. ASSUME NEW t \in Threads, CloseLoopDone(t) PROVE NoOverlap'
  BY <1>23 DEF CloseLoopDone, Goto
<1>24. ASSUME NEW t \in Threads, DiskRemove(t) PROVE NoOverlap'
  BY <1>24 DEF DiskRemove, Return
<1>25. CASE Open
  BY <1>25 DEF Open
<1>26. CASE DelayedFput
  BY <1>26 DEF DelayedFput
<1>27. CASE OpenFile
  BY <1>27 DEF OpenFile
<1>28. CASE CloseFile
  BY <1>28 DEF CloseFile
<1>29. CASE UNCHANGED vars
  BY <1>29
<1> QED
  BY <1>0, <1>1, <1>2, <1>3, <1>4, <1>5, <1>6, <1>7, <1>8, <1>9, <1>10, <1>11,
     <1>12, <1>13, <1>14, <1>15, <1>16, <1>17, <1>18, <1>19, <1>20,
     <1>21, <1>22, <1>23, <1>24, <1>25, <1>26, <1>27, <1>28, <1>29
     DEF Next, Step, Enter, Leave, Close

\* The loop of a close starts from every partition and the whole disk.
LEMMA CloseStep == IInv /\ [Next]_vars => ClosePending'
<1> SUFFICES ASSUME IInv, [Next]_vars PROVE ClosePending'
  OBVIOUS
<1>t. /\ state \in [Slots -> SlotStates] /\ pc \in [Threads -> Labels]
      /\ slot \in [Threads -> Slots] /\ rc \in [Threads -> Results]
      /\ cur \in [Threads -> Slots] /\ back \in [Threads -> Labels]
      /\ mounted \subseteq Slots /\ pinned \subseteq mounted /\ todo \in [Threads -> SUBSET Parts]
      /\ (\A t \in Threads : Shape(t)) /\ Alone
  BY DEF IInv, Control, TypeOK
<1>m. ClosePending /\ TableMatchesKernel /\ Kernel
  BY DEF IInv
<1> USE SlotAssumption, CallerAssumption, <1>t, <1>m
        DEF Shape, Alone, EnterLabels, MountLabels, LeaveLabels, vars, kernelVars, callVars
<1> USE DEF ClosePending
<1>0. ASSUME NEW t \in Threads, CallRefused(t) PROVE ClosePending'
  BY <1>0 DEF CallRefused, MayCall
<1>1. ASSUME NEW t \in Threads, CallEnter(t) PROVE ClosePending'
  BY <1>1, SMTT(60) DEF CallEnter, MayCall, Goto
<1>2. ASSUME NEW t \in Threads, CallLeave(t) PROVE ClosePending'
  BY <1>2, SMTT(60) DEF CallLeave, MayCall, Goto
<1>3. ASSUME NEW t \in Threads, CallClose(t) PROVE ClosePending'
  BY <1>3, SMTT(60) DEF CallClose, MayCall, Goto, TableMatchesKernel, Idle, Slots
<1>4. ASSUME NEW t \in Threads, SpuriousWakeup(t) PROVE ClosePending'
  BY <1>4 DEF SpuriousWakeup, Goto
<1>5. ASSUME NEW t \in Threads, EnterWait(t) PROVE ClosePending'
  BY <1>5, SMTT(60) DEF EnterWait, Goto
<1>6. ASSUME NEW t \in Threads, EnterDone(t) PROVE ClosePending'
  BY <1>6, SMTT(60) DEF EnterDone, Return
<1>7. ASSUME NEW t \in Threads, EnterStart(t) PROVE ClosePending'
  BY <1>7, SMTT(60) DEF EnterStart, StartMounting, FirstLabel, Goto, IsFS
<1>8. ASSUME NEW t \in Threads, ContainerFail(t) PROVE ClosePending'
  BY <1>8 DEF ContainerFail, Broadcast
<1>9. ASSUME NEW t \in Threads, ReleaseWhole(t) PROVE ClosePending'
  BY <1>9, SMTT(60) DEF ReleaseWhole, Goto
<1>10. ASSUME NEW t \in Threads, ReleasePart(t) PROVE ClosePending'
  BY <1>10, SMTT(60) DEF ReleasePart, Goto
<1>11. ASSUME NEW t \in Threads, ReleaseDone(t) PROVE ClosePending'
  BY <1>11, SMTT(60) DEF ReleaseDone, Goto
<1>12. ASSUME NEW t \in Threads, Mknod(t) PROVE ClosePending'
  BY <1>12 DEF Mknod, Goto
<1>13. ASSUME NEW t \in Threads, Mount(t) PROVE ClosePending'
  BY <1>13, SMTT(60) DEF Mount, MountResults, Goto
<1>14. ASSUME NEW t \in Threads, Busy(t) PROVE ClosePending'
  BY <1>14, SMTT(60) DEF Busy, Goto
<1>15. ASSUME NEW t \in Threads, Commit(t) PROVE ClosePending'
  BY <1>15 DEF Commit, Outcome, Broadcast
<1>16. ASSUME NEW t \in Threads, UnlinkAfterFailure(t) PROVE ClosePending'
  BY <1>16 DEF UnlinkAfterFailure, Goto
<1>17. ASSUME NEW t \in Threads, LeaveCheck(t) PROVE ClosePending'
  BY <1>17, SMTT(60) DEF LeaveCheck, Resume, Goto
<1>18. ASSUME NEW t \in Threads, UmountRefused(t) PROVE ClosePending'
  BY <1>18, SMTT(60) DEF UmountRefused, Resume, Goto
<1>19. ASSUME NEW t \in Threads, Umount(t) PROVE ClosePending'
  BY <1>19 DEF Umount, Goto
<1>20. ASSUME NEW t \in Threads, UnlinkLeft(t) PROVE ClosePending'
  BY <1>20 DEF UnlinkLeft, Goto
<1>21. ASSUME NEW t \in Threads, LeaveDone(t) PROVE ClosePending'
  BY <1>21 DEF LeaveDone, Resume, Goto
<1>22. ASSUME NEW t \in Threads, CloseSlot(t) PROVE ClosePending'
  BY <1>22, SMTT(60) DEF CloseSlot, Goto, TableMatchesKernel, Kernel
<1>23. ASSUME NEW t \in Threads, CloseLoopDone(t) PROVE ClosePending'
  BY <1>23 DEF CloseLoopDone, Goto
<1>24. ASSUME NEW t \in Threads, DiskRemove(t) PROVE ClosePending'
  BY <1>24 DEF DiskRemove, Return
<1>25. CASE Open
  BY <1>25 DEF Open
<1>26. CASE DelayedFput
  BY <1>26, SMTT(60) DEF DelayedFput
<1>27. CASE OpenFile
  BY <1>27 DEF OpenFile, Closing
<1>28. CASE CloseFile
  BY <1>28 DEF CloseFile, Closing
<1>29. CASE UNCHANGED vars
  BY <1>29
<1> QED
  BY <1>0, <1>1, <1>2, <1>3, <1>4, <1>5, <1>6, <1>7, <1>8, <1>9, <1>10, <1>11,
     <1>12, <1>13, <1>14, <1>15, <1>16, <1>17, <1>18, <1>19, <1>20,
     <1>21, <1>22, <1>23, <1>24, <1>25, <1>26, <1>27, <1>28, <1>29
     DEF Next, Step, Enter, Leave, Close

\* The inductive invariant holds in every reachable state.
LEMMA Invariance == Spec => []IInv
<1>1. Init => IInv
  <2> SUFFICES ASSUME Init PROVE IInv
    OBVIOUS
  <2>1. TypeOK
    BY TypeInit
  <2>2. Control
    BY <2>1 DEF Control, Init, Shape, Alone, LeaveLabels, MountLabels, EnterLabels
  <2>3. MountExclusive
    BY <2>1 DEF Init, MountExclusive, Mounting
  <2>4. TableMatchesKernel /\ Kernel /\ NoOverlap
    BY SlotAssumption DEF Init, TableMatchesKernel, Kernel, NoOverlap, Leaving, Slots
  <2>5. ClosePending
    BY DEF Init, ClosePending
  <2> QED
    BY <2>2, <2>3, <2>4, <2>5 DEF IInv
<1>2. IInv /\ [Next]_vars => IInv'
  <2> SUFFICES ASSUME IInv, [Next]_vars PROVE IInv'
    OBVIOUS
  <2>1. Control'
    BY ControlStep DEF IInv
  <2> QED
    BY <2>1, ExclusiveStep, KernelStep, TableStep, OverlapStep, CloseStep DEF IInv
<1> QED
  BY <1>1, <1>2, PTL DEF Spec

\* However many threads enter however many partitions, a slot has one
\* mounter at a time and is MOUNTING exactly while it has one.
THEOREM MountsExclude == Spec => []MountExclusive
BY Invariance, PTL DEF IInv

\* The slot table never disagrees with the kernel for longer than the step
\* that records a mount or an unmount.
THEOREM TableAgrees == Spec => []TableMatchesKernel
BY Invariance, PTL DEF IInv

\* A partition and the whole disk are never both on record as mounted.
THEOREM MountsDisjoint == Spec => []NoOverlap
BY Invariance, PTL DEF IInv

\* What the table shows of the kernel is so, and consistent in itself.
THEOREM TableIsTrue == Spec => []TableTrue
BY TableAgrees, MountsDisjoint, PTL DEF TableTrue

\* Every successful enter hands out the path of a mounted filesystem.
THEOREM Delivery == Spec => EnterDelivers
<1>1. IInv /\ [Next]_vars =>
        [\A t \in Threads :
           (EnterDone(t) \/ Commit(t)) /\ rc'[t] = "OK" => slot[t] \in mounted']_vars
  <2> SUFFICES ASSUME IInv, NEW t \in Threads, EnterDone(t) \/ Commit(t), rc'[t] = "OK"
               PROVE  slot[t] \in mounted'
    OBVIOUS
  <2> USE DEF IInv, Control, TypeOK, kernelVars, callVars
  <2>1. CASE EnterDone(t)
    <3>1. state[slot[t]] = "MOUNTED" /\ attached
      BY <2>1 DEF EnterDone, Return, Shape
    <3>2. ~Closing /\ ~ \E u \in Threads : Leaving(u, slot[t])
      BY <2>1 DEF EnterDone, Closing, Leaving, Alone, Shape, EnterLabels, MountLabels
    <3> QED
      BY <2>1, <3>1, <3>2 DEF EnterDone, TableMatchesKernel
  <2>2. CASE Commit(t)
    BY <2>2 DEF Commit, Kernel
  <2> QED
    BY <2>1, <2>2
<1> QED
  BY <1>1, Invariance, PTL DEF Spec, EnterDelivers

\* No call takes a slot out of FAILED.
THEOREM FailureIsFinal == Spec => FailedIsFinal
<1>1. IInv /\ [Next]_vars =>
        [\A s \in Slots : state[s] = "FAILED" /\ attached => state'[s] = "FAILED"]_vars
  <2> SUFFICES ASSUME IInv, Next, NEW s \in Slots, state[s] = "FAILED", attached
               PROVE  state'[s] = "FAILED"
    OBVIOUS
  <2> USE DEF IInv, Control, TypeOK, kernelVars, callVars
  <2>1. ASSUME NEW t \in Threads, EnterStart(t) PROVE state'[s] = "FAILED"
    BY <2>1 DEF EnterStart, StartMounting
  <2>2. ASSUME NEW t \in Threads, ContainerFail(t) PROVE state'[s] = "FAILED"
    BY <2>2 DEF ContainerFail
  <2>3. ASSUME NEW t \in Threads, Commit(t) PROVE state'[s] = "FAILED"
    BY <2>3, SMTT(60) DEF Commit, MountExclusive, Mounting
  <2>4. ASSUME NEW t \in Threads, LeaveDone(t) PROVE state'[s] = "FAILED"
    BY <2>4 DEF LeaveDone, Kernel, Leaving
  <2>5. Open => FALSE
    BY DEF Open
  <2>6. \/ state' = state
        \/ Open
        \/ \E t \in Threads :
             EnterStart(t) \/ ContainerFail(t) \/ Commit(t) \/ LeaveDone(t)
    BY DEF Next, Step, Enter, Leave, Close, CallEnter, CallLeave, CallClose, CallRefused,
           SpuriousWakeup, EnterWait, EnterDone, ReleaseWhole, ReleasePart,
           ReleaseDone, Mknod, Mount, Busy, UnlinkAfterFailure, LeaveCheck,
           UmountRefused, Umount, UnlinkLeft, CloseSlot, CloseLoopDone,
           DiskRemove, DelayedFput, OpenFile, CloseFile
  <2> QED
    BY <2>1, <2>2, <2>3, <2>4, <2>5, <2>6
<1> QED
  BY <1>1, Invariance, PTL DEF Spec, FailedIsFinal

\* Closing a session misses no mount that has no open files.
THEOREM CloseIsComplete == Spec => CloseUnmounts
<1>1. IInv /\ [Next]_vars => [attached /\ ~attached' => mounted \subseteq pinned]_vars
  <2> SUFFICES ASSUME IInv, Next, attached, ~attached'
               PROVE  mounted \subseteq pinned
    OBVIOUS
  <2>1. PICK t \in Threads : DiskRemove(t)
    BY DEF Next, Step, Enter, Leave, Close, CallEnter, CallLeave, CallClose, CallRefused,
           SpuriousWakeup, EnterWait, EnterDone, EnterStart, StartMounting, ContainerFail,
           ReleaseWhole, ReleasePart, ReleaseDone, Mknod, Mount, Busy, Commit,
           UnlinkAfterFailure, LeaveCheck, UmountRefused, Umount, UnlinkLeft,
           LeaveDone, CloseSlot, CloseLoopDone, Open, DelayedFput, OpenFile,
           CloseFile
  <2> QED
    BY <2>1 DEF IInv, Control, Shape, ClosePending, DiskRemove
<1> QED
  BY <1>1, Invariance, PTL DEF Spec, CloseUnmounts

\* The session layer implements the abstract slot table.
THEOREM Refinement == Spec => ImplementsTable
<1>1. Init => Table!Init
  BY DEF Init, Table!Init, TableView, Slots, Table!Slots
<1>2. IInv /\ [Next]_vars => [Table!Next]_TableView
  <2> SUFFICES ASSUME IInv, [Next]_vars PROVE Table!Next \/ TableView' = TableView
    OBVIOUS
  <2> USE DEF IInv, Control, TypeOK, kernelVars, callVars, TableView
  <2>1. ASSUME NEW t \in Threads, EnterStart(t) PROVE Table!Claim(slot[t])
    BY <2>1 DEF EnterStart, StartMounting, Table!Claim, Table!Move, Shape
  <2>2. ASSUME NEW t \in Threads, ContainerFail(t) PROVE Table!Fail(slot[t])
    <3>1. attached /\ slot[t] # Whole /\ state[slot[t]] = "MOUNTING"
      BY <2>2, SlotAssumption, SMTT(60) DEF ContainerFail, Shape, MountExclusive, Mounting
    <3> QED
      BY <2>2, <3>1 DEF ContainerFail, Table!Fail, Table!Move
  <2>3. ASSUME NEW t \in Threads, Commit(t)
        PROVE  Table!Succeed(slot[t]) \/ Table!GiveUp(slot[t]) \/ Table!Fail(slot[t])
    <3>1. /\ attached /\ attached'
          /\ state[slot[t]] = "MOUNTING"
          /\ state' = [state EXCEPT ![slot[t]] = Outcome(slot[t], rc[t])]
      BY <2>3, SMTT(60) DEF Commit, Shape, MountExclusive, Mounting
    <3>2. CASE rc[t] = "OK"
      <4>1. ~Closing /\ \A c \in Slots : ~ \E u \in Threads : Leaving(u, c)
        BY <2>3 DEF Commit, Closing, Leaving, Alone, Shape, EnterLabels, MountLabels
      <4>2. \A c \in Overlaps(slot[t]) : state[c] # "MOUNTED"
        BY <2>3, <3>1, <3>2, <4>1 DEF Commit, Kernel, TableMatchesKernel, Overlaps, Slots
      <4> QED
        BY <3>1, <3>2, <4>2 DEF Outcome, Table!Succeed, Table!Move, Table!Exclusive, Overlaps
    <3>3. CASE rc[t] # "OK" /\ (rc[t] = "EBUSY" \/ slot[t] = Whole)
      BY <3>1, <3>3 DEF Outcome, Table!GiveUp, Table!Move
    <3>4. CASE rc[t] # "OK" /\ rc[t] # "EBUSY" /\ slot[t] # Whole
      BY <3>1, <3>4 DEF Outcome, Table!Fail, Table!Move
    <3> QED
      BY <3>2, <3>3, <3>4
  <2>4. ASSUME NEW t \in Threads, LeaveDone(t) PROVE Table!Release(cur[t])
    BY <2>4 DEF LeaveDone, Table!Release, Table!Move, Kernel, Leaving, Shape
  <2>5. ASSUME NEW t \in Threads, DiskRemove(t) PROVE Table!Reset
    <3>1. \A s \in Slots : state[s] # "MOUNTING"
      BY <2>5, SMTT(60) DEF DiskRemove, MountExclusive, Mounting, Alone, EnterLabels, MountLabels
    <3> QED
      BY <2>5, <3>1 DEF DiskRemove, Table!Reset, Shape, Slots, Table!Slots
  <2>6. Open => TableView' = TableView
    BY DEF Open
  <2>7. \/ state' = state /\ attached' = attached
        \/ Open
        \/ \E t \in Threads : \/ EnterStart(t) \/ ContainerFail(t) \/ Commit(t)
                              \/ LeaveDone(t) \/ DiskRemove(t)
    BY DEF vars, Next, Step, Enter, Leave, Close, CallEnter, CallLeave, CallClose, CallRefused,
           SpuriousWakeup, EnterWait, EnterDone, ReleaseWhole, ReleasePart,
           ReleaseDone, Mknod, Mount, Busy, UnlinkAfterFailure, LeaveCheck,
           UmountRefused, Umount, UnlinkLeft, CloseSlot, CloseLoopDone,
           DelayedFput, OpenFile, CloseFile
  <2>8. \A t \in Threads : slot[t] \in Table!Slots /\ cur[t] \in Table!Slots
    BY DEF Slots, Table!Slots
  <2> QED
    BY <2>1, <2>2, <2>3, <2>4, <2>5, <2>6, <2>7, <2>8, SMTT(60) DEF Table!Next
<1> QED
  BY <1>1, <1>2, Invariance, PTL DEF Spec, ImplementsTable, Table!Spec

-----------------------------------------------------------------------------
(* Callers that replace mounts: the ground is prepared when a mount is       *)
(* attempted, and what an enter answers can be relied on.  IInv is           *)
(* strengthened by what the loop of release_conflicts has done so far.       *)

\* While thread t mounts with REPLACE, a conflicting mount without open files
\* is still ahead of its loop or is the one it is unmounting.
Cleared(t) ==
    repl[t] /\ Mounting(t) /\ IsFS(slot[t]) =>
        /\ slot[t] = Whole =>
              \A p \in Parts : p \in mounted \ pinned =>
                  p \in todo[t] \/ (pc[t] \in {"leave", "umount"} /\ cur[t] = p)
        /\ slot[t] = Whole /\ pc[t] \in MountLabels => todo[t] = {}
        /\ slot[t] # Whole /\ Whole \in mounted \ pinned =>
              pc[t] = "release" \/ (pc[t] = "umount" /\ cur[t] = Whole)

\* The node is there from mknod to the end of the retries, and the whole disk
\* is never given up for good.
NodeKept ==
    /\ state[Whole] # "FAILED"
    /\ \A t \in Threads : pc[t] \in {"mount", "busy"} /\ slot[t] = Whole => node

SerialInv == Serialised /\ (\A t \in Threads : Cleared(t)) /\ NodeKept /\ ReplaceClears

\* Every partition with a filesystem has a type, and a mount of it that was
\* refused is known to have been refused with EBUSY.
HintInv ==
    /\ Parts \ Containers \subseteq Hinted \cap hinted
    /\ \A t \in Threads : pc[t] = "commit" /\ rc[t] = "HIDDEN" => slot[t] = Whole

\* A thread inside an enter sees every mount of the kernel in the table, and
\* the only slot that is MOUNTING is its own.
LEMMA TableExact ==
    ASSUME IInv, SerialInv, NEW t \in Threads, Mounting(t),
           pc[t] \notin {"commit", "unlinkLeft", "left"}
    PROVE  \A s \in Slots : /\ s \in mounted <=> state[s] = "MOUNTED"
                            /\ s \in mounted => IsFS(s)
                            /\ state[s] = "MOUNTING" => s = slot[t]
<1> USE DEF IInv, Control, Shape, Alone, EnterLabels, MountLabels, LeaveLabels, SerialInv,
            Mounting
<1>1. pc[t] # "idle" /\ \A u \in Threads \ {t} : pc[u] = "idle"
  OBVIOUS
<1>2. attached /\ ~Closing /\ \A u \in Threads, s \in Slots : ~Leaving(u, s)
  BY <1>1 DEF Closing, Leaving
<1>3. ASSUME NEW s \in Slots, s \in mounted PROVE state[s] = "MOUNTED" /\ IsFS(s)
  BY <1>1, <1>3 DEF TableMatchesKernel, Kernel
<1>4. ASSUME NEW s \in Slots, state[s] = "MOUNTED" PROVE s \in mounted
  BY <1>2, <1>4 DEF TableMatchesKernel
<1>5. ASSUME NEW s \in Slots, state[s] = "MOUNTING" PROVE s = slot[t]
  <2> HIDE DEF Mounting
  <2>1. PICK u \in Threads : Mounting(u) /\ slot[u] = s
    BY <1>5 DEF MountExclusive
  <2>2. pc[u] # "idle"
    BY <2>1 DEF Mounting
  <2> QED
    BY <1>1, <2>1, <2>2
<1> QED
  BY <1>3, <1>4, <1>5

\* The loop of release_conflicts skips no mount, and nothing is mounted or
\* opened behind its back.
LEMMA ClearedStep == IInv /\ SerialInv /\ [Next]_vars => \A u \in Threads : Cleared(u)'
<1> SUFFICES ASSUME IInv, SerialInv, [Next]_vars, NEW u \in Threads PROVE Cleared(u)'
  OBVIOUS
<1>t. /\ pc \in [Threads -> Labels] /\ slot \in [Threads -> Slots]
      /\ repl \in [Threads -> BOOLEAN] /\ todo \in [Threads -> SUBSET Parts]
      /\ cur \in [Threads -> Slots] /\ pinned \subseteq mounted /\ mounted \subseteq Slots
      /\ \A t \in Threads : Shape(t)
      /\ back \in [Threads -> Labels] /\ Alone /\ Serialised /\ Cleared(u)
  BY DEF IInv, SerialInv, Control, TypeOK
<1> USE SlotAssumption, CallerAssumption, <1>t
        DEF Shape, Alone, EnterLabels, MountLabels, LeaveLabels,
            Slots, IsFS, Cleared, Mounting, vars, kernelVars, callVars
<1>0. ASSUME NEW t \in Threads, CallRefused(t) PROVE Cleared(u)'
  BY <1>0 DEF CallRefused, MayCall
<1>1. ASSUME NEW t \in Threads, CallEnter(t) PROVE Cleared(u)'
  BY <1>1, SMTT(60) DEF CallEnter, MayCall, Idle, Goto
<1>2. ASSUME NEW t \in Threads, CallLeave(t) PROVE Cleared(u)'
  BY <1>2, SMTT(60) DEF CallLeave, MayCall, Idle, Goto
<1>3. ASSUME NEW t \in Threads, CallClose(t) PROVE Cleared(u)'
  BY <1>3, SMTT(60) DEF CallClose, MayCall, Idle, Goto
<1>4. ASSUME NEW t \in Threads, SpuriousWakeup(t) PROVE Cleared(u)'
  BY <1>4 DEF SpuriousWakeup, Goto
<1>5. ASSUME NEW t \in Threads, EnterWait(t) PROVE Cleared(u)'
  BY <1>5, SMTT(60) DEF EnterWait, Goto
<1>6. ASSUME NEW t \in Threads, EnterDone(t) PROVE Cleared(u)'
  BY <1>6, SMTT(60) DEF EnterDone, Return
<1>7. ASSUME NEW t \in Threads, EnterStart(t) PROVE Cleared(u)'
  BY <1>7, SMTT(60) DEF EnterStart, StartMounting, FirstLabel, Goto
<1>8. ASSUME NEW t \in Threads, ContainerFail(t) PROVE Cleared(u)'
  BY <1>8 DEF ContainerFail, Broadcast
<1>9. ASSUME NEW t \in Threads, ReleaseWhole(t) PROVE Cleared(u)'
  <2>1. TableMatchesKernel
    BY DEF IInv
  <2> QED
    BY <1>9, <2>1, SMTT(60) DEF ReleaseWhole, Goto, TableMatchesKernel, Closing, Leaving
<1>10. ASSUME NEW t \in Threads, ReleasePart(t) PROVE Cleared(u)'
  <2>1. \A p \in Parts : p \in mounted => state[p] = "MOUNTED" /\ p \notin Containers
    BY <1>10, TableExact DEF ReleasePart, Mounting
  <2> QED
    BY <1>10, <2>1, SMTT(60) DEF ReleasePart, Goto
<1>11. ASSUME NEW t \in Threads, ReleaseDone(t) PROVE Cleared(u)'
  BY <1>11, SMTT(60) DEF ReleaseDone, Goto
<1>12. ASSUME NEW t \in Threads, Mknod(t) PROVE Cleared(u)'
  BY <1>12 DEF Mknod, Goto
<1>13. ASSUME NEW t \in Threads, Mount(t) PROVE Cleared(u)'
  BY <1>13, SMTT(60) DEF Mount, MountResults, Goto
<1>14. ASSUME NEW t \in Threads, Busy(t) PROVE Cleared(u)'
  BY <1>14, SMTT(60) DEF Busy, Goto
<1>15. ASSUME NEW t \in Threads, Commit(t) PROVE Cleared(u)'
  BY <1>15 DEF Commit, Outcome, Broadcast
<1>16. ASSUME NEW t \in Threads, UnlinkAfterFailure(t) PROVE Cleared(u)'
  BY <1>16 DEF UnlinkAfterFailure, Goto
<1>17. ASSUME NEW t \in Threads, LeaveCheck(t) PROVE Cleared(u)'
  <2>1. CASE u = t
    <3>1. Mounting(t) => \A s \in Slots : s \in mounted => state[s] = "MOUNTED" /\ s
       \notin Containers
      <4>1. pc[t] \notin {"commit", "unlinkLeft", "left"}
        BY <1>17 DEF LeaveCheck
      <4> HIDE DEF IInv, SerialInv, Mounting, IsFS
      <4>2. Mounting(t) => \A s \in Slots : /\ s \in mounted <=> state[s] = "MOUNTED"
                                            /\ s \in mounted => IsFS(s)
        BY <4>1, TableExact
      <4> QED
        BY <4>2 DEF IsFS
    <3>2. Mounting(t)' => Mounting(t)
      BY <1>17, <2>1, SMTT(60) DEF LeaveCheck, Resume, Goto
    <3> QED
      BY <1>17, <2>1, <3>1, <3>2, SMTT(60) DEF LeaveCheck, Resume, Goto
  <2>2. CASE u # t
    BY <1>17, <2>2, SMTT(60) DEF LeaveCheck, Resume, Goto
  <2> QED
    BY <2>1, <2>2
<1>18. ASSUME NEW t \in Threads, UmountRefused(t) PROVE Cleared(u)'
  BY <1>18, SMTT(60) DEF UmountRefused, Resume, Goto
<1>19. ASSUME NEW t \in Threads, Umount(t) PROVE Cleared(u)'
  BY <1>19, SMTT(60) DEF Umount, Goto, Kernel
<1>20. ASSUME NEW t \in Threads, UnlinkLeft(t) PROVE Cleared(u)'
  BY <1>20, SMTT(60) DEF UnlinkLeft, Goto
<1>21. ASSUME NEW t \in Threads, LeaveDone(t) PROVE Cleared(u)'
  BY <1>21, SMTT(60) DEF LeaveDone, Resume, Goto
<1>22. ASSUME NEW t \in Threads, CloseSlot(t) PROVE Cleared(u)'
  BY <1>22, SMTT(60) DEF CloseSlot, Goto
<1>23. ASSUME NEW t \in Threads, CloseLoopDone(t) PROVE Cleared(u)'
  BY <1>23, SMTT(60) DEF CloseLoopDone, Goto
<1>24. ASSUME NEW t \in Threads, DiskRemove(t) PROVE Cleared(u)'
  BY <1>24 DEF DiskRemove, Return
<1>25. CASE Open
  BY <1>25 DEF Open
<1>26. CASE DelayedFput
  BY <1>26, SMTT(60) DEF DelayedFput
<1>27. CASE OpenFile
  BY <1>27 DEF OpenFile, Idle
<1>28. CASE CloseFile
  BY <1>28 DEF CloseFile, Idle
<1>29. CASE UNCHANGED vars
  BY <1>29
<1> QED
  BY <1>0, <1>1, <1>2, <1>3, <1>4, <1>5, <1>6, <1>7, <1>8, <1>9, <1>10, <1>11, <1>12, <1>13,
       <1>14, <1>15, <1>16, <1>17, <1>18, <1>19, <1>20, <1>21, <1>22, <1>23, <1>24,
       <1>25, <1>26, <1>27, <1>28, <1>29 DEF Next, Step, Enter, Leave, Close

\* Nobody removes the node while it is being mounted.
LEMMA NodeStep == IInv /\ SerialInv /\ [Next]_vars => NodeKept'
<1> SUFFICES ASSUME IInv, SerialInv, [Next]_vars PROVE NodeKept'
  OBVIOUS
<1> USE SlotAssumption, CallerAssumption
        DEF IInv, Control, TypeOK, Shape, Alone, EnterLabels, MountLabels, LeaveLabels,
            Slots, IsFS, SerialInv, NodeKept, vars, kernelVars, callVars
<1>0. ASSUME NEW t \in Threads, CallRefused(t) PROVE NodeKept'
  BY <1>0 DEF CallRefused, MayCall
<1>1. ASSUME NEW t \in Threads, CallEnter(t) PROVE NodeKept'
  BY <1>1 DEF CallEnter, MayCall, Idle, Goto
<1>2. ASSUME NEW t \in Threads, CallLeave(t) PROVE NodeKept'
  BY <1>2 DEF CallLeave, MayCall, Idle, Goto
<1>3. ASSUME NEW t \in Threads, CallClose(t) PROVE NodeKept'
  BY <1>3 DEF CallClose, MayCall, Idle, Goto
<1>4. ASSUME NEW t \in Threads, SpuriousWakeup(t) PROVE NodeKept'
  BY <1>4 DEF SpuriousWakeup, Goto
<1>5. ASSUME NEW t \in Threads, EnterWait(t) PROVE NodeKept'
  BY <1>5, SMTT(60) DEF EnterWait, Goto
<1>6. ASSUME NEW t \in Threads, EnterDone(t) PROVE NodeKept'
  BY <1>6 DEF EnterDone, Return
<1>7. ASSUME NEW t \in Threads, EnterStart(t) PROVE NodeKept'
  BY <1>7, SMTT(60) DEF EnterStart, StartMounting, FirstLabel, Goto
<1>8. ASSUME NEW t \in Threads, ContainerFail(t) PROVE NodeKept'
  BY <1>8 DEF ContainerFail, Broadcast
<1>9. ASSUME NEW t \in Threads, ReleaseWhole(t) PROVE NodeKept'
  BY <1>9, SMTT(60) DEF ReleaseWhole, Goto
<1>10. ASSUME NEW t \in Threads, ReleasePart(t) PROVE NodeKept'
  BY <1>10, SMTT(60) DEF ReleasePart, Goto
<1>11. ASSUME NEW t \in Threads, ReleaseDone(t) PROVE NodeKept'
  BY <1>11 DEF ReleaseDone, Goto
<1>12. ASSUME NEW t \in Threads, Mknod(t) PROVE NodeKept'
  BY <1>12 DEF Mknod, Goto
<1>13. ASSUME NEW t \in Threads, Mount(t) PROVE NodeKept'
  BY <1>13 DEF Mount, MountResults, Goto
<1>14. ASSUME NEW t \in Threads, Busy(t) PROVE NodeKept'
  BY <1>14, SMTT(60) DEF Busy, Goto
<1>15. ASSUME NEW t \in Threads, Commit(t) PROVE NodeKept'
  BY <1>15 DEF Commit, Outcome, Broadcast
<1>16. ASSUME NEW t \in Threads, UnlinkAfterFailure(t) PROVE NodeKept'
  BY <1>16 DEF UnlinkAfterFailure, Goto
<1>17. ASSUME NEW t \in Threads, LeaveCheck(t) PROVE NodeKept'
  BY <1>17, SMTT(60) DEF LeaveCheck, Resume, Goto
<1>18. ASSUME NEW t \in Threads, UmountRefused(t) PROVE NodeKept'
  BY <1>18 DEF UmountRefused, Resume, Goto
<1>19. ASSUME NEW t \in Threads, Umount(t) PROVE NodeKept'
  BY <1>19 DEF Umount, Goto
<1>20. ASSUME NEW t \in Threads, UnlinkLeft(t) PROVE NodeKept'
  BY <1>20 DEF UnlinkLeft, Goto
<1>21. ASSUME NEW t \in Threads, LeaveDone(t) PROVE NodeKept'
  BY <1>21 DEF LeaveDone, Resume, Goto
<1>22. ASSUME NEW t \in Threads, CloseSlot(t) PROVE NodeKept'
  BY <1>22, SMTT(60) DEF CloseSlot, Goto
<1>23. ASSUME NEW t \in Threads, CloseLoopDone(t) PROVE NodeKept'
  BY <1>23 DEF CloseLoopDone, Goto
<1>24. ASSUME NEW t \in Threads, DiskRemove(t) PROVE NodeKept'
  BY <1>24 DEF DiskRemove, Return
<1>25. CASE Open
  BY <1>25 DEF Open
<1>26. CASE DelayedFput
  BY <1>26, SMTT(60) DEF DelayedFput
<1>27. CASE OpenFile
  BY <1>27 DEF OpenFile, Idle
<1>28. CASE CloseFile
  BY <1>28 DEF CloseFile, Idle
<1>29. CASE UNCHANGED vars
  BY <1>29
<1> QED
  BY <1>0, <1>1, <1>2, <1>3, <1>4, <1>5, <1>6, <1>7, <1>8, <1>9, <1>10, <1>11, <1>12, <1>13,
       <1>14, <1>15, <1>16, <1>17, <1>18, <1>19, <1>20, <1>21, <1>22, <1>23, <1>24,
       <1>25, <1>26, <1>27, <1>28, <1>29 DEF Next, Step, Enter, Leave, Close

\* What still conflicts when the retries are given up has open files.
LEMMA ReplaceStep == IInv /\ SerialInv /\ [Next]_vars => ReplaceClears'
<1> SUFFICES ASSUME IInv, SerialInv, [Next]_vars PROVE ReplaceClears'
  OBVIOUS
<1> USE SlotAssumption, CallerAssumption
        DEF IInv, Control, TypeOK, Shape, Alone, EnterLabels, MountLabels, LeaveLabels,
            Slots, IsFS, SerialInv, ReplaceClears, Overlaps, vars, kernelVars, callVars
<1>0. ASSUME NEW t \in Threads, CallRefused(t) PROVE ReplaceClears'
  BY <1>0 DEF CallRefused, MayCall
<1>1. ASSUME NEW t \in Threads, CallEnter(t) PROVE ReplaceClears'
  BY <1>1 DEF CallEnter, MayCall, Idle, Goto
<1>2. ASSUME NEW t \in Threads, CallLeave(t) PROVE ReplaceClears'
  BY <1>2 DEF CallLeave, MayCall, Idle, Goto
<1>3. ASSUME NEW t \in Threads, CallClose(t) PROVE ReplaceClears'
  BY <1>3 DEF CallClose, MayCall, Idle, Goto
<1>4. ASSUME NEW t \in Threads, SpuriousWakeup(t) PROVE ReplaceClears'
  BY <1>4 DEF SpuriousWakeup, Goto
<1>5. ASSUME NEW t \in Threads, EnterWait(t) PROVE ReplaceClears'
  BY <1>5, SMTT(60) DEF EnterWait, Goto
<1>6. ASSUME NEW t \in Threads, EnterDone(t) PROVE ReplaceClears'
  BY <1>6, SMTT(60) DEF EnterDone, Return
<1>7. ASSUME NEW t \in Threads, EnterStart(t) PROVE ReplaceClears'
  BY <1>7, SMTT(60) DEF EnterStart, StartMounting, FirstLabel, Goto
<1>8. ASSUME NEW t \in Threads, ContainerFail(t) PROVE ReplaceClears'
  BY <1>8 DEF ContainerFail, Broadcast
<1>9. ASSUME NEW t \in Threads, ReleaseWhole(t) PROVE ReplaceClears'
  BY <1>9, SMTT(60) DEF ReleaseWhole, Goto
<1>10. ASSUME NEW t \in Threads, ReleasePart(t) PROVE ReplaceClears'
  BY <1>10, SMTT(60) DEF ReleasePart, Goto
<1>11. ASSUME NEW t \in Threads, ReleaseDone(t) PROVE ReplaceClears'
  BY <1>11 DEF ReleaseDone, Goto
<1>12. ASSUME NEW t \in Threads, Mknod(t) PROVE ReplaceClears'
  BY <1>12 DEF Mknod, Goto
<1>13. ASSUME NEW t \in Threads, Mount(t) PROVE ReplaceClears'
  BY <1>13, SMTT(60) DEF Mount, MountResults, Goto
<1>14. ASSUME NEW t \in Threads, Busy(t) PROVE ReplaceClears'
  <2> SUFFICES ASSUME NEW u \in Threads, (pc[u] = "commit" /\ rc[u] = "EBUSY" /\ repl[u])'
               PROVE  (waited[u] = MaxRetries \/ Overlaps(slot[u]) \cap pinned # {})'
    BY DEF ReplaceClears
  <2>1. CASE u # t
    BY <1>14, <2>1 DEF Busy, Goto
  <2>2. CASE u = t /\ waited[t] >= MaxRetries
    BY <1>14, <2>2, RetryAssumption, SMTT(60) DEF Busy, Goto
  <2>3. CASE u = t /\ ~(waited[t] >= MaxRetries)
    <3>1. Conflict(slot[t]) /\ repl[t] /\ Mounting(t) /\ pc[t] = "busy"
      BY <1>14, <2>3 DEF Busy, Goto, Mounting
    <3>2. \A s \in Slots : /\ s \in mounted <=> state[s] = "MOUNTED"
                           /\ state[s] = "MOUNTING" => s = slot[t]
      BY <3>1, TableExact
    <3>3. PICK c \in Overlaps(slot[t]) : c \in mounted
      BY <3>1, <3>2, SMTT(60) DEF Conflict, NodeKept, SlotStates
    <3>4. c \in pinned
      BY <3>1, <3>3, SMTT(60) DEF Cleared
    <3> QED
      BY <1>14, <2>3, <3>3, <3>4 DEF Busy, Goto
  <2> QED
    BY <2>1, <2>2, <2>3
<1>15. ASSUME NEW t \in Threads, Commit(t) PROVE ReplaceClears'
  BY <1>15 DEF Commit, Outcome, Broadcast
<1>16. ASSUME NEW t \in Threads, UnlinkAfterFailure(t) PROVE ReplaceClears'
  BY <1>16 DEF UnlinkAfterFailure, Goto
<1>17. ASSUME NEW t \in Threads, LeaveCheck(t) PROVE ReplaceClears'
  BY <1>17, SMTT(60) DEF LeaveCheck, Resume, Goto
<1>18. ASSUME NEW t \in Threads, UmountRefused(t) PROVE ReplaceClears'
  BY <1>18 DEF UmountRefused, Resume, Goto
<1>19. ASSUME NEW t \in Threads, Umount(t) PROVE ReplaceClears'
  BY <1>19 DEF Umount, Goto
<1>20. ASSUME NEW t \in Threads, UnlinkLeft(t) PROVE ReplaceClears'
  BY <1>20 DEF UnlinkLeft, Goto
<1>21. ASSUME NEW t \in Threads, LeaveDone(t) PROVE ReplaceClears'
  BY <1>21 DEF LeaveDone, Resume, Goto
<1>22. ASSUME NEW t \in Threads, CloseSlot(t) PROVE ReplaceClears'
  BY <1>22, SMTT(60) DEF CloseSlot, Goto
<1>23. ASSUME NEW t \in Threads, CloseLoopDone(t) PROVE ReplaceClears'
  BY <1>23 DEF CloseLoopDone, Goto
<1>24. ASSUME NEW t \in Threads, DiskRemove(t) PROVE ReplaceClears'
  BY <1>24 DEF DiskRemove, Return
<1>25. CASE Open
  BY <1>25 DEF Open
<1>26. CASE DelayedFput
  BY <1>26, SMTT(60) DEF DelayedFput
<1>27. CASE OpenFile
  BY <1>27 DEF OpenFile, Idle
<1>28. CASE CloseFile
  BY <1>28 DEF CloseFile, Idle
<1>29. CASE UNCHANGED vars
  BY <1>29
<1> QED
  BY <1>0, <1>1, <1>2, <1>3, <1>4, <1>5, <1>6, <1>7, <1>8, <1>9, <1>10, <1>11, <1>12, <1>13,
       <1>14, <1>15, <1>16, <1>17, <1>18, <1>19, <1>20, <1>21, <1>22, <1>23, <1>24,
       <1>25, <1>26, <1>27, <1>28, <1>29 DEF Next, Step, Enter, Leave, Close

\* A slot's type is never forgotten.
LEMMA HintStep == IInv /\ HintInv /\ [Next]_vars => HintInv'
<1> SUFFICES ASSUME IInv, HintInv, [Next]_vars PROVE HintInv'
  OBVIOUS
<1> USE SlotAssumption
        DEF IInv, Control, TypeOK, Shape, MountLabels, Slots, IsFS, HintInv, vars,
            kernelVars, callVars
<1>0. ASSUME NEW t \in Threads, CallRefused(t) PROVE HintInv'
  BY <1>0 DEF CallRefused, MayCall
<1>1. ASSUME NEW t \in Threads, CallEnter(t) PROVE HintInv'
  BY <1>1 DEF CallEnter, MayCall, Idle, Goto
<1>2. ASSUME NEW t \in Threads, CallLeave(t) PROVE HintInv'
  BY <1>2, SMTT(60) DEF CallLeave, MayCall, Idle, Goto
<1>3. ASSUME NEW t \in Threads, CallClose(t) PROVE HintInv'
  BY <1>3 DEF CallClose, MayCall, Idle, Goto
<1>4. ASSUME NEW t \in Threads, SpuriousWakeup(t) PROVE HintInv'
  BY <1>4 DEF SpuriousWakeup, Goto
<1>5. ASSUME NEW t \in Threads, EnterWait(t) PROVE HintInv'
  BY <1>5 DEF EnterWait, Goto
<1>6. ASSUME NEW t \in Threads, EnterDone(t) PROVE HintInv'
  BY <1>6 DEF EnterDone, Return
<1>7. ASSUME NEW t \in Threads, EnterStart(t) PROVE HintInv'
  BY <1>7 DEF EnterStart, StartMounting, FirstLabel, Goto
<1>8. ASSUME NEW t \in Threads, ContainerFail(t) PROVE HintInv'
  BY <1>8 DEF ContainerFail, Broadcast
<1>9. ASSUME NEW t \in Threads, ReleaseWhole(t) PROVE HintInv'
  BY <1>9, SMTT(60) DEF ReleaseWhole, Goto
<1>10. ASSUME NEW t \in Threads, ReleasePart(t) PROVE HintInv'
  BY <1>10 DEF ReleasePart, Goto
<1>11. ASSUME NEW t \in Threads, ReleaseDone(t) PROVE HintInv'
  BY <1>11 DEF ReleaseDone, Goto
<1>12. ASSUME NEW t \in Threads, Mknod(t) PROVE HintInv'
  BY <1>12 DEF Mknod, Goto
<1>13. ASSUME NEW t \in Threads, Mount(t) PROVE HintInv'
  BY <1>13, SMTT(60) DEF Mount, MountResults, Goto
<1>14. ASSUME NEW t \in Threads, Busy(t) PROVE HintInv'
  BY <1>14 DEF Busy, Goto
<1>15. ASSUME NEW t \in Threads, Commit(t) PROVE HintInv'
  BY <1>15 DEF Commit, Outcome, Broadcast
<1>16. ASSUME NEW t \in Threads, UnlinkAfterFailure(t) PROVE HintInv'
  BY <1>16 DEF UnlinkAfterFailure, Goto
<1>17. ASSUME NEW t \in Threads, LeaveCheck(t) PROVE HintInv'
  BY <1>17, SMTT(60) DEF LeaveCheck, Resume, Goto
<1>18. ASSUME NEW t \in Threads, UmountRefused(t) PROVE HintInv'
  BY <1>18 DEF UmountRefused, Resume, Goto
<1>19. ASSUME NEW t \in Threads, Umount(t) PROVE HintInv'
  BY <1>19 DEF Umount, Goto
<1>20. ASSUME NEW t \in Threads, UnlinkLeft(t) PROVE HintInv'
  BY <1>20 DEF UnlinkLeft, Goto
<1>21. ASSUME NEW t \in Threads, LeaveDone(t) PROVE HintInv'
  BY <1>21 DEF LeaveDone, Resume, Goto
<1>22. ASSUME NEW t \in Threads, CloseSlot(t) PROVE HintInv'
  BY <1>22, SMTT(60) DEF CloseSlot, Goto
<1>23. ASSUME NEW t \in Threads, CloseLoopDone(t) PROVE HintInv'
  BY <1>23 DEF CloseLoopDone, Goto
<1>24. ASSUME NEW t \in Threads, DiskRemove(t) PROVE HintInv'
  BY <1>24 DEF DiskRemove, Return
<1>25. CASE Open
  BY <1>25 DEF Open
<1>26. CASE DelayedFput
  BY <1>26 DEF DelayedFput
<1>27. CASE OpenFile
  BY <1>27 DEF OpenFile, Idle
<1>28. CASE CloseFile
  BY <1>28 DEF CloseFile, Idle
<1>29. CASE UNCHANGED vars
  BY <1>29
<1> QED
  BY <1>0, <1>1, <1>2, <1>3, <1>4, <1>5, <1>6, <1>7, <1>8, <1>9, <1>10, <1>11, <1>12, <1>13,
       <1>14, <1>15, <1>16, <1>17, <1>18, <1>19, <1>20, <1>21, <1>22, <1>23, <1>24,
       <1>25, <1>26, <1>27, <1>28, <1>29 DEF Next, Step, Enter, Leave, Close

\* Callers that run one operation at a time mount on prepared ground: with
\* ANYFS_MOUNT_REPLACE nothing but open files or a device the kernel will not
\* let go is in the way, and the node of the whole disk is there.
THEOREM GroundPrepared == Serialised /\ Spec => []Prepared
<1>1. Serialised /\ Init => SerialInv
  <2> SUFFICES ASSUME Serialised, Init PROVE SerialInv
    OBVIOUS
  <2> QED
    BY TypeInit DEF Init, SerialInv, Cleared, Mounting, NodeKept, ReplaceClears, TypeOK, Slots
<1>2. IInv /\ SerialInv /\ [Next]_vars => SerialInv'
  BY ClearedStep, NodeStep, ReplaceStep DEF SerialInv
<1>3. SerialInv => Prepared
  BY DEF SerialInv, NodeKept, Prepared, NodePresent
<1> QED
  BY <1>1, <1>2, <1>3, Invariance, PTL DEF Spec

\* If blkid recognised every filesystem of the disk, an enter answers what the
\* caller can rely on: 0 for a mounted filesystem, FAILED for good, and for
\* nothing that another mount caused.
THEOREM AnswersReliable ==
    Parts \ Containers \subseteq Hinted /\ Spec => EnterAnswers
<1>1. Parts \ Containers \subseteq Hinted /\ Init => HintInv
  BY DEF Init, HintInv
<1>2. IInv /\ HintInv /\ [Next]_vars =>
        [\A t \in Threads :
           Commit(t) /\ rc[t] \in {"EBUSY", "HIDDEN"} => state'[slot[t]] # "FAILED"]_vars
  BY DEF IInv, Control, TypeOK, HintInv, Commit, Outcome
<1> QED
  BY <1>1, <1>2, HintStep, Invariance, Delivery, FailureIsFinal, PTL
     DEF Spec, EnterAnswers, BlockedIsRetryable
==============================================================================
