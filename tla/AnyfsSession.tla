---------------------------- MODULE AnyfsSession ----------------------------
(***************************************************************************)
(* The session layer: one opened disk, its table of partition slots and    *)
(* the whole disk, entered and left by several threads                     *)
(* (src/src/core/anyfs_session.c, anyfs_mount.c, anyfs_container.c).       *)
(*                                                                         *)
(* Every critical section of d->lock is one action: the lock is never held *)
(* across a blocking call, so a thread can be overtaken exactly where a    *)
(* label of pc changes.  pthread_cond_wait is the label "wait"; only a     *)
(* broadcast (or a spurious wake-up) takes a thread out of it.             *)
(*                                                                         *)
(* The kernel is external: mounted, claims and pinned are what the code    *)
(* can observe of it through mount(2), umount(2) and their error codes.    *)
(***************************************************************************)
EXTENDS Naturals, FiniteSets

CONSTANTS
    Threads,     \* threads calling into the library
    Parts,       \* top-level partitions, d->parts[0 .. n_parts - 1]
    Containers,  \* those of kind NESTED / LUKS / LVM_PV; the others are FS
    Whole,       \* partition number 0: the whole disk
    Hinted,      \* slots whose type blkid recognised when the disk was opened
    MaxRetries,  \* BUSY_RETRY_TOTAL_MS / BUSY_RETRY_STEP_MS
    MayRelease,  \* callers use ANYFS_MOUNT_REPLACE and anyfs_session_leave
    Serialised   \* callers run one operation at a time

ASSUME SlotAssumption == Whole \notin Parts /\ Containers \subseteq Parts
                         /\ Hinted \subseteq Parts \cup {Whole}
ASSUME RetryAssumption == MaxRetries \in Nat
ASSUME FlagAssumption == MayRelease \in BOOLEAN /\ Serialised \in BOOLEAN

(***************************************************************************)
(* The two ways this library is called.  The JavaScript editions unmount   *)
(* (REPLACE) and run one operation at a time: on the API thread of the     *)
(* wasm builds, under g_op_mutex in the native addon.  The servers enter   *)
(* from several threads and never unmount before they close; anyfs.h asks  *)
(* this of them: "servers sharing several mounts must not set it".         *)
(***************************************************************************)
ASSUME CallerAssumption == Serialised \/ ~MayRelease

Slots == Parts \cup {Whole}

VARIABLES
    state,     \* PartSlot.state of each partition, d->whole_state for Whole
    hinted,    \* slots with a non-empty fstype_cache / whole_fstype_hint
    attached,  \* the disk is in the kernel (FALSE once the session is closed)
    node,      \* /dev/anyfs_d<id>_whole exists
    mounted,   \* slots with a filesystem mounted on /lklmnt/<name>
    claims,    \* slots whose device is still held by a delayed fput
    pinned,    \* mounted slots with a file open in them
    pc, slot, repl, rc, waited, todo, cur, back
               \* per thread: label, part argument, REPLACE flag, result,
               \* busy retries done, slots a loop has still to look at,
               \* slot being left, and where to go on after leaving it

kernelVars == <<mounted, claims, pinned>>
callVars == <<slot, repl, rc, waited, todo, cur, back>>
vars == <<state, hinted, attached, node, kernelVars, pc, callVars>>

SlotStates == {"NEW", "MOUNTING", "MOUNTED", "FAILED"}

(***************************************************************************)
(* Result of a call.  "EBUSY" is -LKL_EBUSY, "FAILED" the -3 of a slot     *)
(* that failed before, "ERR" any other error.  "HIDDEN" is the -1 of the   *)
(* auto-detection loop when the kernel answered EBUSY to every type it     *)
(* tried: the code cannot tell it from "ERR".                              *)
(***************************************************************************)
Results == {"OK", "EBUSY", "ERR", "HIDDEN", "FAILED"}

Labels == {"idle", "enter", "wait", "container", "release", "mknod", "mount",
           "busy", "commit", "unlink", "leave", "umount", "unlinkLeft",
           "left", "close", "remove"}

TypeOK ==
    /\ state \in [Slots -> SlotStates]
    /\ hinted \subseteq Slots
    /\ attached \in BOOLEAN
    /\ node \in BOOLEAN
    /\ mounted \subseteq Slots
    /\ claims \subseteq Slots
    /\ pinned \subseteq mounted
    /\ pc \in [Threads -> Labels]
    /\ slot \in [Threads -> Slots]
    /\ repl \in [Threads -> BOOLEAN]
    /\ rc \in [Threads -> Results]
    /\ waited \in [Threads -> 0..MaxRetries]
    /\ todo \in [Threads -> SUBSET Parts]
    /\ cur \in [Threads -> Slots]
    /\ back \in [Threads -> Labels]

\* The parts of the disk that cannot be mounted together with s: the whole
\* disk and a partition claim the same block device.
Overlaps(s) == IF s = Whole THEN Parts ELSE {Whole}

IsFS(s) == s \notin Containers

Idle == \A t \in Threads : pc[t] = "idle"

\* A call of anyfs_session_close is in progress.
Closing == \E t \in Threads :
    pc[t] # "idle" /\ (pc[t] \in {"close", "remove"} \/ back[t] = "close")

MayCall(t) ==
    /\ attached
    /\ pc[t] = "idle"
    /\ ~Closing
    /\ Serialised => Idle

\* The state anyfs_session_open leaves behind.
Init ==
    /\ state = [s \in Slots |-> "NEW"]
    /\ hinted = Hinted
    /\ attached = TRUE
    /\ node = FALSE
    /\ mounted = {}
    /\ claims = {}
    /\ pinned = {}
    /\ pc = [t \in Threads |-> "idle"]
    /\ slot = [t \in Threads |-> Whole]
    /\ repl = [t \in Threads |-> FALSE]
    /\ rc = [t \in Threads |-> "OK"]
    /\ waited = [t \in Threads |-> 0]
    /\ todo = [t \in Threads |-> {}]
    /\ cur = [t \in Threads |-> Whole]
    /\ back = [t \in Threads |-> "idle"]

Goto(t, l) == pc' = [pc EXCEPT ![t] = l]

Return(t, r) ==
    /\ pc' = [pc EXCEPT ![t] = "idle"]
    /\ rc' = [rc EXCEPT ![t] = r]

-----------------------------------------------------------------------------
(* anyfs_session_enter, enter_fs_slot and enter_container_slot             *)

\* A partition the disk does not have is refused at once, to enter or to
\* leave; so is the whole disk when its device number could not be read as
\* the session was opened (it is then never entered otherwise).
CallRefused(t) ==
    /\ MayCall(t)
    /\ rc' = [rc EXCEPT ![t] = "ERR"]
    /\ UNCHANGED <<state, hinted, attached, node, kernelVars, pc,
                   slot, repl, waited, todo, cur, back>>

CallEnter(t) ==
    /\ MayCall(t)
    /\ \E s \in Slots, r \in {b \in BOOLEAN : b => MayRelease} :
          /\ slot' = [slot EXCEPT ![t] = s]
          /\ repl' = [repl EXCEPT ![t] = r]
    /\ waited' = [waited EXCEPT ![t] = 0]
    /\ back' = [back EXCEPT ![t] = "idle"]
    /\ Goto(t, "enter")
    /\ UNCHANGED <<state, hinted, attached, node, kernelVars, rc, todo, cur>>

\* Another thread is mounting the slot: wait on its condition variable.
EnterWait(t) ==
    /\ pc[t] = "enter"
    /\ state[slot[t]] = "MOUNTING"
    /\ Goto(t, "wait")
    /\ UNCHANGED <<state, hinted, attached, node, kernelVars, callVars>>

EnterDone(t) ==
    /\ pc[t] = "enter"
    /\ state[slot[t]] \in {"MOUNTED", "FAILED"}
    /\ Return(t, IF state[slot[t]] = "MOUNTED" THEN "OK" ELSE "FAILED")
    /\ UNCHANGED <<state, hinted, attached, node, kernelVars,
                   slot, repl, waited, todo, cur, back>>

\* The label at which a mount attempt of slot s starts.
FirstLabel(s, r) ==
    CASE s \in Containers -> "container"
      [] IsFS(s) /\ r -> "release"
      [] IsFS(s) /\ ~r -> IF s = Whole THEN "mknod" ELSE "mount"

StartMounting(t) ==
    /\ pc[t] = "enter"
    /\ state' = [state EXCEPT ![slot[t]] = "MOUNTING"]
    /\ todo' = [todo EXCEPT ![t] = Parts]
    /\ Goto(t, FirstLabel(slot[t], repl[t]))
    /\ UNCHANGED <<hinted, attached, node, kernelVars,
                   slot, repl, rc, waited, cur, back>>

\* Mutant: the wait for another mounter is dropped.
EnterStartNoWait(t) == state[slot[t]] \in {"NEW", "MOUNTING"} /\ StartMounting(t)

EnterStart(t) == state[slot[t]] = "NEW" /\ StartMounting(t)

\* pthread_cond_wait may return without a broadcast; the while loop tests again.
SpuriousWakeup(t) ==
    /\ pc[t] = "wait"
    /\ Goto(t, "enter")
    /\ UNCHANGED <<state, hinted, attached, node, kernelVars, callVars>>

\* pc after thread t goes to l and the condition variable of s is broadcast.
Broadcast(t, l, s) ==
    pc' = [u \in Threads |->
             IF u = t THEN l
             ELSE IF pc[u] = "wait" /\ slot[u] = s THEN "enter" ELSE pc[u]]

\* No kind of container can be opened yet: every one of them fails for good.
ContainerFail(t) ==
    /\ pc[t] = "container"
    /\ state' = [state EXCEPT ![slot[t]] = "FAILED"]
    /\ rc' = [rc EXCEPT ![t] = "ERR"]
    /\ Broadcast(t, "idle", slot[t])
    /\ UNCHANGED <<hinted, attached, node, kernelVars,
                   slot, repl, waited, todo, cur, back>>

\* release_conflicts for a partition: is the whole disk mounted?
ReleaseWhole(t) ==
    /\ pc[t] = "release"
    /\ slot[t] # Whole
    /\ IF state[Whole] = "MOUNTED"
       THEN /\ cur' = [cur EXCEPT ![t] = Whole]
            /\ back' = [back EXCEPT ![t] = "mount"]
            /\ Goto(t, "umount")
       ELSE /\ Goto(t, "mount")
            /\ UNCHANGED <<cur, back>>
    /\ UNCHANGED <<state, hinted, attached, node, kernelVars,
                   slot, repl, rc, waited, todo>>

\* Mutant: the loop stops after the first mounted slot.
ReleasePartFirst(t) ==
    /\ pc[t] = "release"
    /\ slot[t] = Whole
    /\ \E p \in todo[t] :
          IF IsFS(p) /\ state[p] = "MOUNTED"
          THEN /\ todo' = [todo EXCEPT ![t] = {}]
               /\ cur' = [cur EXCEPT ![t] = p]
               /\ back' = [back EXCEPT ![t] = "release"]
               /\ Goto(t, "leave")
          ELSE /\ todo' = [todo EXCEPT ![t] = @ \ {p}]
               /\ UNCHANGED <<cur, back, pc>>
    /\ UNCHANGED <<state, hinted, attached, node, kernelVars,
                   slot, repl, rc, waited>>

\* release_conflicts for the whole disk: one iteration over the slots.
ReleasePart(t) ==
    /\ pc[t] = "release"
    /\ slot[t] = Whole
    /\ \E p \in todo[t] :
          /\ todo' = [todo EXCEPT ![t] = @ \ {p}]
          /\ IF IsFS(p) /\ state[p] = "MOUNTED"
             THEN /\ cur' = [cur EXCEPT ![t] = p]
                  /\ back' = [back EXCEPT ![t] = "release"]
                  /\ Goto(t, "leave")
             ELSE UNCHANGED <<cur, back, pc>>
    /\ UNCHANGED <<state, hinted, attached, node, kernelVars,
                   slot, repl, rc, waited>>

ReleaseDone(t) ==
    /\ pc[t] = "release"
    /\ slot[t] = Whole
    /\ todo[t] = {}
    /\ Goto(t, "mknod")
    /\ UNCHANGED <<state, hinted, attached, node, kernelVars, callVars>>

Mknod(t) ==
    /\ pc[t] = "mknod"
    /\ node' = TRUE
    /\ Goto(t, "mount")
    /\ UNCHANGED <<state, hinted, attached, kernelVars, callVars>>

\* The kernel answers EBUSY to a mount of s.
Blocked(s) == \E c \in Overlaps(s) \cup {s} : c \in mounted \cup claims

(***************************************************************************)
(* anyfs_mount / anyfs_mount_blkdev: one call of mount_via_devpath.  With  *)
(* a type from blkid it is one mount(2) and its error code; without, every *)
(* type is tried and a failure of them all is -1, whatever they answered.  *)
(* The whole disk's node is looked up by name, and may be gone.            *)
(***************************************************************************)
MountResults(s) ==
    IF s = Whole /\ ~node THEN {"ERR"}
    ELSE IF Blocked(s) THEN {IF s \in hinted THEN "EBUSY" ELSE "HIDDEN"}
    ELSE {"OK", "ERR"}

Mount(t) ==
    LET s == slot[t] IN
    /\ pc[t] = "mount"
    /\ \E r \in MountResults(s) :
          /\ rc' = [rc EXCEPT ![t] = r]
          /\ mounted' = IF r = "OK" THEN mounted \cup {s} ELSE mounted
          /\ Goto(t, IF r = "EBUSY" THEN "busy" ELSE "commit")
    /\ UNCHANGED <<state, hinted, attached, node, claims, pinned,
                   slot, repl, waited, todo, cur, back>>

\* conflict_mounted_locked
Conflict(s) ==
    IF s = Whole
    THEN \E p \in Parts : IsFS(p) /\ state[p] \in {"MOUNTING", "MOUNTED"}
    ELSE state[Whole] # "NEW"

\* busy_is_transient, and the test of the loop it is called from
Busy(t) ==
    /\ pc[t] = "busy"
    /\ IF waited[t] >= MaxRetries \/ Conflict(slot[t])
       THEN /\ Goto(t, "commit")
            /\ UNCHANGED waited
       ELSE /\ Goto(t, "mount")
            /\ waited' = [waited EXCEPT ![t] = @ + 1]
    /\ UNCHANGED <<state, hinted, attached, node, kernelVars,
                   slot, repl, rc, todo, cur, back>>

\* Mutant: a failed whole-disk mount made final.
OutcomeWholeFails(s, r) ==
    CASE r = "OK" -> "MOUNTED"
      [] r = "EBUSY" -> "NEW"
      [] OTHER -> "FAILED"

\* The slot's state after a mount attempt that ended with r.
Outcome(s, r) ==
    CASE r = "OK" -> "MOUNTED"
      [] r = "EBUSY" \/ (r # "OK" /\ s = Whole) -> "NEW"
      [] OTHER -> "FAILED"

\* Mutant: pthread_cond_signal, which wakes one waiter.
CommitSignal(t) ==
    LET s == slot[t]
        waiters == {u \in Threads : pc[u] = "wait" /\ slot[u] = s}
        last == IF s = Whole /\ rc[t] # "OK" THEN "unlink" ELSE "idle"
    IN
    /\ pc[t] = "commit"
    /\ state' = [state EXCEPT ![s] = Outcome(s, rc[t])]
    /\ hinted' = IF rc[t] = "OK" /\ s # Whole THEN hinted \cup {s} ELSE hinted
    /\ \/ waiters = {} /\ Goto(t, last)
       \/ \E u \in waiters : pc' = [pc EXCEPT ![t] = last, ![u] = "enter"]
    /\ UNCHANGED <<attached, node, kernelVars, callVars>>

\* Record the result under the lock, wake the waiters, return; a failed
\* mount of the whole disk goes on to remove its node.
Commit(t) ==
    LET s == slot[t] IN
    /\ pc[t] = "commit"
    /\ state' = [state EXCEPT ![s] = Outcome(s, rc[t])]
    /\ hinted' = IF rc[t] = "OK" /\ s # Whole THEN hinted \cup {s} ELSE hinted
    /\ Broadcast(t, IF s = Whole /\ rc[t] # "OK" THEN "unlink" ELSE "idle", s)
    /\ UNCHANGED <<attached, node, kernelVars, callVars>>

UnlinkAfterFailure(t) ==
    /\ pc[t] = "unlink"
    /\ node' = FALSE
    /\ Goto(t, "idle")
    /\ UNCHANGED <<state, hinted, attached, kernelVars, callVars>>

-----------------------------------------------------------------------------
(* anyfs_session_leave                                                     *)

CallLeave(t) ==
    /\ MayRelease
    /\ MayCall(t)
    /\ \E s \in Slots :
          /\ cur' = [cur EXCEPT ![t] = s]
          /\ slot' = [slot EXCEPT ![t] = s]
          /\ Goto(t, IF s = Whole THEN "umount" ELSE "leave")
    /\ back' = [back EXCEPT ![t] = "idle"]
    /\ UNCHANGED <<state, hinted, attached, node, kernelVars,
                   repl, rc, waited, todo>>

\* Go back to the caller of anyfs_session_leave; only a public call keeps r.
Resume(t, r) ==
    /\ Goto(t, back[t])
    /\ rc' = IF back[t] = "idle" THEN [rc EXCEPT ![t] = r] ELSE rc

LeaveCheck(t) ==
    /\ pc[t] = "leave"
    /\ IF IsFS(cur[t]) /\ state[cur[t]] = "MOUNTED"
       THEN Goto(t, "umount") /\ UNCHANGED rc
       ELSE Resume(t, "ERR")
    /\ UNCHANGED <<state, hinted, attached, node, kernelVars,
                   slot, repl, waited, todo, cur, back>>

\* Mutant: the result of anyfs_umount is not looked at.
UmountRefusedIgnored(t) ==
    /\ pc[t] = "umount"
    /\ cur[t] \notin mounted \/ cur[t] \in pinned
    /\ Goto(t, IF back[t] = "close" THEN "close" ELSE "left")
    /\ UNCHANGED <<state, hinted, attached, node, kernelVars, callVars>>

\* anyfs_umount: refused while a file is open, or with nothing mounted.
UmountRefused(t) ==
    /\ pc[t] = "umount"
    /\ cur[t] \notin mounted \/ cur[t] \in pinned
    /\ Resume(t, "ERR")
    /\ UNCHANGED <<state, hinted, attached, node, kernelVars,
                   slot, repl, waited, todo, cur, back>>

\* anyfs_session_close unmounts a partition directly and frees its slot later.
Umount(t) ==
    LET s == cur[t] IN
    /\ pc[t] = "umount"
    /\ s \in mounted \ pinned
    /\ mounted' = mounted \ {s}
    /\ claims' = claims \cup {s}
    /\ Goto(t, CASE s = Whole -> "unlinkLeft"
                 [] s # Whole /\ back[t] = "close" -> "close"
                 [] s # Whole /\ back[t] # "close" -> "left")
    /\ UNCHANGED <<state, hinted, attached, node, pinned, callVars>>

UnlinkLeft(t) ==
    /\ pc[t] = "unlinkLeft"
    /\ node' = FALSE
    /\ Goto(t, "left")
    /\ UNCHANGED <<state, hinted, attached, kernelVars, callVars>>

\* Mutant: the slot is not reset after the unmount.
LeaveDoneKeeps(t) ==
    /\ pc[t] = "left"
    /\ Resume(t, "OK")
    /\ UNCHANGED <<state, hinted, attached, node, kernelVars,
                   slot, repl, waited, todo, cur, back>>

\* No broadcast: nobody waits on a slot that is MOUNTED.
LeaveDone(t) ==
    /\ pc[t] = "left"
    /\ state' = [state EXCEPT ![cur[t]] = "NEW"]
    /\ Resume(t, "OK")
    /\ UNCHANGED <<hinted, attached, node, kernelVars,
                   slot, repl, waited, todo, cur, back>>

-----------------------------------------------------------------------------
(* anyfs_session_close and anyfs_session_open                              *)

\* Mutant: close looks at the partitions only.
CallCloseParts(t) ==
    /\ MayCall(t)
    /\ Idle
    /\ todo' = [todo EXCEPT ![t] = Parts]
    /\ back' = [back EXCEPT ![t] = "close"]
    /\ Goto(t, "close")
    /\ UNCHANGED <<state, hinted, attached, node, kernelVars,
                   slot, repl, rc, waited, cur>>

\* The session is freed at the end, so no other call may be in progress.
CallClose(t) ==
    /\ MayCall(t)
    /\ Idle
    /\ todo' = [todo EXCEPT ![t] = Parts]
    /\ cur' = [cur EXCEPT ![t] = Whole]
    /\ back' = [back EXCEPT ![t] = "close"]
    /\ Goto(t, IF state[Whole] = "MOUNTED" THEN "umount" ELSE "close")
    /\ UNCHANGED <<state, hinted, attached, node, kernelVars,
                   slot, repl, rc, waited>>

CloseSlot(t) ==
    /\ pc[t] = "close"
    /\ \E p \in todo[t] :
          /\ todo' = [todo EXCEPT ![t] = @ \ {p}]
          /\ IF IsFS(p) /\ state[p] = "MOUNTED"
             THEN /\ cur' = [cur EXCEPT ![t] = p]
                  /\ Goto(t, "umount")
             ELSE UNCHANGED <<cur, pc>>
    /\ UNCHANGED <<state, hinted, attached, node, kernelVars,
                   slot, repl, rc, waited, back>>

CloseLoopDone(t) ==
    /\ pc[t] = "close"
    /\ todo[t] = {}
    /\ Goto(t, "remove")
    /\ UNCHANGED <<state, hinted, attached, node, kernelVars, callVars>>

\* anyfs_disk_remove, whatever the unmounts answered, and free.
DiskRemove(t) ==
    /\ pc[t] = "remove"
    /\ attached' = FALSE
    /\ Return(t, "OK")
    /\ UNCHANGED <<state, hinted, node, kernelVars,
                   slot, repl, waited, todo, cur, back>>

\* A new session on a new disk id: nothing of the old one shares a name.  An
\* open that fails takes its disk out again and leaves no session.
Open ==
    /\ ~attached
    /\ Idle
    /\ state' = [s \in Slots |-> "NEW"]
    /\ hinted' = Hinted
    /\ attached' = TRUE
    /\ node' = FALSE
    /\ mounted' = {}
    /\ claims' = {}
    /\ pinned' = {}
    /\ UNCHANGED <<pc, callVars>>

-----------------------------------------------------------------------------
(* The kernel and the users of the mounted filesystems                     *)

DelayedFput == \E s \in claims :
    /\ claims' = claims \ {s}
    /\ UNCHANGED <<state, hinted, attached, node, mounted, pinned, pc, callVars>>

\* Files are opened and closed through calls of the same API, which the
\* serialised editions queue with the others; a closed session has no users.
OpenFile == \E s \in mounted \ pinned :
    /\ attached /\ ~Closing /\ (Serialised => Idle)
    /\ pinned' = pinned \cup {s}
    /\ UNCHANGED <<state, hinted, attached, node, mounted, claims, pc, callVars>>

CloseFile == \E s \in pinned :
    /\ attached /\ ~Closing /\ (Serialised => Idle)
    /\ pinned' = pinned \ {s}
    /\ UNCHANGED <<state, hinted, attached, node, mounted, claims, pc, callVars>>

-----------------------------------------------------------------------------

Enter(t) ==
    \/ EnterWait(t) \/ EnterDone(t) \/ EnterStart(t) \/ ContainerFail(t)
    \/ ReleaseWhole(t) \/ ReleasePart(t) \/ ReleaseDone(t)
    \/ Mknod(t) \/ Mount(t) \/ Busy(t) \/ Commit(t) \/ UnlinkAfterFailure(t)

Leave(t) ==
    \/ LeaveCheck(t) \/ UmountRefused(t) \/ Umount(t)
    \/ UnlinkLeft(t) \/ LeaveDone(t)

Close(t) == CloseSlot(t) \/ CloseLoopDone(t) \/ DiskRemove(t)

\* What a thread inside the library does next, without new calls.
Step(t) == Enter(t) \/ Leave(t) \/ Close(t)

Next ==
    \/ \E t \in Threads :
          \/ CallEnter(t) \/ CallLeave(t) \/ CallClose(t) \/ CallRefused(t)
          \/ SpuriousWakeup(t)
          \/ Step(t)
    \/ Open
    \/ DelayedFput \/ OpenFile \/ CloseFile

Spec == Init /\ [][Next]_vars

\* A thread that is not blocked goes on; nobody is obliged to call, and
\* nothing is assumed of spurious wake-ups.
FairSpec == Spec /\ \A t \in Threads : WF_vars(Step(t))

-----------------------------------------------------------------------------
(* Properties                                                              *)

\* Thread t is between setting its slot MOUNTING and recording the result.
Mounting(t) == pc[t] \in {"container", "release", "mknod", "mount", "busy", "commit"}
               \/ (pc[t] \in {"leave", "umount", "unlinkLeft", "left"}
                   /\ back[t] \in {"release", "mount"})

\* "Concurrent callers serialise per-slot": of the threads that enter a slot
\* at most one mounts it, and the slot is MOUNTING exactly while it does.
MountExclusive ==
    /\ \A t, u \in Threads : Mounting(t) /\ Mounting(u) /\ slot[t] = slot[u] => t = u
    /\ \A s \in Slots : state[s] = "MOUNTING" <=> \E t \in Threads : Mounting(t) /\ slot[t] = s

\* Thread t has unmounted s and not yet recorded it.
Leaving(t, s) == pc[t] \in {"unlinkLeft", "left"} /\ cur[t] = s

\* The table agrees with the kernel: what it calls MOUNTED is mounted unless
\* a leave or the closing of the session has just unmounted it, and what is
\* mounted is MOUNTED unless the mount has just succeeded.
TableMatchesKernel ==
    \A s \in Slots :
        /\ state[s] = "MOUNTED" /\ attached =>
              s \in mounted \/ Closing \/ \E t \in Threads : Leaving(t, s)
        /\ s \in mounted =>
              state[s] = "MOUNTED"
              \/ \E t \in Threads : pc[t] = "commit" /\ slot[t] = s /\ rc[t] = "OK"

\* An enter that returns 0 hands out the path of a mounted filesystem (no
\* container can be entered successfully, so every 0 is about one).
EnterDelivers ==
    [][\A t \in Threads :
          (EnterDone(t) \/ Commit(t)) /\ rc'[t] = "OK" => slot[t] \in mounted']_vars

\* A whole-disk mount and a partition mount are never both on record: the
\* kernel refuses the second, and every record of the first is removed when
\* it is unmounted.
NoOverlap ==
    \A p \in Parts : ~(state[p] = "MOUNTED" /\ state[Whole] = "MOUNTED")

\* What anyfs_session_list shows is so: the table agrees with the kernel and
\* never has the whole disk and a partition of it mounted at once.
TableTrue == TableMatchesKernel /\ NoOverlap

\* With ANYFS_MOUNT_REPLACE an enter is refused with EBUSY only because a
\* conflicting mount has open files, or the device was not let go within
\* BUSY_RETRY_TOTAL_MS: release_conflicts misses no other mount.
ReplaceClears ==
    \A t \in Threads :
        pc[t] = "commit" /\ rc[t] = "EBUSY" /\ repl[t] =>
            waited[t] = MaxRetries \/ Overlaps(slot[t]) \cap pinned # {}

\* The node of the whole disk is there whenever a mount of it is attempted,
\* although a failed enter removes it after giving up the slot.
NodePresent ==
    \A t \in Threads : pc[t] = "mount" /\ slot[t] = Whole => node

\* mount_slot is called on prepared ground: conflicts released, node made.
Prepared == ReplaceClears /\ NodePresent

\* A slot becomes FAILED only for a reason of its own filesystem: one that
\* was "Blocked by another mount, not a property of this filesystem" stays
\* retryable.
BlockedIsRetryable ==
    [][\A t \in Threads :
          Commit(t) /\ rc[t] \in {"EBUSY", "HIDDEN"} => state'[slot[t]] # "FAILED"]_vars

\* anyfs_session_leave "Does not invalidate FAILED cache", and no enter
\* retries a FAILED slot: it stays so until the session is closed.
FailedIsFinal ==
    [][\A s \in Slots : state[s] = "FAILED" /\ attached => state'[s] = "FAILED"]_vars

\* What an enter answers can be relied on: 0 is about a mounted filesystem,
\* FAILED about the filesystem itself and for good, EBUSY may be retried.
EnterAnswers == EnterDelivers /\ BlockedIsRetryable /\ FailedIsFinal

\* When the disk goes away only filesystems with open files are still
\* mounted on it: close missed no mount, whatever calls came before.
CloseUnmounts ==
    [][attached /\ ~attached' => mounted \subseteq pinned]_vars

(***************************************************************************)
(* The slots as a caller sees them: the state of each while the session is *)
(* open, all fresh once it is closed.  Each critical section is one step   *)
(* of the abstract table or none.                                          *)
(***************************************************************************)
TableView == IF attached THEN state ELSE [s \in Slots |-> "NEW"]

Table == INSTANCE SlotTable WITH table <- TableView

\* Threads, locks and a kernel that says no implement the promise: no step
\* skips a state, takes a slot from the thread working on it, or makes the
\* whole disk usable over a usable partition.
ImplementsTable == Table!Spec

\* A mount attempt ends, whatever the other threads do, and a thread waiting
\* on a slot's condition variable is woken: every way out of MOUNTING
\* broadcasts.
WaitersServed ==
    /\ \A s \in Slots : []<>(state[s] # "MOUNTING")
    /\ \A t \in Threads : []<>(pc[t] # "wait")

=============================================================================
