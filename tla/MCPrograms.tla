------------------------------ MODULE MCPrograms ------------------------------
(* The programs, the NBD proxy and the semaphore, one per behaviour, for TLC. *)
EXTENDS Programs, FastSync, NbdServer, TLC

\* The program of a behaviour is fixed in its first state.
Programs == {"nfs", "smb", "fuse", "sync", "nbd"}

\* disk0: a filesystem, a container with one, a partition that cannot be
\* entered.  disk1: one filesystem.
MCLayout ==
  (0 :> (<<1>> :> "fs" @@ <<2>> :> "cont" @@ <<2, 1>> :> "fs" @@ <<3>> :> "bad"))
  @@ (1 :> (<<1>> :> "fs"))

File == Word
Dir == Seg("word", 1, "none")

MCPaths ==
  {<<>>, <<PSeg(1)>>, <<PSeg(1), File>>, <<PSeg(2)>>, <<PSeg(2), PSeg(1), Dir>>,
   <<PSeg(3), File>>, <<Synth>>, <<File>>, <<DiskSeg(0)>>, <<DiskSeg(1), PSeg(1), File>>,
   <<DiskSeg(0), Synth>>}

MCPinPaths == {<<PSeg(2), PSeg(1)>>, <<DiskSeg(1), PSeg(1)>>, <<PSeg(3)>>, <<PSeg(0)>>,
               <<Seg("digit", 1, "none")>>, <<DiskSeg(UINT_RANGE - 1), PSeg(1)>>}

allvars == <<kvars, svars, uvars, fvars, nbdvars>>

\* The variables of the programs that do not run keep one initial value.
Idle ==
  /\ prog # "fuse" => fd0 = 0
  /\ prog # "sync" => count = 0
  /\ prog = "fuse" => nshare = 0
  /\ prog \in {"sync", "nbd"} => nshare = 0 /\ nimg = 1

Init == KInit(Programs) /\ SInit /\ UInit /\ FInit /\ NbdInit /\ Idle

Next ==
  \/ prog \in {"nfs", "smb"} /\ SNext /\ UNCHANGED <<uvars, fvars, nbdvars>>
  \/ prog = "fuse" /\ UNext /\ UNCHANGED <<svars, fvars, nbdvars>>
  \/ prog = "sync" /\ FNext /\ UNCHANGED <<kvars, svars, uvars, nbdvars>>
  \/ prog = "nbd" /\ NbdNext /\ UNCHANGED <<kvars, svars, uvars, fvars>>

\* fs_sem_down and fs_sem_up run only in the behaviours with prog = "sync".
SyncFairness ==
  /\ WF_fvars(prog = "sync" /\ \E t \in Downers : fs_sem_down(t))
  /\ WF_fvars(prog = "sync" /\ \E u \in Uppers : fs_sem_up(u))

\* The NBD server runs only in those with prog = "nbd".
NbdFairness == WF_nbdvars(prog = "nbd" /\ ServerStep)

Spec ==
  /\ Init /\ [][Next]_allvars
  /\ SFairness /\ WF_allvars(FuseMain /\ UNCHANGED <<svars, fvars, nbdvars>>)
  /\ SyncFairness /\ NbdFairness

\* No wake-up is lost in the behaviours of the semaphore.
SyncDownsReturn == []<>(prog # "sync" \/ AllDown)

\* In the behaviours of the NBD server it answers.
NbdServed == []<>(prog # "nbd" \/ NbdIdle)

\* A program in service serves: a request of a client of the NFS and SMB servers
\* is answered, a signal ends them, and the NBD server answers every request
\* until its connection ends.
ProgramsServe == ClientsServed /\ StopEnds /\ NbdServed
=============================================================================
