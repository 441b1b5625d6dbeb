--------------------------- MODULE Programs_proofs ---------------------------
(***************************************************************************)
(* Theorems about the command line programs: the two servers (Servers),    *)
(* for any number of images, shares, channels and requests, and the FUSE   *)
(* program (FuseFs), for any layout of the images, any paths, handles and  *)
(* descriptors.                                                            *)
(***************************************************************************)
EXTENDS Programs, WellFoundedInduction, SequenceTheorems, TLAPS

\* A leaf that names no prover is for Zenon.
USE ZenonT(60)

----------------------------------------------------------------------------
(* The servers.  The invariant has four parts: where the main thread is    *)
(* and what it has to report, the disks it holds, what else it has taken,  *)
(* and the other threads.                                                  *)

Early == {"args", "boot", "disks", "resolve", "bind", "setup", "nfsd", "spawn", "wait", "proxy"}
Late == {"unproxy", "join", "cleanup", "wp", "halt", "exit"}

(* The flag `running' is never set again and `served' is never cleared, so *)
(* what the status was chosen from still holds at the exit; after -h there *)
(* is nothing but the exit.                                                *)
ControlInv ==
  /\ prog \in {"nfs", "smb"}
  /\ pc \in Early \cup {"serve", "status"} \cup Late
  /\ prog = "nfs" => pc \notin {"setup", "status", "cleanup", "wp"}
  /\ prog = "smb" => pc \notin {"bind", "nfsd", "spawn", "wait", "join"}
  /\ pc \in Early => ~ served
  /\ pc \in {"serve", "status", "unproxy"} => served
  /\ pc = "status" => err \/ ~ running
  /\ status \in {0, 1}
  /\ pc \in Early \cup {"serve", "status"} => status = 1
  /\ status = 0 => help \/ (served /\ ~ running)
  /\ pc \in Late /\ status = 1 => ~ served \/ err
  /\ pc = "args" => ~ sigs
  /\ help => pc = "exit" /\ status = 0 /\ kern = "off" /\ ~ sigs
  /\ pc \in {"args", "boot"} => kern = "off"
  /\ kern = "halted" => pc = "exit"
  /\ pc = "exit" => kern # "up"

(* The entries of disks[] are the open sessions until the shutdown closes  *)
(* them one by one; whatever is mounted belongs to an open session.        *)
DiskInv ==
  /\ nimg \in Nat /\ i \in Nat
  /\ ~ twice
  /\ pinned = {}
  /\ \A m \in mounts : m[1] \in live
  /\ disks \subseteq Images(nimg)
  /\ pc \in {"args", "boot"} => disks = {}
  /\ pc = "disks" => disks = Images(i) /\ i <= nimg
  /\ pc \notin {"halt", "exit"} => live = disks
  /\ pc = "halt" => live = disks \ Images(i) /\ i <= nimg
  /\ pc = "exit" => live = {}

(* The kernel runs from the boot to the exit; the binds, which nfsd never  *)
(* undoes, are below it; ksmbd's socket and pool do not outlive "cleanup". *)
TakenInv ==
  /\ pc \notin {"args", "boot", "exit"} => kern = "up"
  /\ binds # {} => /\ prog = "nfs" /\ pc \notin {"args", "boot", "disks", "resolve"}
                   /\ pc = "exit" => kern = "halted"
  /\ sock \/ pool => pc \in {"proxy", "serve", "status", "unproxy", "cleanup", "wp"}
  /\ sock => pc # "wp"
  /\ prog = "nfs" => ~ sock /\ ~ pool
  /\ help => tpc = "none"

(* The cache thread has been through the channels before the proxy starts  *)
(* and is gone after the join; a request is in the hands of a worker only  *)
(* until the pool is destroyed.                                            *)
ThreadInv ==
  /\ proxy => pc \in {"serve", "status", "unproxy"}
  /\ prog = "smb" => tpc = "none"
  /\ pc \in {"args", "boot", "disks", "resolve", "bind", "nfsd", "spawn"} => tpc = "none"
  /\ prog = "nfs" /\ pc \in {"proxy", "serve", "unproxy", "join"} => channels_open
  /\ prog = "nfs" /\ served /\ pc \in {"halt", "exit"} => tpc = "done"
  /\ channels_open => tpc \in {"loop", "done"}
  /\ tpc \in {"loop", "done"} => todo = {}
  /\ tpc = "done" => ~ running
  /\ tpc # "done" => Channels \subseteq todo \cup fds \cup failed
  /\ blind \subseteq failed
  /\ rq \in [Requests -> {"idle", "queued", "pool", "busy", "done", "lost"}]
  /\ prog = "nfs" => \A r \in Requests : rq[r] = "idle"
  /\ pc \notin {"serve", "status", "unproxy", "cleanup", "wp"} =>
       \A r \in Requests : rq[r] \notin {"queued", "pool", "busy"}
  /\ pc = "wp" => \A r \in Requests : rq[r] # "queued"

ServerInv == ControlInv /\ DiskInv /\ TakenInv /\ ThreadInv

(* The two exit statuses differ. *)
LEMMA ZeroOne == 0 # 1
  BY SMTT(10)

(* A step of the cache thread, of ksmbd or of a worker, and a stutter,     *)
(* leave the main thread's state alone.                                    *)
Aside == UNCHANGED <<kvars, help, sigs, running, served, err, binds, sock, pool>>

(* The cache thread, upcalls, requests and workers leave alone the main    *)
(* thread, the disks and the flags main reports from.                      *)
LEMMA ThreadsAside ==
  ASSUME \/ cache_handler_thread \/ Upcall
         \/ \E r \in Requests : Request(r) \/ Worker(r)
         \/ UNCHANGED <<kvars, svars>>
  PROVE  Aside
  <1>1. CASE cache_handler_thread
    BY <1>1 DEF cache_handler_thread, OpenChannel, ChannelsOpen, Answer, CloseChannels, ThreadRest,
                smbvars, Aside
  <1>2. CASE Upcall
    BY <1>2 DEF Upcall, ThreadRest, smbvars, Aside
  <1>3. CASE \E r \in Requests : Request(r) \/ Worker(r)
    BY <1>3 DEF Request, Worker, WorkerTakes, WorkerSends, RqStep, nfsvars, Aside
  <1>4. CASE UNCHANGED <<kvars, svars>>
    BY <1>4 DEF svars, nfsvars, smbvars, Aside
  <1> QED
    BY <1>1, <1>2, <1>3, <1>4

(* Every step of a server keeps the agreement of main's place with the     *)
(* flags and the status.                                                   *)
LEMMA ControlStep ==
  ASSUME ControlInv, [SNext]_<<kvars, svars>>
  PROVE  ControlInv'
  <1>1. CASE Args
    <2>1. /\ pc = "args" /\ ~ served /\ ~ sigs /\ ~ help /\ status = 1 /\ kern = "off"
          /\ UNCHANGED <<prog, kern, served, running, err>>
      BY <1>1 DEF ControlInv, Early, Args, Main, smbvars
    <2>2. CASE pc' = "boot" /\ UNCHANGED <<help, status>>
      BY <2>1, <2>2 DEF ControlInv, Early, Late
    <2>3. CASE help' /\ status' = 0 /\ pc' = "exit" /\ UNCHANGED sigs
      BY <2>1, <2>3, ZeroOne DEF ControlInv, Early, Late
    <2>4. CASE pc' = "exit" /\ UNCHANGED <<help, sigs, status>>
      BY <2>1, <2>4 DEF ControlInv, Early, Late
    <2> QED
      BY <1>1, <2>2, <2>3, <2>4 DEF Args, Goto
  <1>2. CASE Boot
    BY <1>2 DEF ControlInv, Early, Late, Boot, Main, Goto, anyfs_kernel_init, svars, smbvars, nfsvars
  <1>3. CASE Disks
    BY <1>3 DEF ControlInv, Early, Late, Disks, Main, Goto, Loop, anyfs_share_open_disks, OpenDisks, anyfs_session_close, svars, smbvars, nfsvars
  <1>4. CASE Resolve
    BY <1>4 DEF ControlInv, Early, Late, Resolve, Main, Goto, Loop, svars, smbvars, nfsvars
  <1>5. CASE Bind
    BY <1>5 DEF ControlInv, Early, Late, Bind, Main, Goto, Loop, KRest, smbvars, nfsvars
  <1>6. CASE StartNfsd
    BY <1>6 DEF ControlInv, Early, Late, StartNfsd, Main, Goto, KRest, svars, smbvars, nfsvars
  <1>7. CASE Spawn
    BY <1>7 DEF ControlInv, Early, Late, Spawn, Main, Goto, KRest, smbvars, nfsvars
  <1>8. CASE WaitChannels
    BY <1>8 DEF ControlInv, Early, Late, WaitChannels, Main, Goto, KRest, svars, smbvars, nfsvars
  <1>9. CASE Setup
    BY <1>9 DEF ControlInv, Early, Late, Setup, Main, Goto, KRest, smbvars, nfsvars
  <1>10. CASE StartProxy
    <2>1. UNCHANGED <<prog, status, kern, running, err, help, sigs>> /\ pc = "proxy" /\ ~ served /\ status = 1
      BY <1>10 DEF ControlInv, Early, StartProxy, Main, KRest, smbvars
    <2>2. CASE served' /\ pc' = "serve"
      BY <2>1, <2>2 DEF ControlInv, Early, Late
    <2>3. CASE served' = served /\ pc' = IF prog = "nfs" THEN "halt" ELSE "cleanup"
      BY <2>1, <2>3 DEF ControlInv, Early, Late
    <2> QED
      BY <1>10, <2>2, <2>3 DEF StartProxy, Goto
  <1>11. CASE ServeNfs
    <2>1. /\ UNCHANGED <<prog, kern, served, err, running, help, sigs>>
          /\ pc = "serve" /\ pc' = "unproxy" /\ status' = 0 /\ prog = "nfs" /\ ~ running
      BY <1>11 DEF ServeNfs, Main, Goto, svars, smbvars
    <2> QED
      BY <2>1, ZeroOne DEF ControlInv, Early, Late
  <1>12. CASE ipc_process_event
    BY <1>12 DEF ControlInv, Early, Late, ipc_process_event, Main, Goto, KRest, smbvars, nfsvars
  <1>13. CASE ServeSmbEnd
    BY <1>13 DEF ControlInv, Early, Late, ServeSmbEnd, Main, Goto, KRest, svars, smbvars, nfsvars
  <1>14. CASE SmbStatus
    <2>1. /\ UNCHANGED <<prog, kern, served, err, running, help, sigs>>
          /\ pc = "status" /\ pc' = "unproxy" /\ status' = IF err /\ running THEN status ELSE 0
      BY <1>14 DEF SmbStatus, Main, Goto, svars, smbvars
    <2>2. CASE err /\ running
      BY <2>1, <2>2 DEF ControlInv, Early, Late
    <2>3. CASE ~ (err /\ running)
      <3>1. status' = 0 /\ ~ running
        BY <2>1, <2>3 DEF ControlInv
      <3> QED
        BY <2>1, <3>1, ZeroOne DEF ControlInv, Early, Late
    <2> QED
      BY <2>2, <2>3
  <1>15. CASE StopProxy
    BY <1>15 DEF ControlInv, Early, Late, StopProxy, Main, Goto, KRest, smbvars, nfsvars
  <1>16. CASE JoinThread
    BY <1>16 DEF ControlInv, Early, Late, JoinThread, Main, Goto, KRest, svars, smbvars, nfsvars
  <1>17. CASE ipc_destroy
    BY <1>17 DEF ControlInv, Early, Late, ipc_destroy, Main, Goto, KRest, smbvars, nfsvars
  <1>18. CASE wp_destroy
    BY <1>18 DEF ControlInv, Early, Late, wp_destroy, Main, Goto, KRest, smbvars, nfsvars
  <1>19. CASE anyfs_server_shutdown
    BY <1>19 DEF ControlInv, Early, Late, anyfs_server_shutdown, Main, Goto, Loop, anyfs_kernel_halt, anyfs_session_close, svars, smbvars, nfsvars
  <1>20. CASE Signal
    BY <1>20 DEF ControlInv, Early, Late, Signal, kvars, smbvars
  <1>21. CASE Aside
    BY <1>21 DEF ControlInv, Early, Late, Aside, kvars
  <1> QED
    BY <1>1, <1>2, <1>3, <1>4, <1>5, <1>6, <1>7, <1>8, <1>9, <1>10, <1>11, <1>12, <1>13, <1>14, <1>15, <1>16, <1>17, <1>18, <1>19, <1>20, <1>21, ThreadsAside DEF SNext, MainThread

----------------------------------------------------------------------------
(* The images 0 .. n - 1. *)

(* No image is numbered below 0. *)
LEMMA NoImages == Images(0) = {} /\ 0 \in Nat
  BY SMTT(10) DEF Images

(* The n + 1 first images are the n first and image n. *)
LEMMA OneImage ==
  ASSUME NEW n \in Nat
  PROVE  Images(n + 1) = Images(n) \cup {n} /\ n \notin Images(n) /\ n + 1 \in Nat
  BY SMTT(10) DEF Images

(* An index below the number of images is an image's. *)
LEMMA ImagesIn ==
  ASSUME NEW n \in Nat, NEW k \in Nat, k < n
  PROVE  k \in Images(n) /\ k + 1 <= n /\ Images(k) \subseteq Images(n)
  BY SMTT(10) DEF Images
----------------------------------------------------------------------------
(* A step of the main thread between the opening of the disks and the      *)
(* shutdown that leaves them alone.                                        *)
Moves ==
  /\ UNCHANGED <<nimg, disks, live, mounts, pinned, twice>>
  /\ {pc, pc'} \cap {"args", "boot", "disks", "exit"} = {} /\ pc # "halt"
  /\ i' = 0 \/ (pc' # "halt" /\ i' \in {i, i + 1})

(* A step that only moves main on keeps what is known of the disks. *)
LEMMA MovesKeep ==
  ASSUME DiskInv, Moves
  PROVE  DiskInv'
  <1>1. i' \in Nat
    BY SMTT(30) DEF DiskInv, Moves
  <1>2. pc' = "halt" => i' = 0 /\ 0 <= nimg
    BY SMTT(30) DEF DiskInv, Moves
  <1>3. UNCHANGED <<nimg, disks, live, mounts, pinned, twice>> /\ live = disks
    BY DEF DiskInv, Moves
  <1>4. pc' \notin {"args", "boot", "disks", "exit"}
    BY DEF Moves
  <1> QED
    BY <1>1, <1>2, <1>3, <1>4, NoImages DEF DiskInv, Images

(* Every step of a server keeps what is known of the disks. *)
LEMMA DiskStep ==
  ASSUME ControlInv, DiskInv, [SNext]_<<kvars, svars>>
  PROVE  DiskInv'
  <1>1. CASE Args
    BY <1>1, NoImages DEF DiskInv, Args, Main, Goto, Images
  <1>2. CASE Boot
    BY <1>2, NoImages, SMTT(30) DEF DiskInv, Boot, Main, Goto, anyfs_kernel_init
  <1>3. CASE Disks
    <2>1. pc = "disks" /\ live = disks /\ disks = Images(i) /\ i <= nimg /\ UNCHANGED <<nimg, pinned>>
      BY <1>3 DEF DiskInv, Disks, Main
    <2>2. CASE i < nimg /\ disks' = disks \cup {i} /\ live' = live \cup {i} /\ Loop /\ UNCHANGED <<mounts, twice>>
      <3>1. disks' = Images(i') /\ live' = disks' /\ i' \in Nat /\ i' <= nimg /\ i \in Images(nimg)
        BY <2>1, <2>2, OneImage, ImagesIn DEF DiskInv, Loop
      <3> QED
        BY <2>1, <2>2, <3>1 DEF DiskInv, Loop, Images
    <2>3. CASE i < nimg /\ anyfs_session_close(Images(i)) /\ disks' = disks \ Images(i) /\ Goto("halt")
      <3>1. live' = {} /\ disks' = {} /\ mounts' = {} /\ ~ twice' /\ i' = 0 /\ pc' = "halt"
        BY <2>1, <2>3 DEF DiskInv, anyfs_session_close, Goto
      <3>2. 0 \in Nat /\ 0 <= nimg
        BY SMTT(30) DEF DiskInv
      <3> QED
        BY <2>1, <3>1, <3>2 DEF DiskInv
    <2>4. CASE i = nimg /\ Goto("resolve") /\ UNCHANGED <<disks, live, mounts, twice>>
      BY <2>1, <2>4, NoImages DEF DiskInv, Goto, Images
    <2> QED
      BY <1>3, <2>2, <2>3, <2>4 DEF Disks, anyfs_share_open_disks, OpenDisks
  <1>4. CASE Resolve
    <2>1. CASE UNCHANGED mounts
      <3>1. Moves
        BY <1>4, <2>1 DEF Resolve, Main, Goto, Loop, Moves
      <3> QED
        BY <3>1, MovesKeep
    <2>2. CASE Loop /\ \E d \in disks : mounts' = mounts \cup {<<d, i + 1>>}
      <3>1. pc = "resolve" /\ UNCHANGED <<nimg, pc, disks, live, pinned, twice>> /\ live = disks
        BY <1>4, <2>2 DEF DiskInv, Resolve, Main, Loop
      <3>2. i' \in Nat
        BY <2>2, SMTT(30) DEF DiskInv, Loop
      <3>3. \A d \in disks : <<d, i + 1>>[1] = d
        BY SMTT(30)
      <3>4. \A m \in mounts' : m[1] \in live
        BY <2>2, <3>1, <3>3 DEF DiskInv
      <3> QED
        BY <3>1, <3>2, <3>4 DEF DiskInv, Images
    <2> QED
      BY <1>4, <2>1, <2>2 DEF Resolve
  <1>5. CASE Bind
    <2>1. Moves
      BY <1>5 DEF Bind, Main, Goto, Loop, KRest, Moves
    <2> QED
      BY <2>1, MovesKeep
  <1>6. CASE StartNfsd
    <2>1. Moves
      BY <1>6 DEF StartNfsd, Main, Goto, KRest, Moves
    <2> QED
      BY <2>1, MovesKeep
  <1>7. CASE Spawn
    <2>1. Moves
      BY <1>7 DEF Spawn, Main, Goto, KRest, Moves
    <2> QED
      BY <2>1, MovesKeep
  <1>8. CASE WaitChannels
    <2>1. Moves
      BY <1>8 DEF WaitChannels, Main, Goto, KRest, Moves
    <2> QED
      BY <2>1, MovesKeep
  <1>9. CASE Setup
    <2>1. Moves
      BY <1>9 DEF Setup, Main, Goto, KRest, Moves
    <2> QED
      BY <2>1, MovesKeep
  <1>10. CASE StartProxy
    <2>1. Moves
      BY <1>10 DEF StartProxy, Main, Goto, KRest, Moves
    <2> QED
      BY <2>1, MovesKeep
  <1>11. CASE ServeNfs
    <2>1. Moves
      BY <1>11 DEF ServeNfs, Main, Goto, Moves
    <2> QED
      BY <2>1, MovesKeep
  <1>12. CASE ipc_process_event
    <2>1. Moves
      BY <1>12 DEF ipc_process_event, Main, Goto, KRest, Moves
    <2> QED
      BY <2>1, MovesKeep
  <1>13. CASE ServeSmbEnd
    <2>1. Moves
      BY <1>13 DEF ServeSmbEnd, Main, Goto, KRest, Moves
    <2> QED
      BY <2>1, MovesKeep
  <1>14. CASE SmbStatus
    <2>1. Moves
      BY <1>14 DEF SmbStatus, Main, Goto, Moves
    <2> QED
      BY <2>1, MovesKeep
  <1>15. CASE StopProxy
    <2>1. Moves
      BY <1>15 DEF StopProxy, Main, Goto, KRest, Moves
    <2> QED
      BY <2>1, MovesKeep
  <1>16. CASE JoinThread
    <2>1. Moves
      BY <1>16 DEF JoinThread, Main, Goto, KRest, Moves
    <2> QED
      BY <2>1, MovesKeep
  <1>17. CASE ipc_destroy
    <2>1. Moves
      BY <1>17 DEF ipc_destroy, Main, Goto, KRest, Moves
    <2> QED
      BY <2>1, MovesKeep
  <1>18. CASE wp_destroy
    <2>1. Moves
      BY <1>18 DEF wp_destroy, Main, Goto, KRest, Moves
    <2> QED
      BY <2>1, MovesKeep
  <1>19. CASE anyfs_server_shutdown
    <2>1. /\ pc = "halt" /\ live = disks \ Images(i) /\ i <= nimg /\ i \in Nat /\ nimg \in Nat
          /\ UNCHANGED <<nimg, disks, pinned>>
      BY <1>19 DEF DiskInv, anyfs_server_shutdown, Main
    <2>2. CASE i < nimg /\ anyfs_session_close({i} \cap disks) /\ Loop
      <3>1. i' \in Nat /\ i' <= nimg /\ Images(i') = Images(i) \cup {i} /\ i \notin Images(i) /\ pc' = "halt"
        BY <2>1, <2>2, OneImage, ImagesIn DEF Loop
      <3>2. live' = disks \ Images(i') /\ ~ twice'
        BY <2>1, <2>2, <3>1 DEF DiskInv, anyfs_session_close
      <3>3. \A m \in mounts' : m[1] \in live'
        BY <2>1, <2>2, <3>1 DEF DiskInv, anyfs_session_close
      <3> QED
        BY <2>1, <3>1, <3>2, <3>3 DEF DiskInv, Images
    <2>3. CASE i = nimg /\ Goto("exit") /\ UNCHANGED <<live, mounts, twice>>
      <3>1. live' = {} /\ i' = 0 /\ pc' = "exit" /\ 0 \in Nat
        BY <2>1, <2>3, SMTT(30) DEF DiskInv, Goto
      <3> QED
        BY <2>1, <2>3, <3>1 DEF DiskInv, Images
    <2> QED
      BY <1>19, <2>2, <2>3 DEF anyfs_server_shutdown
  <1>20. CASE Signal \/ Aside
    <2>1. UNCHANGED kvars
      BY <1>20 DEF Signal, Aside
    <2> QED
      BY <2>1 DEF DiskInv, Images, kvars
  <1> QED
    BY <1>1, <1>2, <1>3, <1>4, <1>5, <1>6, <1>7, <1>8, <1>9, <1>10, <1>11, <1>12, <1>13, <1>14, <1>15, <1>16, <1>17, <1>18, <1>19, <1>20, ThreadsAside DEF SNext, MainThread
----------------------------------------------------------------------------
(* Every step of a server keeps what is known of the kernel, the binds and *)
(* ksmbd's socket and pool.                                                *)
LEMMA TakenStep ==
  ASSUME ControlInv, ThreadInv, TakenInv, [SNext]_<<kvars, svars>>
  PROVE  TakenInv'
  <1>1. CASE Args
    BY <1>1 DEF TakenInv, ControlInv, ThreadInv, Args, Main, Goto, smbvars, nfsvars
  <1>2. CASE Boot
    BY <1>2 DEF TakenInv, ControlInv, Boot, Main, Goto, anyfs_kernel_init, svars, smbvars, nfsvars
  <1>3. CASE Disks
    BY <1>3 DEF TakenInv, Disks, Main, Goto, Loop, anyfs_share_open_disks, OpenDisks, svars, smbvars, nfsvars
  <1>4. CASE Resolve
    BY <1>4 DEF TakenInv, ControlInv, Resolve, Main, Goto, Loop, svars, smbvars, nfsvars
  <1>5. CASE Bind
    BY <1>5 DEF TakenInv, ControlInv, Bind, Main, Goto, Loop, KRest, smbvars
  <1>6. CASE StartNfsd
    BY <1>6 DEF TakenInv, ControlInv, StartNfsd, Main, Goto, KRest, svars, smbvars, nfsvars
  <1>7. CASE Spawn
    BY <1>7 DEF TakenInv, ControlInv, Spawn, Main, Goto, KRest, smbvars
  <1>8. CASE WaitChannels
    BY <1>8 DEF TakenInv, ControlInv, WaitChannels, Main, Goto, KRest, svars, smbvars, nfsvars
  <1>9. CASE Setup
    <2>1. /\ pc = "setup" /\ prog = "smb" /\ kern = "up" /\ ~ sock /\ ~ pool
          /\ UNCHANGED <<prog, kern, binds, help, tpc>>
      BY <1>9 DEF TakenInv, ControlInv, Setup, Main, KRest, nfsvars
    <2>2. CASE pc' = "halt" /\ UNCHANGED <<sock, pool>>
      BY <2>1, <2>2 DEF TakenInv
    <2>3. CASE pc' \in {"proxy", "cleanup"}
      BY <2>1, <2>3 DEF TakenInv
    <2> QED
      BY <1>9, <2>2, <2>3 DEF Setup, Goto
  <1>10. CASE StartProxy
    BY <1>10 DEF TakenInv, ControlInv, StartProxy, Main, Goto, KRest, smbvars, nfsvars
  <1>11. CASE ServeNfs
    BY <1>11 DEF TakenInv, ServeNfs, Main, Goto, svars, smbvars, nfsvars
  <1>12. CASE ipc_process_event
    BY <1>12 DEF TakenInv, ipc_process_event, Main, Goto, KRest, nfsvars
  <1>13. CASE ServeSmbEnd
    BY <1>13 DEF TakenInv, ServeSmbEnd, Main, Goto, KRest, svars, smbvars, nfsvars
  <1>14. CASE SmbStatus
    BY <1>14 DEF TakenInv, SmbStatus, Main, Goto, svars, smbvars, nfsvars
  <1>15. CASE StopProxy
    BY <1>15 DEF TakenInv, StopProxy, Main, Goto, KRest, smbvars, nfsvars
  <1>16. CASE JoinThread
    BY <1>16 DEF TakenInv, ControlInv, JoinThread, Main, Goto, KRest, svars, smbvars, nfsvars
  <1>17. CASE ipc_destroy
    BY <1>17 DEF TakenInv, ipc_destroy, Main, Goto, KRest, nfsvars
  <1>18. CASE wp_destroy
    BY <1>18 DEF TakenInv, wp_destroy, Main, Goto, KRest, nfsvars
  <1>19. CASE anyfs_server_shutdown
    BY <1>19 DEF TakenInv, ControlInv, anyfs_server_shutdown, Main, Goto, Loop, anyfs_kernel_halt, svars, smbvars, nfsvars
  <1>20. CASE Signal
    BY <1>20 DEF TakenInv, Signal, kvars, nfsvars, smbvars
  <1>21. CASE cache_handler_thread
    <2>1. tpc # "none" /\ UNCHANGED <<pc, prog, kern, binds, help, sock, pool>>
      BY <1>21 DEF cache_handler_thread, OpenChannel, ChannelsOpen, Answer, CloseChannels, ThreadRest, kvars, smbvars
    <2> QED
      BY <2>1 DEF TakenInv
  <1>22. CASE Aside /\ UNCHANGED tpc
    BY <1>22 DEF TakenInv, Aside, kvars
  <1>23. ASSUME Upcall \/ (\E r \in Requests : Request(r) \/ Worker(r)) \/ UNCHANGED <<kvars, svars>>
         PROVE  UNCHANGED tpc
    BY <1>23 DEF Upcall, Request, Worker, WorkerTakes, WorkerSends, RqStep, svars, nfsvars
  <1> QED
    BY <1>1, <1>2, <1>3, <1>4, <1>5, <1>6, <1>7, <1>8, <1>9, <1>10, <1>11, <1>12, <1>13, <1>14, <1>15, <1>16, <1>17, <1>18, <1>19, <1>20, <1>21, <1>22, <1>23, ThreadsAside DEF SNext, MainThread

----------------------------------------------------------------------------
(* Every step of a server keeps what is known of its other threads. *)
LEMMA ThreadStep ==
  ASSUME ControlInv, ThreadInv, [SNext]_<<kvars, svars>>
  PROVE  ThreadInv'
  <1>1. CASE Args
    BY <1>1 DEF ThreadInv, ControlInv, Early, Late, Args, Main, Goto, smbvars, nfsvars
  <1>2. CASE Boot
    BY <1>2 DEF ThreadInv, ControlInv, Early, Late, Boot, Main, Goto, anyfs_kernel_init, svars, smbvars, nfsvars
  <1>3. CASE Disks
    BY <1>3 DEF ThreadInv, ControlInv, Early, Late, Disks, Main, Goto, Loop, anyfs_share_open_disks, OpenDisks, svars, smbvars, nfsvars
  <1>4. CASE Resolve
    BY <1>4 DEF ThreadInv, ControlInv, Early, Late, Resolve, Main, Goto, Loop, svars, smbvars, nfsvars
  <1>5. CASE Bind
    BY <1>5 DEF ThreadInv, ControlInv, Early, Late, Bind, Main, Goto, Loop, KRest, smbvars, nfsvars
  <1>6. CASE StartNfsd
    BY <1>6 DEF ThreadInv, ControlInv, Early, Late, StartNfsd, Main, Goto, KRest, svars, smbvars, nfsvars
  <1>7. CASE Spawn
    BY <1>7 DEF ThreadInv, ControlInv, Early, Late, Spawn, Main, Goto, KRest, smbvars, nfsvars
  <1>8. CASE WaitChannels
    BY <1>8 DEF ThreadInv, ControlInv, Early, Late, WaitChannels, Main, Goto, KRest, svars, smbvars, nfsvars
  <1>9. CASE Setup
    BY <1>9 DEF ThreadInv, ControlInv, Early, Late, Setup, Main, Goto, KRest, smbvars, nfsvars
  <1>10. CASE StartProxy
    <2>1. /\ UNCHANGED <<prog, running, tpc, todo, fds, failed, channels_open, blind, rq>>
          /\ pc = "proxy" /\ ~ served /\ ~ proxy
      BY <1>10 DEF ThreadInv, ControlInv, Early, StartProxy, Main, KRest, smbvars, nfsvars
    <2>2. CASE proxy' /\ served' /\ pc' = "serve"
      BY <2>1, <2>2 DEF ThreadInv, ControlInv
    <2>3. CASE UNCHANGED <<proxy, served>> /\ pc' = IF prog = "nfs" THEN "halt" ELSE "cleanup"
      BY <2>1, <2>3 DEF ThreadInv, ControlInv
    <2> QED
      BY <1>10, <2>2, <2>3 DEF StartProxy, Goto
  <1>11. CASE ServeNfs
    BY <1>11 DEF ThreadInv, ControlInv, Early, Late, ServeNfs, Main, Goto, svars, smbvars, nfsvars
  <1>12. CASE ipc_process_event
    BY <1>12 DEF ThreadInv, ControlInv, Early, Late, ipc_process_event, Main, Goto, KRest, smbvars, nfsvars
  <1>13. CASE ServeSmbEnd
    BY <1>13 DEF ThreadInv, ControlInv, Early, Late, ServeSmbEnd, Main, Goto, KRest, svars, smbvars, nfsvars
  <1>14. CASE SmbStatus
    BY <1>14 DEF ThreadInv, ControlInv, Early, Late, SmbStatus, Main, Goto, svars, smbvars, nfsvars
  <1>15. CASE StopProxy
    BY <1>15 DEF ThreadInv, ControlInv, Early, Late, StopProxy, Main, Goto, KRest, smbvars, nfsvars
  <1>16. CASE JoinThread
    BY <1>16 DEF ThreadInv, ControlInv, Early, Late, JoinThread, Main, Goto, KRest, svars, smbvars, nfsvars
  <1>17. CASE ipc_destroy
    BY <1>17 DEF ThreadInv, ControlInv, Early, Late, ipc_destroy, Main, Goto, KRest, smbvars, nfsvars
  <1>18. CASE wp_destroy
    BY <1>18 DEF ThreadInv, ControlInv, Early, Late, wp_destroy, Main, Goto, KRest, smbvars, nfsvars
  <1>19. CASE anyfs_server_shutdown
    BY <1>19 DEF ThreadInv, ControlInv, Early, Late, anyfs_server_shutdown, Main, Goto, Loop, svars, smbvars, nfsvars
  <1>20. CASE Signal
    BY <1>20 DEF ThreadInv, ControlInv, Signal, kvars, nfsvars, smbvars
  <1>21. CASE OpenChannel
    BY <1>21 DEF ThreadInv, ControlInv, OpenChannel, ThreadRest, kvars, smbvars
  <1>22. CASE ChannelsOpen
    BY <1>22 DEF ThreadInv, ControlInv, ChannelsOpen, ThreadRest, kvars, smbvars
  <1>23. CASE Answer
    BY <1>23 DEF ThreadInv, ControlInv, Answer, ThreadRest, kvars, smbvars
  <1>24. CASE CloseChannels
    BY <1>24 DEF ThreadInv, ControlInv, CloseChannels, ThreadRest, kvars, smbvars
  <1>25. CASE Upcall
    BY <1>25 DEF ThreadInv, ControlInv, Upcall, ThreadRest, kvars, smbvars
  <1>26. CASE \E r \in Requests : Request(r) \/ Worker(r)
    <2>1. PICK r \in Requests : Request(r) \/ Worker(r)
      BY <1>26
    <2>2. UNCHANGED <<prog, pc, running, proxy, served, tpc, todo, fds, failed, channels_open, blind>>
      BY <2>1 DEF Request, Worker, WorkerTakes, WorkerSends, RqStep, kvars, nfsvars
    <2>3. PICK to \in {"queued", "busy", "done", "lost"} :
            /\ rq' = [rq EXCEPT ![r] = to]
            /\ to = "queued" => prog = "smb" /\ proxy
            /\ to = "busy" => rq[r] = "pool"
            /\ to \in {"done", "lost"} => rq[r] = "busy"
      BY <2>1 DEF Request, Worker, WorkerTakes, WorkerSends, RqStep
    <2>4. rq' \in [Requests -> {"idle", "queued", "pool", "busy", "done", "lost"}]
      BY <2>3 DEF ThreadInv
    <2>5. prog = "smb" /\ pc \in {"serve", "status", "unproxy", "cleanup", "wp"}
      BY <2>3 DEF ThreadInv, ControlInv
    <2>6. pc = "wp" => \A q \in Requests : rq'[q] # "queued"
      BY <2>3 DEF ThreadInv
    <2> QED
      BY <2>2, <2>4, <2>5, <2>6 DEF ThreadInv
  <1>27. CASE UNCHANGED <<kvars, svars>>
    BY <1>27 DEF ThreadInv, kvars, svars, nfsvars, smbvars
  <1> QED
    BY <1>1, <1>2, <1>3, <1>4, <1>5, <1>6, <1>7, <1>8, <1>9, <1>10, <1>11, <1>12, <1>13, <1>14, <1>15, <1>16, <1>17, <1>18, <1>19, <1>20, <1>21, <1>22, <1>23, <1>24, <1>25, <1>26, <1>27 DEF SNext, MainThread, cache_handler_thread

(* The invariant of the servers holds when main starts. *)
LEMMA ServerInit ==
  ASSUME KInit({"nfs", "smb"}), SInit
  PROVE  ServerInv
  <1>1. ControlInv
    BY ZeroOne DEF KInit, SInit, ControlInv, Early, Late
  <1>2. nimg \in Nat /\ i \in Nat
    BY SMTT(30) DEF KInit
  <1>3. DiskInv
    BY <1>2 DEF KInit, DiskInv
  <1>4. ThreadInv
    BY DEF KInit, SInit, ThreadInv
  <1>5. TakenInv
    BY DEF KInit, SInit, TakenInv
  <1> QED
    BY <1>1, <1>3, <1>4, <1>5 DEF ServerInv

(* The invariant of the two servers, from main to exit: what status they   *)
(* report, which disks they hold and where their threads are.              *)
THEOREM ServersInvariant == SSpec => []ServerInv
  <1>1. ServerInv /\ [SNext]_<<kvars, svars>> => ServerInv'
    BY ControlStep, DiskStep, TakenStep, ThreadStep DEF ServerInv
  <1> QED
    BY <1>1, ServerInit, PTL DEF SSpec

(* ExitTellsWhy: nfsd and ksmbd return 0 only after they have served until *)
(* a signal stopped them, or for -h, which ends them before the kernel and *)
(* the signal handlers; and 1 after serving only for an IPC error.         *)
THEOREM ServersTellWhy == SSpec => []ExitTellsWhy
  <1>1. ServerInv => ExitTellsWhy
    BY ZeroOne DEF ServerInv, ControlInv, Late, ExitTellsWhy
  <1> QED
    BY <1>1, ServersInvariant, PTL

(* QuietBeforeHalt: a server halts the in-process kernel, on its failing   *)
(* paths too, only when its proxy has stopped, ksmbd's socket and pool are *)
(* closed and no worker is busy; and when it has served, only after its    *)
(* cache thread has been joined.                                           *)
THEOREM ServersQuiet == SSpec => []QuietBeforeHalt
  <1>1. ServerInv => QuietBeforeHalt
    BY DEF ServerInv, ControlInv, TakenInv, ThreadInv, QuietBeforeHalt
  <1> QED
    BY <1>1, ServersInvariant, PTL

(* ReadersFirst: the proxy lets no client in before the cache thread has   *)
(* been through all the channels, so an upcall finds its reader.           *)
THEOREM ServersReadersFirst == SSpec => []ReadersFirst
  <1>1. ServerInv => ReadersFirst
    BY DEF ServerInv, ThreadInv, ReadersFirst
  <1> QED
    BY <1>1, ServersInvariant, PTL

(* LeavesNothing, for the servers: on every path to the exit each session  *)
(* of disks[] has been closed once, no share is left mounted where it was  *)
(* entered, the kernel is not running, and the proxy and ksmbd's socket    *)
(* and pool are gone.  What nfsd may leave is named: its binds, and its    *)
(* cache thread if host_proxy_start failed.                                *)
THEOREM ServersLeaveNothing == SSpec => []LeavesNothing
  <1>1. ServerInv => CleanExit
    <2>1. ASSUME ServerInv, pc = "exit"
          PROVE  live = {} /\ mounts = pinned /\ kern # "up"
      BY <2>1 DEF ServerInv, DiskInv, ControlInv
    <2> QED
      BY <2>1 DEF CleanExit, ServerInv, DiskInv
  <1>2. ServerInv => FuseUnwound
    BY DEF ServerInv, ControlInv, FuseUnwound
  <1>3. ServerInv => ServersUnwound
    <2>1. ASSUME ServerInv, pc = "exit"
          PROVE  /\ ~ proxy /\ ~ sock /\ ~ pool
                 /\ binds # {} => prog = "nfs" /\ kern = "halted"
      BY <2>1 DEF ServerInv, TakenInv, ThreadInv
    <2>2. ASSUME ServerInv, pc = "exit"
          PROVE  mounts = {}
      BY <2>2 DEF ServerInv, DiskInv
    <2>3. ASSUME ServerInv, pc = "exit", tpc \notin {"none", "done"}
          PROVE  prog = "nfs" /\ status = 1 /\ ~ served
      BY <2>3 DEF ServerInv, ControlInv, TakenInv, ThreadInv
    <2> QED
      BY <2>1, <2>2, <2>3 DEF ServersUnwound
  <1> QED
    BY <1>1, <1>2, <1>3, ServersInvariant, PTL DEF LeavesNothing

----------------------------------------------------------------------------
(* The FUSE program.  What main has taken from libfuse and whether the     *)
(* kernel may run, label by label.                                         *)

LibFuse == {"fuse", "signals", "mount"}

UnwindInv ==
  /\ prog = "fuse"
  /\ \/ pc \in {"args", "f_new"} /\ fres = {} /\ kern = "off"
     \/ pc = "f_sig" /\ fres = {"fuse"} /\ kern = "off"
     \/ pc = "f_mnt" /\ fres = {"fuse", "signals"} /\ kern = "off"
     \/ pc \in {"f_daemon", "f_boot"} /\ fres = LibFuse /\ kern = "off"
     \/ pc \in {"f_disks", "f_enter", "f_loop", "out_disks_close", "out_kernel_halt"} /\ fres = LibFuse
     \/ pc = "out_fuse_unmount" /\ fres = LibFuse /\ kern # "up"
     \/ pc = "out_remove_signals" /\ fres = {"fuse", "signals"} /\ kern # "up"
     \/ pc = "out_fuse_destroy" /\ fres = {"fuse"} /\ kern # "up"
     \/ pc = "exit" /\ fres = {} /\ kern # "up"

Booting == {"args", "f_new", "f_sig", "f_mnt", "f_daemon", "f_boot"}
Closed == {"out_kernel_halt", "out_fuse_unmount", "out_remove_signals", "out_fuse_destroy", "exit"}

(* The open sessions, label by label.  What is mounted is on one of them,  *)
(* or an open file keeps it busy.                                          *)
ImagesInv ==
  /\ nimg \in Nat /\ i \in Nat
  /\ ~ twice
  /\ pc \in Booting => disks = {} /\ live = {}
  /\ pc = "f_disks" => disks = Images(i) /\ live = disks /\ i <= nimg
  /\ pc \in {"f_enter", "f_loop"} => live = Images(nimg) /\ disks = live
  /\ pc = "out_disks_close" => live = Images(nimg) \ Images(i) /\ disks = live /\ i <= nimg
  /\ pc \in Closed => live = {}
  /\ pin = NoMount \/ pin[1] \in Images(nimg)
  /\ pinned \subseteq mounts
  /\ \A m \in mounts : m[1] \in Images(nimg) /\ (m \in pinned \/ m[1] \in live)

(* A handle is free or synthetic, or it holds a descriptor of its own.  Of *)
(* a real handle fi->fh is 0 only if the descriptor is.                    *)
HandleInv(x) ==
  \/ h[x].fd = -1 /\ (h[x] = NoHandle \/ h[x].fh = 0)
  \/ /\ h[x].fd \in 0 .. MaxFd /\ lfd[h[x].fd] # NoMount
     /\ h[x].fh = 0 => h[x].fd = 0
     /\ \A y \in Handles : h[y].fd = h[x].fd => y = x

FdInv ==
  /\ fd0 \in Nat
  /\ lfd = [f \in 0 .. MaxFd |-> lfd[f]]
  /\ h = [x \in Handles |-> h[x]]
  /\ pinned = PinnedBy(lfd)
  /\ \A x \in Handles : HandleInv(x)
  /\ \A f \in 1 .. MaxFd : lfd[f] # NoMount => \E x \in Handles : h[x].fd = f

FuseInv == UnwindInv /\ ImagesInv /\ FdInv

(* An operation leaves the main thread where it is. *)
LEMMA OpsStay ==
  ASSUME FuseOps
  PROVE  Op /\ OpRest
  <1>1. ASSUME NEW s, NEW fp, NEW t, NEW tp, NEW x, NEW create,
               \/ Getattr(fp) \/ PathOp(s, fp) \/ AttrOp(s, fp) \/ XattrOp(s, fp)
               \/ Statfs(s, fp) \/ Access(s, fp) \/ Utimens(s, fp)
               \/ TwoPathOp(s, fp, t, tp) \/ Open(x, s, fp, create) \/ Opendir(x, s, fp)
               \/ Readdir(x) \/ Release(x)
        PROVE  Op /\ OpRest
    BY <1>1 DEF Getattr, PathOp, AttrOp, XattrOp, Statfs, Access, Utimens, ResolveOp, TwoPathOp,
                Open, Opendir, Readdir, Release, CloseHandle
  <1> QED
    BY <1>1 DEF FuseOps

(* Every step of anyfs-fuse keeps the agreement of main's place with what  *)
(* it holds of libfuse.                                                    *)
LEMMA UnwindStep ==
  ASSUME UnwindInv, [UNext]_<<kvars, uvars>>
  PROVE  UnwindInv'
  <1>1. CASE FuseArgs
    BY <1>1 DEF UnwindInv, LibFuse, FuseArgs, Fuse, Goto, ULater
  <1>2. CASE fuse_new
    BY <1>2 DEF UnwindInv, LibFuse, fuse_new, Take, Fuse, Goto, ULater
  <1>3. CASE fuse_set_signal_handlers
    BY <1>3 DEF UnwindInv, LibFuse, fuse_set_signal_handlers, Take, Fuse, Goto, ULater
  <1>4. CASE fuse_mount
    BY <1>4 DEF UnwindInv, LibFuse, fuse_mount, Take, Fuse, Goto, ULater
  <1>5. CASE Daemonize
    BY <1>5 DEF UnwindInv, LibFuse, Daemonize, Fuse, Goto, ULater
  <1>6. CASE FuseBoot
    BY <1>6 DEF UnwindInv, LibFuse, FuseBoot, anyfs_kernel_init, Fuse, Goto, ULater
  <1>7. CASE FuseDisks
    BY <1>7 DEF UnwindInv, LibFuse, FuseDisks, anyfs_share_open_disks, OpenDisks, Loop, Fuse, Goto, ULater
  <1>8. CASE Enter
    BY <1>8 DEF UnwindInv, LibFuse, Enter, Fuse, Goto
  <1>9. CASE LoopEnds
    BY <1>9 DEF UnwindInv, LibFuse, LoopEnds, Fuse, Goto, ULater
  <1>10. CASE out_disks_close
    BY <1>10 DEF UnwindInv, LibFuse, out_disks_close, Loop, Fuse, Goto, ULater
  <1>11. CASE out_kernel_halt
    BY <1>11 DEF UnwindInv, LibFuse, out_kernel_halt, anyfs_kernel_halt, Fuse, Goto, ULater
  <1>12. CASE out_fuse_unmount
    BY <1>12 DEF UnwindInv, LibFuse, out_fuse_unmount, Give, Fuse, Goto, ULater
  <1>13. CASE out_remove_signals
    BY <1>13 DEF UnwindInv, LibFuse, out_remove_signals, Give, Fuse, Goto, ULater
  <1>14. CASE out_fuse_destroy
    BY <1>14 DEF UnwindInv, LibFuse, out_fuse_destroy, Give, Fuse, Goto, ULater
  <1>15. CASE FuseOps
    BY <1>15, OpsStay DEF UnwindInv, OpRest
  <1>16. CASE UNCHANGED <<kvars, uvars>>
    BY <1>16 DEF UnwindInv, kvars, uvars
  <1> QED
    BY <1>1, <1>2, <1>3, <1>4, <1>5, <1>6, <1>7, <1>8, <1>9, <1>10, <1>11, <1>12, <1>13, <1>14, <1>15, <1>16 DEF UNext, FuseMain

----------------------------------------------------------------------------
(* What an operation does to the mounts, the handles and the descriptors:  *)
(* it enters partitions, or opens a file of the in-process kernel in a     *)
(* free handle, or something synthetic, or it releases a handle.           *)

OnImage(m) == m[1] \in Images(nimg)
Looks ==
  /\ UNCHANGED <<h, lfd, pinned>>
  /\ mounts \subseteq mounts' /\ \A m \in mounts' \ mounts : OnImage(m)
OpensFile(x) ==
  /\ h[x] = NoHandle /\ FreeFds # {}
  /\ \E s, m, dir : m # NoMount /\ OnImage(m) /\ LklOpen(x, s, m, dir)
OpensSynth(x) == h[x] = NoHandle /\ \E s, dir : SynthOpen(x, s, dir)

(* A disk and a chain of partitions make a mount of that disk. *)
LEMMA PairMount ==
  ASSUME NEW d, NEW c
  PROVE  <<d, c>> # NoMount /\ <<d, c>>[1] = d
  BY SMTT(10) DEF NoMount

(* resolve_walk ends in a filesystem only on an image that was given. *)
LEMMA WalkIn ==
  ASSUME NEW d, NEW comp, Walk(d, comp) = "fs"
  PROVE  d \in Images(nimg) /\ OnImage(<<d, Parts(comp)>>)
  BY PairMount DEF Walk, OnImage

(* What a walk enters is on an image that was given. *)
LEMMA EnteredIn ==
  ASSUME NEW fp, NEW m \in Entered(fp)
  PROVE  OnImage(m)
  <1>1. m \in Walked(fp.disk, fp.chain)
    BY DEF Entered
  <1> QED
    BY <1>1, WalkIn DEF Walked

(* A path that fuse_path_to_lkl resolves leads to a mount on an image that *)
(* was given.                                                              *)
LEMMA ResolvedIn ==
  ASSUME pin = NoMount \/ OnImage(pin), NEW s, NEW fp, fuse_path_to_lkl(s, fp).rc = "ok"
  PROVE  fuse_path_to_lkl(s, fp).m # NoMount /\ OnImage(fuse_path_to_lkl(s, fp).m)
  <1>1. CASE pin # NoMount
    <2>1. fuse_path_to_lkl(s, fp) = [rc |-> "ok", m |-> pin, inner |-> s]
      BY <1>1 DEF fuse_path_to_lkl
    <2>2. fuse_path_to_lkl(s, fp).m = pin
      BY <2>1, SMTT(30)
    <2> QED
      BY <1>1, <2>2
  <1>2. CASE pin = NoMount /\ fp.kind = "IN_PARTITION" /\ Walk(fp.disk, fp.chain) = "fs"
    <2>1. fuse_path_to_lkl(s, fp) = [rc |-> "ok", m |-> <<fp.disk, Parts(fp.chain)>>, inner |-> fp.inner]
      BY <1>2 DEF fuse_path_to_lkl
    <2>2. fuse_path_to_lkl(s, fp).m = <<fp.disk, Parts(fp.chain)>>
      BY <2>1, SMTT(30)
    <2>3. OnImage(<<fp.disk, Parts(fp.chain)>>)
      BY <1>2, WalkIn
    <2>4. <<fp.disk, Parts(fp.chain)>> # NoMount
      BY PairMount
    <2> QED
      BY <2>2, <2>3, <2>4
  <1>3. CASE pin = NoMount /\ fp.kind = "IN_PARTITION" /\ Walk(fp.disk, fp.chain) # "fs"
    <2>1. fuse_path_to_lkl(s, fp) = [rc |-> "EIO", m |-> NoMount, inner |-> <<>>]
      BY <1>3 DEF fuse_path_to_lkl
    <2> QED
      BY <2>1, SMTT(30)
  <1>4. CASE pin = NoMount /\ fp.kind # "IN_PARTITION"
    <2>1. fuse_path_to_lkl(s, fp) = [rc |-> "ENOENT", m |-> NoMount, inner |-> <<>>]
      BY <1>4 DEF fuse_path_to_lkl
    <2> QED
      BY <2>1, SMTT(30)
  <1> QED
    BY <1>1, <1>2, <1>3, <1>4

(* An operation only looks (and may mount what it enters), opens a file,   *)
(* opens something synthetic, or releases a handle.                        *)
LEMMA OpEffect ==
  ASSUME pin = NoMount \/ OnImage(pin), FuseOps
  PROVE  Looks \/ \E x \in Handles : OpensFile(x) \/ OpensSynth(x) \/ Release(x)
  <1>1. ASSUME NEW fp, Getattr(fp)
        PROVE  Looks
    BY <1>1, EnteredIn DEF Getattr, Looks
  <1>2. ASSUME NEW s, NEW fp,
               \/ PathOp(s, fp) \/ AttrOp(s, fp) \/ XattrOp(s, fp)
               \/ Statfs(s, fp) \/ Access(s, fp) \/ Utimens(s, fp)
        PROVE  Looks
    <2>1. ResolveOp(s, fp)
      BY <1>2 DEF PathOp, AttrOp, XattrOp, Statfs, Access, Utimens
    <2> QED
      BY <2>1, ResolvedIn DEF ResolveOp, Looks
  <1>3. ASSUME NEW s, NEW fp, NEW t, NEW tp, TwoPathOp(s, fp, t, tp)
        PROVE  Looks
    <2>1. CASE fuse_path_to_lkl(t, tp).rc = "ok"
      BY <1>3, <2>1, ResolvedIn DEF TwoPathOp, Looks
    <2>2. CASE fuse_path_to_lkl(t, tp).rc # "ok"
      BY <1>3, <2>2, ResolvedIn DEF TwoPathOp, Looks
    <2> QED
      BY <2>1, <2>2
  <1>4. ASSUME NEW fp, Fails(fp)
        PROVE  Looks
    BY <1>4, EnteredIn DEF Fails, Looks
  <1>5. ASSUME NEW s, NEW fp, NEW x \in Handles, NEW create, Open(x, s, fp, create)
        PROVE  Looks \/ OpensFile(x) \/ OpensSynth(x)
    <2>1. CASE SynthOpen(x, s, FALSE)
      BY <1>5, <2>1 DEF Open, OpensSynth
    <2>2. CASE /\ fuse_path_to_lkl(s, fp).rc = "ok" /\ FreeFds # {}
               /\ LklOpen(x, s, fuse_path_to_lkl(s, fp).m, FALSE)
      BY <1>5, <2>2, ResolvedIn DEF Open, OpensFile
    <2> QED
      BY <1>4, <1>5, <2>1, <2>2 DEF Open
  <1>6. ASSUME NEW s, NEW fp, NEW x \in Handles, Opendir(x, s, fp)
        PROVE  Looks \/ OpensFile(x) \/ OpensSynth(x)
    <2> DEFINE m == IF pin # NoMount THEN pin ELSE <<fp.disk, Parts(fp.chain)>>
    <2>1. CASE SynthOpen(x, s, TRUE)
      BY <1>6, <2>1 DEF Opendir, OpensSynth
    <2>2. CASE pin # NoMount \/ Walk(fp.disk, fp.chain) = "fs"
      <3>1. m # NoMount /\ OnImage(m)
        BY <2>2, WalkIn, PairMount
      <3>2. LklOpen(x, s, m, TRUE) /\ FreeFds # {} => OpensFile(x)
        BY <1>6, <3>1 DEF Opendir, OpensFile
      <3> QED
        BY <1>4, <1>6, <2>1, <3>2 DEF Opendir
    <2> QED
      BY <1>4, <1>6, <2>1, <2>2 DEF Opendir
  <1>7. ASSUME NEW x \in Handles, Readdir(x)
        PROVE  Looks
    BY <1>7 DEF Readdir, Looks
  <1> QED
    BY <1>1, <1>2, <1>3, <1>5, <1>6, <1>7 DEF FuseOps

----------------------------------------------------------------------------
(* The descriptors. *)

(* A set of naturals has a least member. *)
LEMMA LeastOf ==
  ASSUME NEW S, S \subseteq Nat, S # {}
  PROVE  \E f \in S : \A g \in S : f <= g
  <1> DEFINE Less == {ss \in Nat \X Nat : ss[1] < ss[2]}
  <1>1. IsWellFoundedOn(Less, Nat)
    BY NatLessThanWellFounded DEF OpToRel
  <1>2. \A f, g \in Nat : <<g, f>> \notin Less => f <= g
    BY SMTT(30)
  <1>3. \E f \in S : \A g \in S : <<g, f>> \notin Less
    <2> HIDE DEF Less
    <2> QED
      BY <1>1, WFMin
  <1> QED
    BY <1>2, <1>3

(* The descriptor the in-process kernel gives is a free one. *)
LEMMA LowestIn ==
  ASSUME fd0 \in Nat, FreeFds # {}
  PROVE  LowestFd \in FreeFds
  <1>1. FreeFds \subseteq Nat
    BY FuseAssumption, SMTT(30) DEF FreeFds
  <1>2. \E f \in FreeFds : \A g \in FreeFds : f <= g
    BY <1>1, LeastOf
  <1> QED
    BY <1>2 DEF LowestFd

(* A handle that a step leaves alone, with its descriptor. *)
LEMMA OtherHandle ==
  ASSUME NEW y \in Handles, HandleInv(y), h'[y] = h[y],
         h[y].fd # -1 => /\ lfd'[h[y].fd] = lfd[h[y].fd]
                         /\ \A z \in Handles : z # y => h'[z].fd # h[y].fd
  PROVE  HandleInv(y)'
  <1>1. CASE h[y].fd = -1 /\ (h[y] = NoHandle \/ h[y].fh = 0)
    BY <1>1 DEF HandleInv
  <1>2. CASE /\ h[y].fd \in 0 .. MaxFd /\ lfd[h[y].fd] # NoMount
             /\ h[y].fh = 0 => h[y].fd = 0
    <2>1. h[y].fd # -1
      BY <1>2, FuseAssumption, SMTT(30)
    <2>2. \A z \in Handles : h'[z].fd = h'[y].fd => z = y
      BY <2>1
    <2> QED
      BY <1>2, <2>1, <2>2 DEF HandleInv
  <1> QED
    BY <1>1, <1>2 DEF HandleInv

(* An open takes a free descriptor and a free handle. *)
LEMMA OpenKeeps ==
  ASSUME FdInv, NEW x \in Handles, OpensFile(x), UNCHANGED fd0
  PROVE  FdInv'
  <1>1. PICK s, m, dir : m # NoMount /\ LklOpen(x, s, m, dir)
    BY DEF OpensFile
  <1>2. PICK f \in FreeFds : f = LowestFd
    BY LowestIn DEF FdInv, OpensFile
  <1>3. f \in 0 .. MaxFd /\ lfd[f] = NoMount /\ f # -1
    BY FuseAssumption, SMTT(30) DEF FdInv, FreeFds
  <1>4. /\ lfd' = [lfd EXCEPT ![f] = m] /\ pinned' = pinned \cup {m}
        /\ h' = [h EXCEPT ![x] = [path |-> s, dir |-> dir, fh |-> IF dir THEN 1 ELSE f, fd |-> f]]
    BY <1>1, <1>2 DEF LklOpen
  <1>5. /\ lfd' = [g \in 0 .. MaxFd |-> lfd'[g]] /\ lfd'[f] = m
        /\ \A g \in 0 .. MaxFd : g # f => lfd'[g] = lfd[g]
    BY <1>3, <1>4 DEF FdInv
  <1>6. /\ h' = [y \in Handles |-> h'[y]]
        /\ h'[x] = [path |-> s, dir |-> dir, fh |-> IF dir THEN 1 ELSE f, fd |-> f]
        /\ \A y \in Handles : y # x => h'[y] = h[y]
    BY <1>4 DEF FdInv
  <1>7. h'[x].fd = f /\ (h'[x].fh = 0 => h'[x].fd = 0)
    BY <1>6, SMTT(30)
  <1>8. \A y \in Handles : h[y].fd # f
    BY <1>3 DEF FdInv, HandleInv
  <1>9. h[x].fd = -1
    BY SMTT(30) DEF OpensFile, NoHandle
  <1>10. \A y \in Handles : HandleInv(y)'
    <2>1. HandleInv(x)'
      BY <1>1, <1>3, <1>5, <1>6, <1>7, <1>8 DEF HandleInv
    <2>2. ASSUME NEW y \in Handles, y # x
          PROVE  HandleInv(y)'
      <3>1. h'[y] = h[y] /\ h[y].fd # f /\ h'[x].fd = f
        BY <1>6, <1>7, <1>8, <2>2
      <3>2. h[y].fd # -1 => h[y].fd \in 0 .. MaxFd /\ \A z \in Handles : h[z].fd = h[y].fd => z = y
        BY DEF FdInv, HandleInv
      <3>3. HandleInv(y)
        BY DEF FdInv
      <3> QED
        BY <3>1, <3>2, <3>3, <1>5, <1>6, OtherHandle
    <2> QED
      BY <2>1, <2>2
  <1>11. PinnedBy(lfd') = PinnedBy(lfd) \cup {m}
    <2>1. DOMAIN lfd = 0 .. MaxFd /\ DOMAIN lfd' = 0 .. MaxFd
      BY <1>5 DEF FdInv
    <2> QED
      BY <1>1, <1>3, <1>5, <2>1 DEF PinnedBy
  <1>12. \A g \in 1 .. MaxFd : lfd'[g] # NoMount => \E y \in Handles : h'[y].fd = g
    <2>1. SUFFICES ASSUME NEW g \in 1 .. MaxFd, lfd'[g] # NoMount
                   PROVE  \E y \in Handles : h'[y].fd = g
      OBVIOUS
    <2>2. g \in 0 .. MaxFd /\ g # -1
      BY FuseAssumption, SMTT(30)
    <2>3. CASE g = f
      BY <2>3, <1>7
    <2>4. CASE g # f
      <3>1. PICK y \in Handles : h[y].fd = g
        BY <2>1, <2>2, <2>4, <1>5 DEF FdInv
      <3> QED
        BY <3>1, <2>2, <1>6, <1>9
    <2> QED
      BY <2>3, <2>4
  <1> QED
    BY <1>4, <1>5, <1>6, <1>10, <1>11, <1>12 DEF FdInv

(* The parts of FdInv, after a step, make FdInv. *)
LEMMA FdTogether ==
  ASSUME fd0' \in Nat, lfd' = [f \in 0 .. MaxFd |-> lfd'[f]], h' = [x \in Handles |-> h'[x]],
         pinned' = PinnedBy(lfd'), \A x \in Handles : HandleInv(x)',
         \A f \in 1 .. MaxFd : lfd'[f] # NoMount => \E x \in Handles : h'[x].fd = f
  PROVE  FdInv'
  BY DEF FdInv

(* Opening something synthetic takes no descriptor. *)
LEMMA SynthKeeps ==
  ASSUME FdInv, NEW x \in Handles, OpensSynth(x), UNCHANGED fd0
  PROVE  FdInv'
  <1>1. PICK s, dir : SynthOpen(x, s, dir)
    BY DEF OpensSynth
  <1>2. /\ h' = [y \in Handles |-> h'[y]] /\ UNCHANGED <<lfd, pinned>>
        /\ h'[x] = [path |-> s, dir |-> dir, fh |-> 0, fd |-> -1]
        /\ \A y \in Handles : y # x => h'[y] = h[y]
    BY <1>1 DEF FdInv, SynthOpen
  <1>3. h'[x].fd = -1 /\ h'[x].fh = 0 /\ h[x].fd = -1
    BY <1>2, SMTT(30) DEF OpensSynth, NoHandle
  <1>4. \A y \in Handles : h'[y].fd = h[y].fd
    BY <1>2, <1>3
  <1>5. \A y \in Handles : HandleInv(y)'
    <2>1. HandleInv(x)'
      BY <1>3 DEF HandleInv
    <2>2. ASSUME NEW y \in Handles, y # x
          PROVE  HandleInv(y)'
      <3>1. HandleInv(y)
        BY DEF FdInv
      <3>2. h[y].fd # -1 => \A z \in Handles : h[z].fd = h[y].fd => z = y
        BY DEF FdInv, HandleInv
      <3> QED
        BY <1>2, <1>4, <2>2, <3>1, <3>2, OtherHandle
    <2> QED
      BY <2>1, <2>2
  <1>6. ASSUME NEW g \in 1 .. MaxFd, lfd'[g] # NoMount
        PROVE  \E y \in Handles : h'[y].fd = g
    <2>1. PICK y \in Handles : h[y].fd = g
      BY <1>2, <1>6 DEF FdInv
    <2> QED
      BY <1>4, <2>1
  <1>7. fd0' \in Nat /\ lfd' = [f \in 0 .. MaxFd |-> lfd'[f]] /\ pinned' = PinnedBy(lfd')
    BY <1>2 DEF FdInv
  <1> QED
    BY <1>2, <1>5, <1>6, <1>7, FdTogether

(* A release closes the handle's own descriptor, except a file's           *)
(* descriptor 0, which it takes for something synthetic.                   *)
LEMMA ReleaseKeeps ==
  ASSUME FdInv, NEW x \in Handles, Release(x)
  PROVE  FdInv'
  <1>1. /\ h[x] # NoHandle /\ h' = [h EXCEPT ![x] = NoHandle] /\ fd0' = fd0
        /\ lfd' = (IF h[x].fh = 0 THEN lfd ELSE [lfd EXCEPT ![h[x].fd] = NoMount])
        /\ pinned' = PinnedBy(lfd')
    BY DEF Release, CloseHandle, OpRest
  <1>2. /\ h' = [y \in Handles |-> h'[y]] /\ h'[x] = NoHandle
        /\ \A y \in Handles : y # x => h'[y] = h[y]
    BY <1>1 DEF FdInv
  <1>3. h'[x].fd = -1
    BY <1>2, SMTT(30) DEF NoHandle
  <1>4. \A g \in 1 .. MaxFd : g # -1 /\ g # 0 /\ g \in 0 .. MaxFd
    BY FuseAssumption, SMTT(30)
  <1>5. CASE h[x].fh = 0
    <2>1. lfd' = lfd /\ (h[x].fd = -1 \/ h[x].fd = 0)
      BY <1>1, <1>5 DEF FdInv, HandleInv
    <2>2. \A y \in Handles : HandleInv(y)'
      <3>1. HandleInv(x)'
        BY <1>2, <1>3 DEF HandleInv
      <3>2. ASSUME NEW y \in Handles, y # x
            PROVE  HandleInv(y)'
        <4>1. HandleInv(y) /\ (h[y].fd # -1 => \A z \in Handles : h[z].fd = h[y].fd => z = y)
          BY DEF FdInv, HandleInv
        <4> QED
          BY <1>2, <1>3, <2>1, <3>2, <4>1, OtherHandle
      <3> QED
        BY <3>1, <3>2
    <2>3. ASSUME NEW g \in 1 .. MaxFd, lfd'[g] # NoMount
          PROVE  \E y \in Handles : h'[y].fd = g
      <3>1. PICK y \in Handles : h[y].fd = g
        BY <2>1, <2>3 DEF FdInv
      <3>2. y # x
        BY <1>4, <2>1, <3>1
      <3> QED
        BY <1>2, <3>1, <3>2
    <2>4. fd0' \in Nat /\ lfd' = [f \in 0 .. MaxFd |-> lfd'[f]]
      BY <1>1, <2>1 DEF FdInv
    <2> QED
      BY <1>1, <1>2, <2>2, <2>3, <2>4, FdTogether
  <1>6. CASE h[x].fh # 0
    <2>0. HandleInv(x)
      BY DEF FdInv
    <2>1. PICK f \in 0 .. MaxFd : f = h[x].fd /\ \A y \in Handles : h[y].fd = f => y = x
      BY <1>1, <1>6, <2>0 DEF HandleInv
    <2>2. /\ lfd' = [g \in 0 .. MaxFd |-> lfd'[g]] /\ lfd'[f] = NoMount
          /\ \A g \in 0 .. MaxFd : g # f => lfd'[g] = lfd[g]
      BY <1>1, <1>6, <2>1 DEF FdInv
    <2>3. \A y \in Handles : HandleInv(y)'
      <3>1. HandleInv(x)'
        BY <1>2, <1>3 DEF HandleInv
      <3>2. ASSUME NEW y \in Handles, y # x
            PROVE  HandleInv(y)'
        <4>1. HandleInv(y) /\ (h[y].fd # -1 => h[y].fd \in 0 .. MaxFd /\ \A z \in Handles : h[z].fd = h[y].fd => z = y)
          BY DEF FdInv, HandleInv
        <4> QED
          BY <1>2, <1>3, <2>1, <2>2, <3>2, <4>1, OtherHandle
      <3> QED
        BY <3>1, <3>2
    <2>4. ASSUME NEW g \in 1 .. MaxFd, lfd'[g] # NoMount
          PROVE  \E y \in Handles : h'[y].fd = g
      <3>1. g # f /\ lfd[g] # NoMount
        BY <1>4, <2>2, <2>4
      <3>2. PICK y \in Handles : h[y].fd = g
        BY <3>1 DEF FdInv
      <3>3. y # x
        BY <2>1, <3>1, <3>2
      <3> QED
        BY <1>2, <3>2, <3>3
    <2>5. fd0' \in Nat
      BY <1>1 DEF FdInv
    <2> QED
      BY <1>1, <1>2, <2>2, <2>3, <2>4, <2>5, FdTogether
  <1> QED
    BY <1>5, <1>6

(* Every step of anyfs-fuse keeps the agreement of handles and             *)
(* descriptors.                                                            *)
LEMMA FdStep ==
  ASSUME ImagesInv, FdInv, [UNext]_<<kvars, uvars>>
  PROVE  FdInv'
  <1>1. ASSUME UNCHANGED <<h, lfd, pinned, fd0>>
        PROVE  FdInv'
    <2>1. \A x \in Handles : HandleInv(x)'
      BY <1>1 DEF FdInv, HandleInv
    <2> QED
      BY <1>1, <2>1 DEF FdInv, PinnedBy
  <1>2. CASE FuseMain \/ LoopEnds
    <2>1. UNCHANGED <<h, lfd, pinned, fd0>>
      BY <1>2 DEF FuseMain, LoopEnds, FuseArgs, fuse_new, fuse_set_signal_handlers, fuse_mount, Take,
                  Daemonize, FuseBoot, FuseDisks, Enter, out_disks_close, out_kernel_halt,
                  out_fuse_unmount, out_remove_signals, out_fuse_destroy, Give, ULater
    <2> QED
      BY <1>1, <2>1
  <1>3. CASE FuseOps
    <2>1. UNCHANGED fd0
      BY <1>3, OpsStay DEF OpRest
    <2>2. pin = NoMount \/ OnImage(pin)
      BY DEF ImagesInv, OnImage
    <2> QED
      BY <1>1, <1>3, <2>1, <2>2, OpEffect, OpenKeeps, SynthKeeps, ReleaseKeeps DEF Looks
  <1>4. CASE UNCHANGED <<kvars, uvars>>
    BY <1>1, <1>4 DEF kvars, uvars
  <1> QED
    BY <1>2, <1>3, <1>4 DEF UNext

----------------------------------------------------------------------------
(* The images and what is mounted on them. *)

(* An operation keeps what is known of sessions and mounts. *)
LEMMA OpImages ==
  ASSUME UnwindInv, ImagesInv, FdInv, FuseOps
  PROVE  ImagesInv'
  <1>1. UNCHANGED <<nimg, pc, i, disks, live, twice, pin>> /\ pc = "f_loop" /\ live = Images(nimg)
    BY OpsStay DEF OpRest, Op, Fuse, ImagesInv
  <1>2. pinned' \subseteq mounts' /\ \A m \in mounts' : m[1] \in Images(nimg)
    <2>1. /\ pinned \subseteq mounts
          /\ \A m \in mounts : m[1] \in Images(nimg)
          /\ pin = NoMount \/ OnImage(pin)
      BY <1>1 DEF ImagesInv, OnImage
    <2>2. CASE Looks
      BY <2>1, <2>2 DEF Looks, OnImage
    <2>3. ASSUME NEW x \in Handles, OpensFile(x)
          PROVE  pinned' \subseteq mounts' /\ \A m \in mounts' : m[1] \in Images(nimg)
      BY <2>1, <2>3 DEF OpensFile, LklOpen, OnImage
    <2>4. ASSUME NEW x \in Handles, OpensSynth(x)
          PROVE  UNCHANGED <<pinned, mounts>>
      BY <2>4 DEF OpensSynth, SynthOpen
    <2>5. ASSUME NEW x \in Handles, Release(x)
          PROVE  mounts' = mounts /\ pinned' \subseteq pinned
      <3>1. /\ mounts' = mounts /\ pinned' = PinnedBy(lfd')
            /\ lfd' = (IF h[x].fh = 0 THEN lfd ELSE [lfd EXCEPT ![h[x].fd] = NoMount])
        BY <2>5 DEF Release, CloseHandle
      <3>2. DOMAIN lfd' = DOMAIN lfd /\ \A f \in DOMAIN lfd : lfd'[f] \in {lfd[f], NoMount}
        BY <3>1 DEF FdInv
      <3>3. pinned = PinnedBy(lfd)
        BY DEF FdInv
      <3> QED
        BY <3>1, <3>2, <3>3 DEF PinnedBy
    <2> QED
      BY <2>1, <2>2, <2>3, <2>4, <2>5, OpEffect
  <1> QED
    BY <1>1, <1>2 DEF ImagesInv, Images, Booting, Closed

(* Every step of anyfs-fuse keeps what is known of sessions and mounts. *)
LEMMA ImagesStep ==
  ASSUME UnwindInv, ImagesInv, FdInv, [UNext]_<<kvars, uvars>>
  PROVE  ImagesInv'
  <1>1. ASSUME UNCHANGED <<nimg, disks, live, mounts, pinned, twice, pin>>, i' = 0,
               \/ pc \in Booting /\ pc' \in Booting \cup Closed \cup {"f_disks"}
               \/ pc = "f_loop" /\ pc' = "out_disks_close"
               \/ pc \in Closed /\ pc' \in Closed
        PROVE  ImagesInv'
    <2>1. 0 <= nimg
      BY SMTT(30) DEF ImagesInv
    <2> QED
      BY <1>1, <2>1, NoImages DEF ImagesInv, Booting, Closed
  <1>2. CASE FuseArgs
    BY <1>1, <1>2 DEF FuseArgs, Fuse, Goto, ULater, UNoDisk, Booting, Closed
  <1>3. CASE fuse_new
    BY <1>1, <1>3 DEF fuse_new, Take, Fuse, Goto, ULater, UNoDisk, Booting, Closed
  <1>4. CASE fuse_set_signal_handlers
    BY <1>1, <1>4 DEF fuse_set_signal_handlers, Take, Fuse, Goto, ULater, UNoDisk, Booting, Closed
  <1>5. CASE fuse_mount
    BY <1>1, <1>5 DEF fuse_mount, Take, Fuse, Goto, ULater, UNoDisk, Booting, Closed
  <1>6. CASE Daemonize
    BY <1>1, <1>6 DEF Daemonize, Fuse, Goto, ULater, UNoDisk, Booting, Closed
  <1>7. CASE FuseBoot
    BY <1>1, <1>7 DEF FuseBoot, anyfs_kernel_init, Fuse, Goto, ULater, UNoDisk, Booting, Closed
  <1>8. CASE FuseDisks
    <2>1. /\ pc = "f_disks" /\ live = disks /\ disks = Images(i) /\ i <= nimg /\ UNCHANGED <<nimg, pinned, pin>>
          /\ i \in Nat /\ nimg \in Nat
      BY <1>8 DEF ImagesInv, FuseDisks, Fuse, ULater
    <2>2. CASE i < nimg /\ disks' = disks \cup {i} /\ live' = live \cup {i} /\ Loop /\ UNCHANGED <<mounts, twice>>
      <3>1. disks' = Images(i') /\ live' = disks' /\ i' \in Nat /\ i' <= nimg /\ pc' = "f_disks"
        BY <2>1, <2>2, OneImage, ImagesIn DEF Loop
      <3>2. live \subseteq live'
        BY <2>2
      <3> QED
        BY <2>1, <2>2, <3>1, <3>2 DEF ImagesInv, Images, Booting, Closed
    <2>3. CASE i < nimg /\ anyfs_session_close(Images(i)) /\ disks' = disks \ Images(i) /\ Goto("out_kernel_halt")
      <3>1. /\ live' = {} /\ ~ twice' /\ i' = 0 /\ pc' = "out_kernel_halt"
            /\ mounts' = {m \in mounts : m[1] \notin Images(i) \/ m \in pinned}
        BY <2>1, <2>3 DEF ImagesInv, anyfs_session_close, Goto
      <3>2. \A m \in mounts' : m \in mounts /\ m \in pinned
        BY <2>1, <3>1 DEF ImagesInv
      <3>3. pinned \subseteq mounts'
        BY <3>1 DEF ImagesInv
      <3> QED
        BY <2>1, <3>1, <3>2, <3>3, NoImages DEF ImagesInv, Images, Booting, Closed
    <2>4. CASE i = nimg /\ Goto("f_enter") /\ UNCHANGED <<disks, live, mounts, twice>>
      BY <2>1, <2>4, NoImages DEF ImagesInv, Goto, Images, Booting, Closed
    <2> QED
      BY <1>8, <2>2, <2>3, <2>4 DEF FuseDisks, anyfs_share_open_disks, OpenDisks
  <1>9. CASE Enter
    <2>1. /\ UNCHANGED <<nimg, pinned, disks, live, twice>> /\ pc = "f_enter" /\ i' = 0
          /\ pc' \in {"f_loop", "out_disks_close"}
      BY <1>9 DEF Enter, Fuse, Goto
    <2>2. /\ mounts \subseteq mounts' /\ \A m \in mounts' \ mounts : OnImage(m)
          /\ pin' = pin \/ OnImage(pin')
      <3>1. CASE UNCHANGED <<pin, mounts>>
        BY <3>1
      <3>2. ASSUME NEW d, NEW c, Walk(d, c) = "fs", pin' = <<d, Parts(c)>>, mounts' = mounts \cup {pin'}
            PROVE  /\ mounts \subseteq mounts' /\ \A m \in mounts' \ mounts : OnImage(m)
                   /\ pin' = pin \/ OnImage(pin')
        BY <3>2, WalkIn
      <3>3. ASSUME mounts' = mounts \cup UNION {{<<d, c>> : c \in {t \in Tops(d) : Layout[d][t] = "fs"}} :
                                                  d \in Images(nimg)}
            PROVE  mounts \subseteq mounts' /\ \A m \in mounts' \ mounts : OnImage(m)
        <4>1. ASSUME NEW m \in mounts' \ mounts
              PROVE  \E d \in Images(nimg) : \E c \in Tops(d) : m = <<d, c>>
          BY <3>3, <4>1
        <4> QED
          <5>1. ASSUME NEW m \in mounts' \ mounts
                PROVE  OnImage(m)
            <6>1. PICK d \in Images(nimg) : \E c \in Tops(d) : m = <<d, c>>
              BY <4>1
            <6>2. m[1] = d
              BY <6>1, PairMount
            <6> QED
              BY <6>2 DEF OnImage
          <5> QED
            BY <3>3, <5>1
      <3> QED
        BY <1>9, <3>1, <3>2, <3>3 DEF Enter
    <2>3. 0 <= nimg
      BY SMTT(30) DEF ImagesInv
    <2> QED
      BY <2>1, <2>2, <2>3, NoImages DEF ImagesInv, OnImage, Booting, Closed
  <1>10. CASE LoopEnds
    BY <1>1, <1>10 DEF LoopEnds, Fuse, Goto, ULater, UNoDisk
  <1>11. CASE out_disks_close
    <2>1. /\ pc = "out_disks_close" /\ live = Images(nimg) \ Images(i) /\ disks = live /\ i <= nimg
          /\ UNCHANGED <<nimg, pinned, pin>> /\ i \in Nat /\ nimg \in Nat
      BY <1>11 DEF ImagesInv, out_disks_close, Fuse, ULater
    <2>2. CASE i < nimg /\ anyfs_session_close({i} \cap disks) /\ disks' = disks \ {i} /\ Loop
      <3>1. i' \in Nat /\ i' <= nimg /\ Images(i') = Images(i) \cup {i} /\ pc' = "out_disks_close"
        BY <2>1, <2>2, OneImage, ImagesIn DEF Loop
      <3>2. live' = Images(nimg) \ Images(i') /\ disks' = live' /\ ~ twice'
        BY <2>1, <2>2, <3>1 DEF ImagesInv, anyfs_session_close
      <3>3. /\ pinned \subseteq mounts'
            /\ \A m \in mounts' : m[1] \in Images(nimg) /\ (m \in pinned \/ m[1] \in live')
        BY <2>1, <2>2, <3>1 DEF ImagesInv, anyfs_session_close
      <3> QED
        BY <2>1, <3>1, <3>2, <3>3 DEF ImagesInv, Booting, Closed
    <2>3. CASE i = nimg /\ Goto("out_kernel_halt") /\ UNCHANGED <<disks, live, mounts, twice>>
      <3>1. live' = {} /\ pc' = "out_kernel_halt" /\ i' = 0
        BY <2>1, <2>3 DEF Goto
      <3> QED
        BY <2>1, <2>3, <3>1, NoImages DEF ImagesInv, Booting, Closed
    <2> QED
      BY <1>11, <2>2, <2>3 DEF out_disks_close
  <1>12. CASE out_kernel_halt
    BY <1>1, <1>12 DEF out_kernel_halt, Fuse, Goto, ULater, UNoDisk, Closed
  <1>13. CASE out_fuse_unmount
    BY <1>1, <1>13 DEF out_fuse_unmount, Give, Fuse, Goto, ULater, UNoDisk, Closed
  <1>14. CASE out_remove_signals
    BY <1>1, <1>14 DEF out_remove_signals, Give, Fuse, Goto, ULater, UNoDisk, Closed
  <1>15. CASE out_fuse_destroy
    BY <1>1, <1>15 DEF out_fuse_destroy, Give, Fuse, Goto, ULater, UNoDisk, Closed
  <1>16. CASE FuseOps
    BY <1>16, OpImages
  <1>17. CASE UNCHANGED <<kvars, uvars>>
    BY <1>17 DEF ImagesInv, kvars, uvars
  <1> QED
    BY <1>2, <1>3, <1>4, <1>5, <1>6, <1>7, <1>8, <1>9, <1>10, <1>11, <1>12, <1>13, <1>14, <1>15,
       <1>16, <1>17 DEF UNext, FuseMain

(* The invariant of anyfs-fuse holds when main starts. *)
LEMMA FuseInit ==
  ASSUME KInit({"fuse"}), UInit
  PROVE  FuseInv
  <1>1. UnwindInv
    BY DEF KInit, UInit, UnwindInv
  <1>2. nimg \in Nat /\ i \in Nat /\ fd0 \in Nat
    BY SMTT(30) DEF KInit, UInit
  <1>3. ImagesInv
    BY <1>2 DEF KInit, UInit, ImagesInv, Booting, Closed
  <1>4. NoHandle.fd = -1 /\ \A f \in 1 .. MaxFd : f \in 0 .. MaxFd
    BY FuseAssumption, SMTT(30) DEF NoHandle
  <1>5. FdInv
    BY <1>2, <1>4 DEF KInit, UInit, FdInv, HandleInv, PinnedBy
  <1> QED
    BY <1>1, <1>3, <1>5 DEF FuseInv

(* The invariant of anyfs-fuse: what main holds of libfuse, which sessions *)
(* and mounts there are and which handle has which descriptor.             *)
THEOREM FuseInvariant == USpec => []FuseInv
  <1>1. FuseInv /\ [UNext]_<<kvars, uvars>> => FuseInv'
    BY UnwindStep, ImagesStep, FdStep DEF FuseInv
  <1> QED
    BY <1>1, FuseInit, PTL DEF USpec

(* LeavesNothing, for anyfs-fuse: whichever step of main fails, it has     *)
(* closed each session once, unmounted what no open file keeps busy,       *)
(* halted the kernel and given back to libfuse what it had taken.          *)
THEOREM FuseLeavesNothing == USpec => []LeavesNothing
  <1>1. FuseInv => CleanExit
    <2>1. ASSUME FuseInv, pc = "exit"
          PROVE  live = {} /\ mounts = pinned /\ kern # "up"
      BY <2>1 DEF FuseInv, ImagesInv, UnwindInv, Closed
    <2> QED
      BY <2>1 DEF CleanExit, FuseInv, ImagesInv
  <1>2. FuseInv => FuseUnwound
    BY DEF FuseInv, UnwindInv, FuseUnwound
  <1>3. FuseInv => ServersUnwound
    BY DEF FuseInv, UnwindInv, ServersUnwound
  <1> QED
    BY <1>1, <1>2, <1>3, FuseInvariant, PTL DEF LeavesNothing

(* HandleFds: the descriptor behind a FUSE handle is open, it is that      *)
(* handle's alone, and release closes it, descriptor 0 excepted.           *)
THEOREM FuseHandleFds == USpec => []HandleFds
  <1>1. ASSUME FuseInv, NEW x \in Handles, h[x].fd >= 0
        PROVE  lfd[h[x].fd] # NoMount /\ \A y \in Handles : h[y].fd = h[x].fd => y = x
    <2>1. h[x].fd # -1
      BY <1>1, SMTT(30)
    <2> QED
      BY <1>1, <2>1 DEF FuseInv, FdInv, HandleInv
  <1>2. FuseInv => HandleFds
    BY <1>1 DEF FuseInv, FdInv, HandleFds
  <1> QED
    BY <1>2, FuseInvariant, PTL

----------------------------------------------------------------------------
(* The path language, for paths of any length over any numbers. *)

\* A bounded set of positive numbers has a greatest member.
LEMMA GreatestOf ==
  ASSUME NEW L \in Nat, NEW S, S \subseteq 1 .. L, S # {}
  PROVE  \E f \in S : \A g \in S : f >= g
  <1> DEFINE T == {L - n : n \in S}
  <1>1. T \subseteq Nat /\ T # {}
    <2>1. \A n \in 1 .. L : L - n \in Nat
      BY SMTT(30)
    <2> QED
      BY <2>1
  <1>2. PICK m \in T : \A n \in T : m <= n
    <2> HIDE DEF T
    <2> QED
      BY <1>1, LeastOf
  <1>3. PICK f \in S : m = L - f
    OBVIOUS
  <1>4. ASSUME NEW g \in S PROVE f >= g
    <2>1. L - g \in T
      OBVIOUS
    <2>2. L - f <= L - g
      BY <1>2, <1>3, <2>1
    <2>3. f \in 1 .. L /\ g \in 1 .. L
      OBVIOUS
    <2> QED
      BY <2>2, <2>3, SMTT(30)
  <1> QED
    BY <1>4

Segs == Seq(SegmentType)
Full(seg) == seg.t # ""

\* A path is a function on its positions.
LEMMA SegsHave ==
  ASSUME NEW s \in Segs
  PROVE  Len(s) \in Nat /\ DOMAIN s = 1 .. Len(s) /\ \A k \in 1 .. Len(s) : s[k] \in SegmentType
  BY SMTT(30) DEF Segs

(* Stripping slashes leaves segments of the path, and leaves a path        *)
(* without empty segments alone.                                           *)
LEMMA StripLeaves ==
  ASSUME NEW s \in Segs
  PROVE  /\ Strip(s) \in Segs
         /\ \A k \in DOMAIN Strip(s) : \E j \in DOMAIN s : Strip(s)[k] = s[j]
         /\ (\A k \in 1 .. Len(s) : Full(s[k])) => Strip(s) = s
  <1> DEFINE full == {k \in DOMAIN s : Full(s[k])}
             lo == CHOOSE k \in full : \A j \in full : k <= j
             hi == CHOOSE k \in full : \A j \in full : k >= j
  <1>1. Len(s) \in Nat /\ full \subseteq 1 .. Len(s) /\ \A k \in 1 .. Len(s) : Full(s[k]) => k \in full
    BY SegsHave
  <1>2. Strip(s) = IF full = {} THEN <<>> ELSE SubSeq(s, lo, hi)
    BY DEF Strip, Full
  <1>3. s # <<>> => 1 \in 1 .. Len(s) /\ Len(s) \in 1 .. Len(s)
    BY SMTT(30) DEF Segs
  <1>4. CASE full = {}
    <2>1. Strip(s) = <<>> /\ <<>> \in Segs
      BY <1>2, <1>4, EmptySeq DEF Segs
    <2>2. DOMAIN <<>> = {}
      BY SMTT(30)
    <2> QED
      BY <1>1, <1>3, <1>4, <2>1, <2>2
  <1>5. CASE full # {}
    <2>1. \E k \in full : \A j \in full : k <= j
      <3>1. full \subseteq Nat
        BY <1>1, SMTT(30)
      <3> HIDE DEF full
      <3> QED
        BY <1>5, <3>1, LeastOf
    <2>2. \E k \in full : \A j \in full : k >= j
      <3> HIDE DEF full
      <3> QED
        BY <1>1, <1>5, GreatestOf
    <2>3. lo \in full /\ (\A j \in full : lo <= j) /\ hi \in full /\ \A j \in full : hi >= j
      <3> HIDE DEF full
      <3> QED
        BY <2>1, <2>2
    <2>4. Strip(s) = SubSeq(s, lo, hi)
      BY <1>2, <1>5
    <2> HIDE DEF lo, hi, full
    <2>5. lo \in 1 .. Len(s) /\ hi \in 1 .. Len(s) /\ lo <= hi
      BY <1>1, <2>3
    <2>6. SubSeq(s, lo, hi) \in Segs /\ \A k \in DOMAIN SubSeq(s, lo, hi) : \E j \in DOMAIN s : SubSeq(s, lo, hi)[k] = s[j]
      <3> DEFINE u == SubSeq(s, lo, hi)
      <3>1. u \in Segs
        BY <1>1, <2>5, SMTT(30) DEF Segs
      <3>2. ASSUME NEW k \in DOMAIN u PROVE u[k] = s[(lo + k) - 1] /\ (lo + k) - 1 \in DOMAIN s
        BY <1>1, <2>5, <3>2, SMTT(30) DEF Segs
      <3> QED
        BY <3>1, <3>2
    <2>7. Full(s[1]) /\ s # <<>> => lo = 1
      <3>1. \A a \in 1 .. Len(s) : a <= 1 => a = 1
        BY <1>1, SMTT(30)
      <3> QED
        BY <1>1, <1>3, <2>3, <2>5, <3>1
    <2>8. ASSUME \A k \in 1 .. Len(s) : Full(s[k]) PROVE Strip(s) = s
      <3>1. s # <<>>
        <4>1. <<>> \in Segs /\ 1 .. Len(<<>>) = {}
          BY SMTT(30) DEF Segs
        <4> QED
          BY <2>5, <4>1
      <3>2. lo = 1 /\ Len(s) \in full
        BY <1>1, <1>3, <2>7, <2>8, <3>1
      <3>3. hi = Len(s)
        <4>1. \A a \in 1 .. Len(s) : a >= Len(s) => a = Len(s)
          BY <1>1, SMTT(30)
        <4> QED
          BY <2>3, <2>5, <3>2, <4>1
      <3> QED
        BY <2>4, <3>2, <3>3, SubSeqFull DEF Segs
    <2> QED
      BY <2>4, <2>6, <2>8
  <1> QED
    BY <1>4, <1>5

(* The numbers of a path.  One that fits an int keeps its value.          *)
LEMMA SmallNumber ==
  ASSUME NEW n \in 0 .. INT_MAX
  PROVE  strtol(n) = n /\ strtoul(n, FALSE) = n /\ ToUint(n) = n /\ ToInt(n) = n
  <1>1. n \in Nat /\ n <= INT_MAX /\ n <= LONG_MAX /\ n <= ULONG_MAX
    BY PathAssumption, SMTT(30) DEF ULONG_MAX
  <1>2. strtol(n) = n
    BY <1>1, PathAssumption, SMTT(30) DEF strtol
  <1>3. strtoul(n, FALSE) = n
    <2>1. ~ (n > ULONG_MAX)
      BY <1>1, PathAssumption, SMTT(30) DEF ULONG_MAX
    <2> QED
      BY <1>1, <2>1 DEF strtoul
  <1>4. ToUint(n) = n
    BY <1>1, PathAssumption, SMTT(30) DEF ToUint, UINT_RANGE
  <1>5. ~ (n > INT_MAX)
    BY <1>1, PathAssumption, SMTT(30)
  <1> QED
    BY <1>2, <1>3, <1>4, <1>5 DEF ToInt

\* Every conversion gives an integer of its type.
LEMMA Converted ==
  ASSUME NEW n \in Nat, NEW b \in BOOLEAN
  PROVE  strtol(n) \in Nat /\ strtoul(n, b) \in Nat /\ ToUint(n) \in Nat /\ ToInt(n) \in Int
  <1>1. strtol(n) \in Nat
    BY PathAssumption, SMTT(30) DEF strtol
  <1>2. strtoul(n, b) \in Nat
    <2>1. ULONG_MAX \in Nat
      BY PathAssumption, SMTT(30) DEF ULONG_MAX
    <2>2. ~ (n > ULONG_MAX) => ULONG_MAX + 1 - n \in Nat
      BY <2>1, SMTT(30)
    <2>3. n > ULONG_MAX \/ n <= ULONG_MAX
      BY <2>1, SMTT(30)
    <2> HIDE DEF ULONG_MAX
    <2> QED
      BY <2>1, <2>2, <2>3, SMTT(30) DEF strtoul
  <1>3. ToUint(n) \in Nat
    BY PathAssumption, SMTT(30) DEF ToUint, UINT_RANGE
  <1>4. ToInt(n) \in Int
    BY <1>3, PathAssumption, SMTT(30) DEF ToInt, UINT_RANGE
  <1> QED
    BY <1>1, <1>2, <1>3, <1>4

(* A segment whose number keeps its value, as Fits says it of a path. *)
Small(g) == g.n <= INT_MAX /\ g.t \notin {"pminus", "diskminus"}

\* Such a segment names the disk or the partition of its number.
LEMMA SmallSegment ==
  ASSUME NEW g \in SegmentType, Small(g)
  PROVE  disk_idx(g) = g.n /\ comp_num(g) = g.n /\ Comp(g).p = g.n /\ ToInt(whole_idx(g)) = g.n /\ g.n \in Nat
  <1> DEFINE n == g.n
  <1>1. n \in Nat
    BY DEF SegmentType
  <1>2. n <= INT_MAX /\ (g.t = "pminus") = FALSE /\ (g.t = "diskminus") = FALSE
    BY DEF Small
  <1>3. n \in 0 .. INT_MAX
    <2> HIDE DEF n
    <2> QED
      BY <1>1, <1>2, PathAssumption, SMTT(30)
  <1>4. Comp(g).p = ToUint(comp_num(g))
    BY SMTT(30) DEF Comp
  <1> QED
    BY <1>1, <1>2, <1>3, <1>4, SmallNumber DEF disk_idx, comp_num, whole_idx

\* The FUSE parser compares the index before the cast: it is an opened disk.
LEMMA OpenedDisk ==
  ASSUME NEW g \in SegmentType, NEW nd \in 0 .. INT_MAX, ~ OtherDisk(g.n, nd)
  PROVE  disk_idx(g) \in 0 .. nd - 1 /\ disk_idx(g) \in Nat /\ ~ (disk_idx(g) >= nd) /\ ~ (disk_idx(g) < 0)
  <1> DEFINE v == strtol(g.n)
  <1>1. v \in Nat /\ ~ (v >= nd)
    BY Converted DEF SegmentType, OtherDisk
  <1> HIDE DEF v
  <1>2. v \in 0 .. INT_MAX /\ v \in 0 .. nd - 1 /\ ~ (v < 0)
    BY <1>1, PathAssumption, SMTT(30)
  <1>3. disk_idx(g) = v
    BY <1>2, SmallNumber DEF disk_idx, v
  <1> QED
    BY <1>1, <1>2, <1>3

(* A chain of partitions, what makes it parse and what it is parsed to. *)
Chain(s) == s \in Segs /\ s # <<>> /\ \A k \in 1 .. Len(s) : s[k].t = "p"
Parses(s) == Len(s) <= MAX_COMPONENTS /\ \A k \in 1 .. Len(s) : parse_component(s[k])
Comps(s) == [k \in DOMAIN s |-> Comp(s[k])]
Short(s) == \A k \in 1 .. Len(s) : s[k].q # "long"
Leads(s) == Chain(s) /\ Parses(s) /\ Short(s)
Parsed(set, disk, s) == [ok |-> TRUE, set |-> set, disk |-> disk, comp |-> Comps(s)]

\* What does not parse is marked so.
LEMMA BadIsNot == Bad.ok = FALSE
  BY SMTT(30) DEF Bad

\* The first segment of a path and the rest of it.
LEMMA HeadOf ==
  ASSUME NEW s \in Segs, s # <<>>
  PROVE  /\ Head(s) = s[1] /\ s[1] \in SegmentType /\ Tail(s) \in Segs /\ Len(s) = Len(Tail(s)) + 1
         /\ \A k \in 1 .. Len(Tail(s)) : Tail(s)[k] = s[k + 1] /\ k + 1 \in 1 .. Len(s)
         /\ \A k \in 1 .. Len(s) : k = 1 \/ \E j \in 1 .. Len(Tail(s)) : k = j + 1
         /\ 1 \in 1 .. Len(s) /\ Len(s) \in Nat /\ Len(s) >= 1
  <1>1. /\ Head(s) = s[1] /\ s[1] \in SegmentType /\ Tail(s) \in Segs /\ Len(s) = Len(Tail(s)) + 1
        /\ \A k \in 1 .. Len(Tail(s)) : Tail(s)[k] = s[k + 1] /\ k + 1 \in 1 .. Len(s)
        /\ 1 \in 1 .. Len(s) /\ Len(s) \in Nat /\ Len(s) >= 1
    BY SMTT(30) DEF Segs
  <1>2. ASSUME NEW k \in 1 .. Len(s), k # 1 PROVE k - 1 \in 1 .. Len(Tail(s)) /\ k = (k - 1) + 1
    BY <1>1, <1>2, SMTT(30)
  <1> QED
    BY <1>1, <1>2

\* A path with something below its first segment has more than one.
LEMMA LongerThanOne ==
  ASSUME NEW s \in Segs, s # <<>>, Tail(s) # <<>>
  PROVE  Len(s) # 1
  <1> DEFINE a == Len(s)
             b == Len(Tail(s))
  <1>1. a = b + 1
    BY HeadOf
  <1>2. Tail(s) \in Segs
    BY HeadOf
  <1>3. b \in Nat /\ b >= 1
    BY <1>2, HeadOf
  <1> HIDE DEF a, b
  <1>4. a # 1
    BY <1>1, <1>3, SMTT(30)
  <1> QED
    BY <1>4 DEF a

\* Only disk<digits> without a query is a disk.
LEMMA DiskPrefix == ASSUME NEW g PROVE parse_disk_prefix(g) = 1 <=> g.t = "disk" /\ g.q = "none"
  BY SMTT(30) DEF parse_disk_prefix

\* p<digits> is no disk.
LEMMA NoPrefix == ASSUME NEW g, g.t = "p" PROVE parse_disk_prefix(g) = 0
  BY SMTT(30) DEF parse_disk_prefix

(* anyfs_path_parse once the slashes are gone. *)
Refused(segs, dr, comps) ==
  \/ segs = <<>>
  \/ Len(segs) > MAX_COMPONENTS + 1
  \/ dr = -1
  \/ Len(comps) \notin 1 .. MAX_COMPONENTS
  \/ \E k \in DOMAIN comps : ~ parse_component(comps[k])

ParseOf(segs, dr, comps) ==
  IF Refused(segs, dr, comps) THEN Bad ELSE Parsed(dr = 1, IF dr = 1 THEN disk_idx(segs[1]) ELSE 0, comps)

\* anyfs_path_parse, over the named parts of its conditions.
LEMMA ParseIs ==
  ASSUME NEW s
  PROVE  LET segs == Strip(s)
             dr == parse_disk_prefix(Head(segs))
         IN  anyfs_path_parse(s) = ParseOf(segs, dr, IF dr = 1 THEN Tail(segs) ELSE segs)
  BY DEF anyfs_path_parse, ParseOf, Refused, Parsed, Comps

(* What parses names an int; with numbers that fit one, a disk and         *)
(* partitions numbered from 1.                                             *)
LEMMA ParseNames ==
  ASSUME NEW s \in Segs, anyfs_path_parse(s).ok
  PROVE  /\ anyfs_path_parse(s).disk \in Int
         /\ Fits(s) => /\ anyfs_path_parse(s).disk \in Nat
                       /\ \A k \in DOMAIN anyfs_path_parse(s).comp : anyfs_path_parse(s).comp[k].p > 0
  <1> DEFINE segs == Strip(s)
             dr == parse_disk_prefix(Head(segs))
             comps == IF dr = 1 THEN Tail(segs) ELSE segs
             disk == IF dr = 1 THEN disk_idx(segs[1]) ELSE 0
             r == anyfs_path_parse(s)
  <1>0. r = ParseOf(segs, dr, comps)
    BY ParseIs
  <1>2. segs \in Segs /\ \A k \in DOMAIN segs : \E j \in DOMAIN s : segs[k] = s[j]
    BY StripLeaves
  <1> HIDE DEF r, segs, dr
  <1>1. /\ r = Parsed(dr = 1, disk, comps) /\ segs # <<>>
        /\ \A k \in DOMAIN comps : parse_component(comps[k])
    <2> HIDE DEF comps
    <2>1. ~ Refused(segs, dr, comps)
      BY <1>0, BadIsNot DEF ParseOf, r
    <2> QED
      BY <1>0, <2>1 DEF ParseOf, Refused
  <1>3. comps \in Segs /\ segs[1] \in SegmentType /\ 1 \in DOMAIN segs
    BY <1>1, <1>2, HeadOf, SegsHave
  <1>7. \A k \in DOMAIN comps : \E j \in DOMAIN segs : comps[k] = segs[j]
    <2>1. \A k \in DOMAIN Tail(segs) : \E j \in DOMAIN segs : Tail(segs)[k] = segs[j]
      <3>1. DOMAIN segs = 1 .. Len(segs) /\ DOMAIN Tail(segs) = 1 .. Len(Tail(segs))
        BY <1>1, <1>2, HeadOf, SegsHave
      <3> QED
        BY <1>1, <1>2, <3>1, HeadOf
    <2> QED
      BY <2>1
  <1> HIDE DEF comps
  <1>4. r.disk = disk /\ r.comp = Comps(comps)
    <2> HIDE DEF disk
    <2> QED
      BY <1>1, SMTT(30) DEF Parsed
  <1>5. disk \in Int /\ (Small(segs[1]) => disk \in Nat)
    <2>1. 0 \in Int /\ 0 \in Nat
      BY SMTT(30)
    <2>2. disk_idx(segs[1]) \in Int
      BY <1>3, Converted DEF SegmentType, disk_idx
    <2> QED
      BY <1>3, <2>1, <2>2, SmallSegment
  <1>6. ASSUME Fits(s)
        PROVE  Small(segs[1]) /\ \A k \in DOMAIN r.comp : r.comp[k].p > 0
    <2>1. \A k \in DOMAIN segs : Small(segs[k])
      BY <1>2, <1>6 DEF Fits, Small
    <2>2. ASSUME NEW k \in DOMAIN r.comp PROVE r.comp[k].p > 0
      <3>1. k \in DOMAIN comps /\ r.comp[k] = Comp(comps[k])
        BY <1>4, <2>2 DEF Comps
      <3>2. comps[k] \in SegmentType /\ Small(comps[k])
        BY <1>3, <1>7, <2>1, <3>1, SegsHave
      <3>3. comp_num(comps[k]) # 0
        BY <1>1, <3>1 DEF parse_component
      <3> DEFINE n == comps[k].n
      <3>4. n \in Nat /\ n # 0 /\ r.comp[k].p = n
        BY <3>1, <3>2, <3>3, SmallSegment
      <3> HIDE DEF n
      <3>5. n > 0
        BY <3>4, SMTT(30)
      <3> QED
        BY <3>4, <3>5
    <2> QED
      BY <1>3, <2>1, <2>2
  <1> QED
    BY <1>4, <1>5, <1>6 DEF r

(* A chain parses to itself, behind disk<N> or without. *)
LEMMA ParseChain ==
  ASSUME NEW s, Chain(s)
  PROVE  anyfs_path_parse(s) = IF Parses(s) THEN Parsed(FALSE, 0, s) ELSE Bad
  <1>1. s \in Segs /\ s # <<>> /\ \A k \in 1 .. Len(s) : s[k].t = "p"
    BY DEF Chain
  <1>2. Strip(s) = s
    BY <1>1, StripLeaves DEF Full
  <1>3. parse_disk_prefix(Head(s)) = 0
    <2>1. Head(s) = s[1] /\ s[1].t = "p"
      BY <1>1, HeadOf
    <2> QED
      BY <2>1, NoPrefix
  <1>4. DOMAIN s = 1 .. Len(s)
    BY <1>1, SegsHave
  <1>5. Len(s) > MAX_COMPONENTS + 1 \/ Len(s) \notin 1 .. MAX_COMPONENTS <=> ~ (Len(s) <= MAX_COMPONENTS)
    <2>1. Len(s) \in Nat /\ Len(s) >= 1
      BY <1>1, HeadOf
    <2> QED
      BY <2>1, PathAssumption, SMTT(30)
  <1>6. anyfs_path_parse(s) = ParseOf(s, 0, s)
    <2>1. 0 # 1
      BY SMTT(30)
    <2> QED
      BY <1>2, <1>3, <2>1, ParseIs
  <1>7. Refused(s, 0, s) <=> ~ Parses(s)
    <2>1. 0 # -1
      BY SMTT(30)
    <2> QED
      BY <1>1, <1>4, <1>5, <2>1 DEF Refused, Parses
  <1>8. (0 = 1) = FALSE
    BY SMTT(30)
  <1> QED
    BY <1>6, <1>7, <1>8 DEF ParseOf

\* What anyfs_path_parse makes of disk<N> and a chain below it.
LEMMA ParseDisk ==
  ASSUME NEW s \in Segs, s # <<>>, parse_disk_prefix(s[1]) = 1, Chain(Tail(s))
  PROVE  anyfs_path_parse(s) = IF Parses(Tail(s)) THEN Parsed(TRUE, disk_idx(s[1]), Tail(s)) ELSE Bad
  <1> DEFINE t == Tail(s)
  <1>1. t \in Segs /\ t # <<>> /\ \A k \in 1 .. Len(t) : t[k].t = "p"
    BY DEF Chain
  <1>2. Strip(s) = s
    <2>1. ASSUME NEW k \in 1 .. Len(s) PROVE s[k].t = "disk" \/ s[k].t = "p"
      <3>1. s[1].t = "disk"
        BY DiskPrefix
      <3>2. CASE k # 1
        <4>1. PICK j \in 1 .. Len(t) : k = j + 1
          BY <3>2, HeadOf
        <4>2. t[j] = s[k]
          BY <4>1, HeadOf
        <4> QED
          BY <1>1, <4>2
      <3> QED
        BY <3>1, <3>2
    <2> QED
      BY <2>1, StripLeaves DEF Full
  <1>3. parse_disk_prefix(Head(s)) = 1
    BY HeadOf
  <1>4. DOMAIN t = 1 .. Len(t)
    BY <1>1, SegsHave
  <1>5. Len(s) > MAX_COMPONENTS + 1 \/ Len(t) \notin 1 .. MAX_COMPONENTS <=> ~ (Len(t) <= MAX_COMPONENTS)
    <2>1. Len(t) \in Nat /\ Len(t) >= 1 /\ Len(s) = Len(t) + 1
      BY <1>1, HeadOf
    <2> QED
      BY <2>1, PathAssumption, SMTT(30)
  <1> HIDE DEF t
  <1>6. anyfs_path_parse(s) = ParseOf(s, 1, t)
    BY <1>2, <1>3, ParseIs DEF t
  <1>7. Refused(s, 1, t) <=> ~ Parses(t)
    <2>1. 1 # -1
      BY SMTT(30)
    <2> QED
      BY <1>1, <1>4, <1>5, <2>1 DEF Refused, Parses
  <1>8. (1 = 1) = TRUE
    OBVIOUS
  <1> QED
    BY <1>6, <1>7, <1>8 DEF ParseOf, t

(* The greedy chain of the FUSE parser is the longest one. *)
LEMMA ChainLenIs ==
  ASSUME NEW s \in Segs
  PROVE  /\ ChainLen(s) \in 0 .. Len(s) /\ \A k \in 1 .. ChainLen(s) : s[k].t = "p"
         /\ ChainLen(s) < Len(s) => s[ChainLen(s) + 1].t # "p"
  <1> DEFINE other == {k \in 1 .. Len(s) : s[k].t # "p"}
             Longest(n) == (\A k \in 1 .. n : s[k].t = "p") /\ (n < Len(s) => s[n + 1].t # "p")
  <1>1. Len(s) \in Nat
    BY SegsHave
  <1>2. \E n \in 0 .. Len(s) : Longest(n)
    <2>1. CASE other = {}
      <3>1. Len(s) \in 0 .. Len(s) /\ ~ (Len(s) < Len(s))
        BY <1>1, SMTT(30)
      <3> QED
        BY <2>1, <3>1
    <2>2. CASE other # {}
      <3>1. other \subseteq Nat
        BY <1>1, SMTT(30)
      <3>2. PICK f \in other : \A g \in other : f <= g
        <4> HIDE DEF other
        <4> QED
          BY <2>2, <3>1, LeastOf
      <3>3. f \in 1 .. Len(s) /\ s[f].t # "p"
        OBVIOUS
      <3>4. f - 1 \in 0 .. Len(s) /\ (f - 1) + 1 = f /\ \A k \in 1 .. f - 1 : k \in 1 .. Len(s) /\ ~ (f <= k)
        BY <1>1, <3>3, SMTT(30)
      <3> QED
        BY <3>2, <3>3, <3>4
    <2> QED
      BY <2>1, <2>2
  <1>3. ChainLen(s) = CHOOSE n \in 0 .. Len(s) : Longest(n)
    BY DEF ChainLen
  <1>4. ChainLen(s) \in 0 .. Len(s) /\ Longest(ChainLen(s))
    <2> HIDE DEF Longest
    <2> QED
      BY <1>2, <1>3
  <1> QED
    BY <1>4

(* Below disk<N> the FUSE parser finds a partition node where the path is  *)
(* a chain that parses and fits its buffer, and nowhere else.              *)
LEMMA ChainPathIs ==
  ASSUME NEW s \in Segs, NEW d \in Int
  PROVE  /\ ChainPath(s, d).kind = "PART_NODE" => Leads(s)
         /\ Leads(s) =>
              ChainPath(s, d) = FusePath("PART_NODE", IF d < 0 THEN 0 ELSE d, Comps(s), <<>>)
  <1> DEFINE n == ChainLen(s)
             ap == anyfs_path_parse(SubSeq(s, 1, n))
             dd == IF d < 0 THEN 0 ELSE d
             none == s = <<>> \/ s[1].t \notin {"p", "psign", "pminus", "pword"} \/ n = 0 \/ TooLong(s, n) \/ ~ ap.ok
  <1>1. ChainPath(s, d) = IF none THEN NoEnt ELSE IF n = Len(s) THEN FusePath("PART_NODE", dd, ap.comp, <<>>)
                          ELSE FusePath("IN_PARTITION", dd, ap.comp, SubSeq(s, n + 1, Len(s)))
    BY DEF ChainPath
  <1>2. /\ n \in 0 .. Len(s) /\ (\A k \in 1 .. n : s[k].t = "p") /\ (n < Len(s) => s[n + 1].t # "p")
        /\ Len(s) \in Nat
    BY ChainLenIs, SegsHave
  <1>3. SubSeq(s, 1, Len(s)) = s
    BY SubSeqFull DEF Segs
  <1>4. NoEnt.kind # "PART_NODE" /\ \A x, c, t : FusePath("IN_PARTITION", x, c, t).kind # "PART_NODE"
    BY SMTT(30) DEF NoEnt, FusePath
  <1> HIDE DEF n, dd
  <1>5. ASSUME ChainPath(s, d).kind = "PART_NODE" PROVE Leads(s)
    <2>1. n = Len(s) /\ s # <<>> /\ ap.ok /\ ~ TooLong(s, n)
      BY <1>1, <1>4, <1>5
    <2>2. Chain(s)
      BY <1>2, <2>1 DEF Chain
    <2>3. Parses(s)
      BY <1>3, <2>1, <2>2, ParseChain, BadIsNot
    <2> QED
      BY <2>1, <2>2, <2>3 DEF Leads, Short, TooLong
  <1>6. ASSUME Leads(s)
        PROVE  ChainPath(s, d) = FusePath("PART_NODE", dd, Comps(s), <<>>)
    <2>1. s # <<>> /\ Chain(s) /\ Parses(s) /\ \A k \in 1 .. Len(s) : s[k].t = "p"
      BY <1>6 DEF Leads, Chain
    <2>2. n = Len(s) /\ n # 0
      <3>1. n < Len(s) => n + 1 \in 1 .. Len(s)
        BY <1>2, SMTT(30)
      <3>2. ~ (n < Len(s))
        BY <1>2, <2>1, <3>1
      <3>3. Len(s) >= 1
        BY <2>1, HeadOf
      <3> QED
        BY <1>2, <3>2, <3>3, SMTT(30)
    <2>3. ap = Parsed(FALSE, 0, s)
      BY <1>3, <2>1, <2>2, ParseChain
    <2>6. ~ TooLong(s, n)
      BY <1>6, <2>2 DEF Leads, Short, TooLong
    <2>5. s[1].t = "p"
      BY <2>1, HeadOf
    <2> HIDE DEF ap
    <2>4. ap.ok /\ ap.comp = Comps(s)
      BY <2>3, SMTT(30) DEF Parsed
    <2> QED
      BY <1>1, <2>1, <2>2, <2>4, <2>5, <2>6
  <1> QED
    BY <1>5, <1>6 DEF dd

(* A path the share resolver rewrites. *)
LEMMA Rewritten ==
  ASSUME NEW s \in Segs, NEW nd
  PROVE  /\ Prefixed(Rebased(s), nd) \in Segs
         /\ s # <<>> /\ s[1].t # "digit" => Rebased(s) = s
         /\ s # <<>> /\ DiskText(s[1]) => Prefixed(s, nd) = s
         /\ Fits(s) => Fits(Prefixed(Rebased(s), nd))
  <1> DEFINE g == DiskSeg(0)
  <1>1. g \in SegmentType
    <2>1. 0 \in Nat
      BY SMTT(30)
    <2> QED
      BY <2>1 DEF DiskSeg, Seg, SegmentType
  <1> HIDE DEF g
  <1>2. \A x \in SegmentType, t \in Segs : <<x>> \o t \in Segs
    BY SMTT(30) DEF Segs
  <1>3. Rebased(s) \in Segs
    <2>1. CASE s # <<>> /\ s[1].t = "digit"
      <3>1. s[1] \in SegmentType /\ Tail(s) \in Segs
        BY <2>1, HeadOf
      <3>2. [s[1] EXCEPT !.t = "p"] \in SegmentType
        BY <3>1 DEF SegmentType
      <3> QED
        BY <1>2, <2>1, <3>1, <3>2 DEF Rebased
    <2>2. CASE ~ (s # <<>> /\ s[1].t = "digit")
      BY <2>2 DEF Rebased
    <2> QED
      BY <2>1, <2>2
  <1>4. ASSUME NEW t \in Segs PROVE Prefixed(t, nd) \in Segs
    BY <1>1, <1>2 DEF Prefixed, g
  <1>5. s # <<>> /\ s[1].t # "digit" => Rebased(s) = s
    BY DEF Rebased
  <1>6. s # <<>> /\ DiskText(s[1]) => Prefixed(s, nd) = s
    BY DEF Prefixed
  <1>7. ASSUME NEW x \in SegmentType, NEW t \in Segs, Small(x), Fits(t) PROVE Fits(<<x>> \o t)
    <2> DEFINE u == <<x>> \o t
    <2>1. \A k \in DOMAIN u : u[k] = x \/ \E j \in DOMAIN t : u[k] = t[j]
      <3>1. ASSUME NEW k \in DOMAIN u PROVE (k = 1 /\ u[k] = x) \/ (k - 1 \in DOMAIN t /\ u[k] = t[k - 1])
        BY <1>7, <3>1, SMTT(30) DEF Segs
      <3> QED
        BY <3>1
    <2> HIDE DEF u
    <2>2. Fits(u)
      BY <1>7, <2>1 DEF Fits, Small
    <2> QED
      BY <2>2 DEF u
  <1>8. ASSUME Fits(s) PROVE Fits(Rebased(s))
    <2>1. CASE s # <<>> /\ s[1].t = "digit"
      <3> DEFINE x == [s[1] EXCEPT !.t = "p"]
      <3>1. s[1] \in SegmentType /\ Tail(s) \in Segs /\ DOMAIN s = 1 .. Len(s) /\ DOMAIN Tail(s) = 1 .. Len(Tail(s)) /\ 1 \in DOMAIN s
        BY <2>1, HeadOf, SegsHave
      <3>2. x \in SegmentType /\ x.t = "p" /\ x.n = s[1].n
        BY <3>1 DEF SegmentType
      <3> HIDE DEF x
      <3>3. Small(x)
        BY <1>8, <3>1, <3>2 DEF Small, Fits
      <3>4. Fits(Tail(s))
        BY <1>8, <2>1, <3>1, HeadOf DEF Fits
      <3>5. Fits(<<x>> \o Tail(s))
        BY <1>7, <3>1, <3>2, <3>3, <3>4
      <3> QED
        BY <2>1, <3>5 DEF Rebased, x
    <2>2. CASE ~ (s # <<>> /\ s[1].t = "digit")
      BY <1>8, <2>2 DEF Rebased
    <2> QED
      BY <2>1, <2>2
  <1>9. ASSUME NEW t \in Segs, Fits(t) PROVE Fits(Prefixed(t, nd))
    <2>1. Small(g)
      <3>1. g.t = "disk" /\ g.n = 0 /\ 0 <= INT_MAX
        BY PathAssumption, SMTT(30) DEF g, DiskSeg, Seg
      <3> QED
        BY <3>1 DEF Small
    <2>2. Fits(<<g>> \o t)
      BY <1>1, <1>7, <1>9, <2>1
    <2>3. Prefixed(t, nd) = <<g>> \o t \/ Prefixed(t, nd) = t
      BY DEF Prefixed, g
    <2> QED
      BY <1>9, <2>2, <2>3
  <1> QED
    BY <1>3, <1>4, <1>5, <1>6, <1>8, <1>9

(* disk0/ in front of a path. *)
LEMMA WithDisk ==
  ASSUME NEW s \in Segs
  PROVE  LET t == <<DiskSeg(0)>> \o s
         IN  /\ t \in Segs /\ t # <<>> /\ t[1] = DiskSeg(0) /\ Tail(t) = s /\ Len(t) = Len(s) + 1
             /\ DiskSeg(0).t = "disk" /\ disk_idx(DiskSeg(0)) = 0 /\ DiskSeg(0).q = "none"
  <1> DEFINE g == DiskSeg(0)
  <1>1. g \in SegmentType
    <2>1. 0 \in Nat
      BY SMTT(30)
    <2> QED
      BY <2>1 DEF DiskSeg, Seg, SegmentType
  <1>2. g.t = "disk" /\ disk_idx(g) = 0 /\ g.q = "none"
    <2>1. g.t = "disk" /\ g.n = 0 /\ g.q = "none" /\ 0 \in 0 .. INT_MAX
      BY PathAssumption, SMTT(30) DEF DiskSeg, Seg
    <2> QED
      BY <2>1, SmallNumber DEF disk_idx
  <1> HIDE DEF g
  <1>3. <<g>> \o s \in Segs /\ <<g>> \o s # <<>> /\ (<<g>> \o s)[1] = g /\ Len(<<g>> \o s) = Len(s) + 1
    BY <1>1, SMTT(30) DEF Segs
  <1>4. Tail(<<g>> \o s) = s
    <2> DEFINE t == <<g>> \o s
    <2>1. /\ Tail(t) \in Seq(SegmentType) /\ s \in Seq(SegmentType) /\ Len(Tail(t)) = Len(s)
          /\ \A k \in 1 .. Len(Tail(t)) : Tail(t)[k] = s[k]
      BY <1>1, SMTT(30) DEF Segs
    <2> HIDE DEF t
    <2>2. Tail(t) = s
      BY <2>1, SeqEqual
    <2> QED
      BY <2>2 DEF t
  <1> QED
    BY <1>2, <1>3, <1>4 DEF g

(* What the share resolver makes of a path p that it has rewritten. *)
WholeDisk(p) == [ok |-> TRUE, set |-> TRUE, disk |-> ToInt(whole_idx(p[1])), comp |-> <<>>]
Named(p) == IF scan_whole(p) THEN WholeDisk(p) ELSE anyfs_path_parse(p)
Unnamed(s, nd, ap) ==
  \/ s # <<>> /\ s[1].t = "digit" /\ nd > 1
  \/ ~ ap.ok
  \/ nd > 1 /\ ~ ap.set
  \/ ap.disk >= nd
ResolvedTo(s, nd, ap) == IF Unnamed(s, nd, ap) THEN Bad ELSE [ok |-> TRUE, disk |-> ap.disk, comp |-> ap.comp]

\* anyfs_share_resolve, over the named parts of its conditions.
LEMMA ResolveIs ==
  ASSUME NEW s, NEW nd
  PROVE  anyfs_share_resolve(s, nd) = ResolvedTo(s, nd, Named(Prefixed(Rebased(s), nd)))
  BY DEF anyfs_share_resolve, ResolvedTo, Unnamed, Named, WholeDisk

(* The FUSE parser, case by case. *)
LEMMA SynthHas == Synth.t = "synth" /\ <<Synth>>[1] = Synth /\ <<Synth>> # <<>>
  BY SMTT(30) DEF Synth, Seg

\* A chain begins with p<digits>, not with a disk or a synthetic file.
LEMMA ChainBegins ==
  ASSUME NEW s, Chain(s)
  PROVE  s \in Segs /\ s # <<>> /\ s[1].t = "p" /\ s # <<Synth>> /\ parse_disk_prefix(s[1]) # 1
  <1>1. s \in Segs /\ s # <<>> /\ s[1].t = "p"
    BY HeadOf DEF Chain
  <1> QED
    BY <1>1, SynthHas, DiskPrefix

\* parse_fuse_path of a path that begins with disk<N>.
LEMMA FuseBelowDisk ==
  ASSUME NEW s, s # <<>>, parse_disk_prefix(s[1]) = 1, NEW nd
  PROVE  parse_fuse_path(s, nd) =
           IF OtherDisk(s[1].n, nd) THEN NoEnt
           ELSE IF Len(s) = 1 THEN FusePath("SYNTH_ROOT", disk_idx(s[1]), <<>>, <<>>)
           ELSE IF Tail(s) = <<Synth>> THEN FusePath("SYNTH_FILE", disk_idx(s[1]), <<>>, <<>>)
           ELSE ChainPath(Tail(s), disk_idx(s[1]))
  <1>1. s # <<Synth>>
    BY SynthHas, DiskPrefix
  <1> QED
    BY <1>1, SMTT(30) DEF parse_fuse_path

\* parse_fuse_path of a path without disk<N>.
LEMMA FuseBelowRoot ==
  ASSUME NEW s, s # <<>>, s # <<Synth>>, parse_disk_prefix(s[1]) # 1, NEW nd
  PROVE  parse_fuse_path(s, nd) = IF nd > 1 THEN NoEnt ELSE ChainPath(s, -1)
  BY SMTT(30) DEF parse_fuse_path

\* parse_fuse_path of the root and of the file in it.
LEMMA FuseSynthetic ==
  ASSUME NEW nd
  PROVE  /\ parse_fuse_path(<<>>, nd) = FusePath("SYNTH_ROOT", -1, <<>>, <<>>)
         /\ parse_fuse_path(<<Synth>>, nd) = FusePath("SYNTH_FILE", -1, <<>>, <<>>)
  <1>1. parse_fuse_path(<<>>, nd) = FusePath("SYNTH_ROOT", -1, <<>>, <<>>)
    <2>1. <<>> # <<Synth>>
      BY SynthHas
    <2> QED
      BY <2>1 DEF parse_fuse_path
  <1>2. parse_fuse_path(<<Synth>>, nd) = FusePath("SYNTH_FILE", -1, <<>>, <<>>)
    BY SynthHas DEF parse_fuse_path
  <1> QED
    BY <1>1, <1>2

(* The paths that lead to a partition node. *)
DiskNode(s, nd) == s # <<>> /\ parse_disk_prefix(s[1]) = 1 /\ ~ OtherDisk(s[1].n, nd) /\ Leads(Tail(s))
RootNode(s, nd) == nd <= 1 /\ Leads(s)

\* parse_fuse_path of a chain below disk<N>.
LEMMA DiskNodeIs ==
  ASSUME NEW s \in Segs, NEW nd \in 0 .. INT_MAX, DiskNode(s, nd)
  PROVE  /\ parse_fuse_path(s, nd) = FusePath("PART_NODE", disk_idx(s[1]), Comps(Tail(s)), <<>>)
         /\ disk_idx(s[1]) \in 0 .. nd - 1 /\ disk_idx(s[1]) \in Nat /\ ~ (disk_idx(s[1]) >= nd)
  <1>1. s # <<>> /\ parse_disk_prefix(s[1]) = 1 /\ ~ OtherDisk(s[1].n, nd) /\ Leads(Tail(s))
    BY DEF DiskNode
  <1>2. Tail(s) \in Segs /\ Tail(s) # <<>> /\ Tail(s) # <<Synth>>
    BY <1>1, ChainBegins DEF Leads
  <1>3. s[1] \in SegmentType
    BY <1>1, HeadOf
  <1>4. /\ disk_idx(s[1]) \in 0 .. nd - 1 /\ disk_idx(s[1]) \in Nat /\ ~ (disk_idx(s[1]) >= nd)
        /\ ~ (disk_idx(s[1]) < 0)
    BY <1>1, <1>3, OpenedDisk
  <1>5. Len(s) # 1
    BY <1>1, <1>2, LongerThanOne
  <1>6. parse_fuse_path(s, nd) = ChainPath(Tail(s), disk_idx(s[1]))
    BY <1>1, <1>2, <1>5, FuseBelowDisk
  <1>8. disk_idx(s[1]) \in Int
    BY <1>4, SMTT(30)
  <1>7. ChainPath(Tail(s), disk_idx(s[1])) = FusePath("PART_NODE", disk_idx(s[1]), Comps(Tail(s)), <<>>)
    BY <1>1, <1>2, <1>4, <1>8, ChainPathIs
  <1> QED
    BY <1>4, <1>6, <1>7

\* parse_fuse_path of a chain below the root of the only disk.
LEMMA RootNodeIs ==
  ASSUME NEW s \in Segs, NEW nd \in Nat, RootNode(s, nd)
  PROVE  parse_fuse_path(s, nd) = FusePath("PART_NODE", 0, Comps(s), <<>>)
  <1>1. ~ (nd > 1) /\ Leads(s) /\ Chain(s)
    <2>1. nd <= 1 => ~ (nd > 1)
      BY SMTT(30)
    <2> QED
      BY <2>1 DEF RootNode, Leads
  <1>2. parse_fuse_path(s, nd) = ChainPath(s, -1)
    BY <1>1, ChainBegins, FuseBelowRoot
  <1>3. -1 \in Int /\ -1 < 0
    BY SMTT(30)
  <1>4. ChainPath(s, -1) = FusePath("PART_NODE", 0, Comps(s), <<>>)
    BY <1>1, <1>3, ChainPathIs
  <1> QED
    BY <1>2, <1>4

\* A partition node is a chain, below disk<N> or below the root.
LEMMA NodePaths ==
  ASSUME NEW s \in Segs, NEW nd \in Nat, parse_fuse_path(s, nd).kind = "PART_NODE"
  PROVE  DiskNode(s, nd) \/ RootNode(s, nd)
  <1>1. \A d, c, t : /\ FusePath("SYNTH_ROOT", d, c, t).kind # "PART_NODE"
                     /\ FusePath("SYNTH_FILE", d, c, t).kind # "PART_NODE" /\ NoEnt.kind # "PART_NODE"
    BY SMTT(30) DEF FusePath, NoEnt
  <1>2. s # <<>> /\ s # <<Synth>>
    BY <1>1, FuseSynthetic
  <1>3. CASE parse_disk_prefix(s[1]) = 1
    <2>1. ~ OtherDisk(s[1].n, nd) /\ parse_fuse_path(s, nd) = ChainPath(Tail(s), disk_idx(s[1]))
      BY <1>1, <1>2, <1>3, FuseBelowDisk
    <2>2. Tail(s) \in Segs /\ s[1] \in SegmentType
      BY <1>2, HeadOf
    <2>3. disk_idx(s[1]) \in Int
      BY <2>2, Converted DEF SegmentType, disk_idx
    <2>4. Leads(Tail(s))
      BY <2>1, <2>2, <2>3, ChainPathIs
    <2> QED
      BY <1>2, <1>3, <2>1, <2>4 DEF DiskNode
  <1>4. CASE parse_disk_prefix(s[1]) # 1
    <2>1. ~ (nd > 1) /\ parse_fuse_path(s, nd) = ChainPath(s, -1)
      BY <1>1, <1>2, <1>4, FuseBelowRoot
    <2>2. -1 \in Int /\ nd <= 1
      BY <2>1, SMTT(30)
    <2>3. Leads(s)
      BY <2>1, <2>2, ChainPathIs
    <2> QED
      BY <2>2, <2>3 DEF RootNode
  <1> QED
    BY <1>3, <1>4

(* A partition directory of the FUSE mount is, as a --share spec, the same *)
(* opened disk and the same chain.                                         *)
LEMMA NodeResolves ==
  ASSUME NEW s \in Segs, NEW nd \in 1 .. INT_MAX, parse_fuse_path(s, nd).kind = "PART_NODE"
  PROVE  LET f == parse_fuse_path(s, nd)
             r == anyfs_share_resolve(s, nd)
         IN  r.ok /\ r.disk = f.disk /\ r.comp = f.chain /\ f.disk \in 0 .. nd - 1
  <1> DEFINE f == parse_fuse_path(s, nd)
             r == anyfs_share_resolve(s, nd)
             path == Prefixed(Rebased(s), nd)
             ap == Named(path)
  <1> SUFFICES r.ok /\ r.disk = f.disk /\ r.comp = f.chain /\ f.disk \in 0 .. nd - 1
    OBVIOUS
  <1>0. nd \in Nat \ {0} /\ nd \in Nat /\ nd \in 0 .. INT_MAX
    BY PathAssumption, SMTT(30)
  <1>1. r = ResolvedTo(s, nd, ap)
    BY ResolveIs
  <1>2. ~ Unnamed(s, nd, ap) => r.ok /\ r.disk = ap.disk /\ r.comp = ap.comp
    <2> HIDE DEF r, ap
    <2> QED
      BY <1>1, SMTT(30) DEF ResolvedTo
  <1>3. ASSUME NEW n \in 0 .. nd - 1, NEW t, ap = Parsed(TRUE, n, t), s[1].t # "digit",
               f = FusePath("PART_NODE", n, Comps(t), <<>>)
        PROVE  r.ok /\ r.disk = f.disk /\ r.comp = f.chain /\ f.disk \in 0 .. nd - 1
    <2> HIDE DEF f, r, ap
    <2>1. f.disk = n /\ f.chain = Comps(t)
      BY <1>3, SMTT(30) DEF FusePath
    <2>2. ap.ok /\ ap.set /\ ap.disk = n /\ ap.comp = Comps(t)
      BY <1>3, SMTT(30) DEF Parsed
    <2>3. ~ (n >= nd)
      BY <1>0, <1>3, SMTT(30)
    <2>4. ~ Unnamed(s, nd, ap)
      BY <1>3, <2>2, <2>3 DEF Unnamed
    <2> QED
      BY <1>2, <1>3, <2>1, <2>2, <2>4
  <1>4. CASE DiskNode(s, nd)
    <2>1. s # <<>> /\ parse_disk_prefix(s[1]) = 1 /\ Chain(Tail(s)) /\ Parses(Tail(s))
      BY <1>4 DEF DiskNode, Leads
    <2>2. s[1].t = "disk" /\ DiskText(s[1])
      BY <2>1, DiskPrefix DEF DiskText
    <2>3. path = s
      BY <2>1, <2>2, Rewritten
    <2>4. Tail(s) \in Segs /\ Tail(s) # <<>>
      BY <2>1, ChainBegins
    <2>5. Len(s) # 1
      BY <2>1, <2>4, LongerThanOne
    <2>6. ap = Parsed(TRUE, disk_idx(s[1]), Tail(s))
      BY <2>1, <2>3, <2>5, ParseDisk DEF Named, scan_whole
    <2>7. f = FusePath("PART_NODE", disk_idx(s[1]), Comps(Tail(s)), <<>>) /\ disk_idx(s[1]) \in 0 .. nd - 1
      BY <1>0, <1>4, DiskNodeIs
    <2> HIDE DEF f, r, ap
    <2> QED
      BY <1>3, <2>2, <2>6, <2>7
  <1>5. CASE RootNode(s, nd)
    <2> DEFINE t == <<DiskSeg(0)>> \o s
    <2>1. nd = 1 /\ Chain(s) /\ Parses(s)
      <3>1. nd <= 1 => nd = 1
        BY <1>0, SMTT(30)
      <3> QED
        BY <1>5, <3>1 DEF RootNode, Leads
    <2>2. s # <<>> /\ s[1].t = "p"
      BY <2>1, ChainBegins
    <2>3. path = t
      <3>1. Rebased(s) = s
        BY <2>2, Rewritten
      <3> QED
        BY <2>1, <2>2, <3>1 DEF Prefixed, DiskText
    <2>4. /\ t \in Segs /\ t # <<>> /\ t[1] = DiskSeg(0) /\ Tail(t) = s /\ Len(t) = Len(s) + 1
          /\ DiskSeg(0).t = "disk" /\ disk_idx(DiskSeg(0)) = 0 /\ DiskSeg(0).q = "none"
      BY WithDisk
    <2> HIDE DEF t
    <2>5. parse_disk_prefix(t[1]) = 1
      BY <2>4, DiskPrefix
    <2>6. Len(t) # 1
      BY <2>2, <2>4, LongerThanOne
    <2>7. ap = Parsed(TRUE, 0, s)
      <3>1. anyfs_path_parse(t) = Parsed(TRUE, disk_idx(t[1]), Tail(t))
        BY <2>1, <2>4, <2>5, ParseDisk
      <3> QED
        BY <2>3, <2>4, <2>6, <3>1 DEF Named, scan_whole
    <2>8. f = FusePath("PART_NODE", 0, Comps(s), <<>>)
      BY <1>0, <1>5, RootNodeIs
    <2>9. 0 \in 0 .. nd - 1
      BY <2>1, SMTT(30)
    <2> HIDE DEF f, r, ap
    <2> QED
      BY <1>3, <2>2, <2>7, <2>8, <2>9
  <1> QED
    BY <1>0, <1>4, <1>5, NodePaths

(* What resolves is below the number of disks; when its numbers fit an int *)
(* it is a disk that was opened and partitions numbered from 1.            *)
LEMMA ResolvedReal ==
  ASSUME NEW s \in Segs, NEW nd \in Nat \ {0}, anyfs_share_resolve(s, nd).ok
  PROVE  LET r == anyfs_share_resolve(s, nd)
         IN  /\ r.disk < nd
             /\ Fits(s) => r.disk \in 0 .. nd - 1 /\ \A k \in DOMAIN r.comp : r.comp[k].p > 0
  <1> DEFINE r == anyfs_share_resolve(s, nd)
             path == Prefixed(Rebased(s), nd)
             ap == Named(path)
  <1>1. r = ResolvedTo(s, nd, ap)
    BY ResolveIs
  <1>2. path \in Segs /\ (Fits(s) => Fits(path))
    BY Rewritten
  <1> HIDE DEF path
  <1>3. ~ Unnamed(s, nd, ap) /\ r.disk = ap.disk /\ r.comp = ap.comp
    <2>1. r.ok
      OBVIOUS
    <2> HIDE DEF r, ap
    <2>2. ~ Unnamed(s, nd, ap)
      BY <1>1, <2>1, SMTT(30) DEF ResolvedTo, Bad
    <2> QED
      BY <1>1, <2>2, SMTT(30) DEF ResolvedTo
  <1>4. ap.ok /\ ~ (ap.disk >= nd)
    BY <1>3 DEF Unnamed
  <1>5. /\ ap.disk \in Int
        /\ Fits(path) => ap.disk \in Nat /\ \A k \in DOMAIN ap.comp : ap.comp[k].p > 0
    <2>1. CASE scan_whole(path)
      <3>1. ap = WholeDisk(path)
        BY <2>1 DEF Named
      <3>2. path # <<>>
        BY <2>1 DEF scan_whole
      <3>3. path[1] \in SegmentType /\ 1 \in DOMAIN path
        BY <1>2, <3>2, HeadOf, SegsHave
      <3> HIDE DEF ap
      <3>4. ap.disk = ToInt(whole_idx(path[1])) /\ ap.comp = <<>> /\ DOMAIN ap.comp = {}
        BY <3>1, SMTT(30) DEF WholeDisk
      <3>5. ToInt(whole_idx(path[1])) \in Int
        <4>1. path[1].n \in Nat /\ (path[1].t = "diskminus") \in BOOLEAN
          BY <3>3 DEF SegmentType
        <4>2. whole_idx(path[1]) \in Nat
          BY <4>1, Converted DEF whole_idx
        <4> QED
          BY <4>2, Converted
      <3>6. Fits(path) => Small(path[1])
        BY <3>3 DEF Fits, Small
      <3> QED
        BY <3>3, <3>4, <3>5, <3>6, SmallSegment
    <2>2. CASE ~ scan_whole(path)
      <3>1. ap = anyfs_path_parse(path)
        BY <2>2 DEF Named
      <3> QED
        BY <1>2, <1>4, <3>1, ParseNames
    <2> QED
      BY <2>1, <2>2
  <1> HIDE DEF r, ap
  <1>6. ap.disk < nd /\ (ap.disk \in Nat => ap.disk \in 0 .. nd - 1)
    <2> DEFINE n == ap.disk
    <2>1. n \in Int /\ ~ (n >= nd)
      BY <1>4, <1>5
    <2> HIDE DEF n
    <2>2. n < nd /\ (n \in Nat => n \in 0 .. nd - 1)
      BY <2>1, SMTT(30)
    <2> QED
      BY <2>2 DEF n
  <1>7. /\ r.disk < nd
        /\ Fits(s) => r.disk \in 0 .. nd - 1 /\ \A k \in DOMAIN r.comp : r.comp[k].p > 0
    BY <1>2, <1>3, <1>5, <1>6
  <1> QED
    BY <1>7 DEF r

(* A spec without disk<N> names what it names with disk0 in front. *)
LEMMA DiskZero ==
  ASSUME NEW s \in Segs, s # <<>>, ~ DiskText(s[1]), s[1].t # "digit"
  PROVE  anyfs_share_resolve(<<DiskSeg(0)>> \o s, 1) = anyfs_share_resolve(s, 1)
  <1> DEFINE t == <<DiskSeg(0)>> \o s
  <1>1. Rebased(s) = s
    BY Rewritten
  <1>2. t \in Segs /\ t # <<>> /\ t[1] = DiskSeg(0) /\ DiskSeg(0).t = "disk"
    BY WithDisk
  <1>3. ~ (1 > 1)
    BY SMTT(30)
  <1>4. Prefixed(s, 1) = t
    BY DEF Prefixed
  <1>5. Rebased(t) = t /\ Prefixed(t, 1) = t
    BY <1>2, Rewritten DEF DiskText
  <1> HIDE DEF t
  <1>6. /\ anyfs_share_resolve(s, 1) = ResolvedTo(s, 1, Named(t))
        /\ anyfs_share_resolve(t, 1) = ResolvedTo(t, 1, Named(t))
    BY <1>1, <1>4, <1>5, ResolveIs
  <1>7. \A a : ResolvedTo(s, 1, a) = ResolvedTo(t, 1, a)
    BY <1>3 DEF ResolvedTo, Unnamed
  <1> QED
    BY <1>6, <1>7 DEF t

(* The share resolver of anyfs_share.c and the FUSE path parser of          *)
(* fuse_main.c read one language, for every path, any widths of int and     *)
(* long and any number of disks an int counts: a partition directory of the *)
(* FUSE mount is, as a --share spec, the same opened disk and the same      *)
(* chain of partitions, whatever the casts make of its numbers; a spec      *)
(* without disk<N> names what it names with disk0 in front; and what        *)
(* resolves is a disk below the number of disks and, when its numbers fit   *)
(* an int, one that was opened and partitions numbered from 1.              *)
THEOREM PathReadersAgree == \A s \in Seq(SegmentType), nd \in 1 .. INT_MAX : ReadersAgree(s, nd)
  <1> SUFFICES ASSUME NEW s \in Segs, NEW nd \in 1 .. INT_MAX PROVE ReadersAgree(s, nd)
    BY DEF Segs
  <1> DEFINE f == parse_fuse_path(s, nd)
             r == anyfs_share_resolve(s, nd)
  <1>0. nd \in Nat \ {0}
    BY PathAssumption, SMTT(30)
  <1>1. f.kind = "PART_NODE" => r.ok /\ r.disk = f.disk /\ r.comp = f.chain /\ f.disk \in 0 .. nd - 1
    BY NodeResolves
  <1>2. r.ok => /\ r.disk < nd
                /\ Fits(s) => r.disk \in 0 .. nd - 1 /\ \A k \in DOMAIN r.comp : r.comp[k].p > 0
    BY <1>0, ResolvedReal
  <1>3. r.ok /\ nd = 1 /\ s # <<>> /\ ~ DiskText(s[1]) /\ s[1].t # "digit" =>
          anyfs_share_resolve(<<DiskSeg(0)>> \o s, nd) = r
    BY DiskZero
  <1> QED
    BY <1>1, <1>2, <1>3 DEF ReadersAgree

----------------------------------------------------------------------------
(* The listings of the FUSE program. *)

\* The numbers of a chain are those its segments are read as.
LEMMA Numbers ==
  ASSUME NEW s \in Segs
  PROVE  /\ Len(Comps(s)) = Len(s) /\ Parts(Comps(s)) = [k \in 1 .. Len(s) |-> Comp(s[k]).p]
  <1>1. DOMAIN s = 1 .. Len(s) /\ Len(s) \in Nat
    BY SegsHave
  <1>3. Len(Comps(s)) = Len(s)
    <2> DEFINE e == [k \in 1 .. Len(s) |-> Comp(s[k])]
    <2>1. Comps(s) = e
      BY <1>1 DEF Comps
    <2>2. Len(e) = Len(s)
      BY <1>1, SMTT(30)
    <2> QED
      BY <2>1, <2>2
  <1> QED
    BY <1>1, <1>3 DEF Comps, Parts

(* A segment that is read as partition n. *)
ReadAs(g, n) == g.t = "p" /\ parse_component(g) /\ g.q # "long" /\ Comp(g).p = n

\* The name readdir gives partition n is read as partition n.
LEMMA PartSegment ==
  ASSUME NEW n \in 1 .. INT_MAX
  PROVE  PSeg(n) \in SegmentType /\ ReadAs(PSeg(n), n)
  <1>1. PSeg(n).t = "p" /\ PSeg(n).n = n /\ PSeg(n).q = "none"
    BY SMTT(30) DEF PSeg, Seg
  <1>2. n \in Nat /\ n <= INT_MAX /\ n # 0
    BY PathAssumption, SMTT(30)
  <1>3. PSeg(n) \in SegmentType
    BY <1>2 DEF PSeg, Seg, SegmentType
  <1>4. comp_num(PSeg(n)) = n /\ Comp(PSeg(n)).p = n
    BY <1>1, <1>2, <1>3, SmallSegment DEF Small
  <1> QED
    BY <1>1, <1>2, <1>3, <1>4 DEF parse_component, ReadAs

\* The last number of a chain.
LEMMA LastOf ==
  ASSUME NEW S, NEW c \in Seq(S), Len(c) >= 1
  PROVE  c[Len(c)] \in S
  BY SMTT(30)

(* The path of a partition c below the chain s. *)
LEMMA ChildChain ==
  ASSUME NEW s \in Segs, NEW c \in Seq(1 .. INT_MAX), Len(c) = Len(s) + 1, Len(c) <= MAX_COMPONENTS,
         \A k \in 1 .. Len(s) : ReadAs(s[k], c[k])
  PROVE  LET u == Append(s, PSeg(c[Len(c)]))
         IN  Leads(u) /\ Parts(Comps(u)) = c
  <1> DEFINE g == PSeg(c[Len(c)])
             u == Append(s, g)
             L == Len(s)
  <1>1. L \in Nat /\ Len(c) = L + 1 /\ c[L + 1] \in 1 .. INT_MAX
    <2>1. L \in Nat /\ Len(c) = L + 1
      BY SegsHave
    <2>2. Len(c) >= 1
      BY <2>1, SMTT(30)
    <2> QED
      BY <2>1, <2>2, LastOf
  <1>2. g \in SegmentType /\ ReadAs(g, c[L + 1])
    BY <1>1, PartSegment
  <1> HIDE DEF g
  <1>3. u \in Segs /\ u # <<>> /\ Len(u) = L + 1 /\ (\A k \in 1 .. L : u[k] = s[k]) /\ u[L + 1] = g
    BY <1>2, SMTT(30) DEF Segs
  <1>4. \A k \in 1 .. L + 1 : k \in 1 .. L \/ k = L + 1
    BY <1>1, SMTT(30)
  <1>5. \A k \in 1 .. L + 1 : ReadAs(u[k], c[k])
    BY <1>2, <1>3, <1>4
  <1> HIDE DEF u
  <1>6. Leads(u)
    BY <1>1, <1>3, <1>5 DEF Leads, Chain, Parses, Short, ReadAs
  <1>7. Parts(Comps(u)) = [k \in 1 .. L + 1 |-> Comp(u[k]).p]
    BY <1>3, Numbers
  <1>8. c = [k \in 1 .. L + 1 |-> c[k]]
    BY <1>1, SMTT(30)
  <1>9. Parts(Comps(u)) = c
    BY <1>5, <1>7, <1>8 DEF ReadAs
  <1> QED
    BY <1>6, <1>9 DEF u, g

(* A path that can be looked up, but for a partition that cannot be entered. *)
Found(s) ==
  LET fp == parse_fuse_path(s, nimg)
  IN  /\ fp.kind # "NOENT"
      /\ getattr(fp) # "ok" => fp.kind = "PART_NODE" /\ Parts(fp.chain) \in DOMAIN Layout[fp.disk]

\* The synthetic directories and files can be looked up.
LEMMA FoundSynthetic ==
  ASSUME NEW s, NEW k \in {"SYNTH_ROOT", "SYNTH_FILE"}, NEW d, parse_fuse_path(s, nimg) = FusePath(k, d, <<>>, <<>>)
  PROVE  Found(s)
  <1> DEFINE fp == parse_fuse_path(s, nimg)
  <1> HIDE DEF fp
  <1>1. fp.kind = k
    BY SMTT(30) DEF FusePath, fp
  <1>2. getattr(fp) = "ok"
    BY <1>1 DEF getattr
  <1> QED
    BY <1>1, <1>2 DEF Found, fp

\* A partition of the layout can be looked up or cannot be entered.
LEMMA FoundNode ==
  ASSUME NEW s, NEW d, NEW c, parse_fuse_path(s, nimg) = FusePath("PART_NODE", d, c, <<>>),
         Parts(c) \in DOMAIN Layout[d]
  PROVE  Found(s)
  <1> DEFINE fp == parse_fuse_path(s, nimg)
  <1>1. fp.kind = "PART_NODE" /\ fp.disk = d /\ fp.chain = c
    BY SMTT(30) DEF FusePath
  <1> HIDE DEF fp
  <1> QED
    BY <1>1 DEF Found, fp

(* A listing of the chain s of image d shows partitions of the layout. *)
LEMMA LayoutHas ==
  ASSUME nimg \in 1 .. MaxImages, NEW d \in Images(nimg), NEW c \in DOMAIN Layout[d]
  PROVE  c \in Seq(1 .. INT_MAX) /\ Len(c) >= 1 /\ Len(c) <= MAX_COMPONENTS
  <1>1. d \in Images(MaxImages)
    BY LayoutAssumption, PathAssumption, SMTT(30) DEF Images
  <1>2. Len(c) \in 1 .. MAX_COMPONENTS
    BY <1>1, LayoutAssumption
  <1>3. Len(c) >= 1 /\ Len(c) <= MAX_COMPONENTS
    BY <1>2, PathAssumption, SMTT(30)
  <1> QED
    BY <1>1, <1>3, LayoutAssumption

\* A name below the root is a path of one segment.
LEMMA AppendOne ==
  ASSUME NEW g
  PROVE  Append(<<>>, g) = <<g>> /\ <<g>>[1] = g /\ Len(<<g>>) = 1 /\ <<g>> # <<>>
  BY SMTT(30)

\* A name below a longer path leaves its first segment alone.
LEMMA AppendTo ==
  ASSUME NEW s \in Segs, s # <<>>, NEW g \in SegmentType
  PROVE  /\ Append(s, g) \in Segs /\ Append(s, g) # <<>> /\ Append(s, g)[1] = s[1]
         /\ Tail(Append(s, g)) = Append(Tail(s), g)
  <1>1. Append(s, g) \in Segs /\ Append(s, g) # <<>>
    BY AppendProperties DEF Segs
  <1>2. Append(s, g)[1] = s[1]
    BY SMTT(30) DEF Segs
  <1>3. Tail(Append(s, g)) = Append(Tail(s), g)
    BY HeadTailAppend DEF Segs
  <1> QED
    BY <1>1, <1>2, <1>3

\* There are no more images than an int counts.
LEMMA ImageCount ==
  ASSUME nimg \in 1 .. MaxImages
  PROVE  nimg \in Nat /\ nimg \in 0 .. INT_MAX /\ Images(nimg) = 0 .. nimg - 1
  BY LayoutAssumption, PathAssumption, SMTT(30) DEF Images

(* A child below disk<N>, and one below the root of the only disk. *)
LEMMA ChildOfDisk ==
  ASSUME NEW s \in Segs, s # <<>>, parse_disk_prefix(s[1]) = 1, nimg \in 1 .. MaxImages, ~ OtherDisk(s[1].n, nimg),
         NEW c \in DOMAIN Layout[disk_idx(s[1])], Len(c) = Len(Tail(s)) + 1,
         \A k \in 1 .. Len(Tail(s)) : ReadAs(Tail(s)[k], c[k])
  PROVE  Found(Append(s, PSeg(c[Len(c)])))
  <1> DEFINE g == PSeg(c[Len(c)])
             w == Append(s, g)
             n == disk_idx(s[1])
             t == Tail(s)
  <1>1. t \in Segs /\ s[1] \in SegmentType
    BY HeadOf
  <1>2. n \in Images(nimg) /\ nimg \in 0 .. INT_MAX
    BY <1>1, ImageCount, OpenedDisk
  <1>3. c \in Seq(1 .. INT_MAX) /\ Len(c) >= 1 /\ Len(c) <= MAX_COMPONENTS
    BY <1>2, LayoutHas
  <1>4. g \in SegmentType
    <2>1. c[Len(c)] \in 1 .. INT_MAX
      BY <1>3, LastOf
    <2> QED
      BY <2>1, PartSegment
  <1>5. Leads(Append(t, g)) /\ Parts(Comps(Append(t, g))) = c
    BY <1>1, <1>3, ChildChain
  <1> HIDE DEF g, t
  <1>6. w \in Segs /\ w # <<>> /\ w[1] = s[1] /\ Tail(w) = Append(t, g)
    BY <1>4, AppendTo DEF t, w
  <1> HIDE DEF w
  <1>7. DiskNode(w, nimg)
    BY <1>5, <1>6 DEF DiskNode
  <1>8. parse_fuse_path(w, nimg) = FusePath("PART_NODE", n, Comps(Tail(w)), <<>>)
    BY <1>2, <1>6, <1>7, DiskNodeIs
  <1>9. Parts(Comps(Tail(w))) \in DOMAIN Layout[n]
    BY <1>5, <1>6
  <1>10. Found(w)
    BY <1>8, <1>9, FoundNode
  <1> QED
    BY <1>10 DEF w, g

\* A partition below the root of the only disk.
LEMMA ChildOfRoot ==
  ASSUME NEW s \in Segs, nimg = 1, nimg \in 1 .. MaxImages,
         NEW c \in DOMAIN Layout[0], Len(c) = Len(s) + 1,
         \A k \in 1 .. Len(s) : ReadAs(s[k], c[k])
  PROVE  Found(Append(s, PSeg(c[Len(c)])))
  <1> DEFINE w == Append(s, PSeg(c[Len(c)]))
  <1>1. 0 \in Images(nimg) /\ nimg \in Nat /\ nimg <= 1
    BY SMTT(30) DEF Images
  <1>2. c \in Seq(1 .. INT_MAX) /\ Len(c) <= MAX_COMPONENTS
    BY <1>1, LayoutHas
  <1>3. Leads(w) /\ Parts(Comps(w)) = c
    BY <1>2, ChildChain
  <1> HIDE DEF w
  <1>4. w \in Segs /\ RootNode(w, nimg)
    BY <1>1, <1>3 DEF RootNode, Leads, Chain
  <1>5. parse_fuse_path(w, nimg) = FusePath("PART_NODE", 0, Comps(w), <<>>)
    BY <1>1, <1>4, RootNodeIs
  <1>6. Found(w)
    BY <1>3, <1>5, FoundNode
  <1> QED
    BY <1>6 DEF w

(* .partitions and partitions.txt, in the root and below disk<N>. *)
LEMMA SynthFound ==
  ASSUME NEW s \in Segs, s = <<>> \/ (parse_disk_prefix(s[1]) = 1 /\ ~ OtherDisk(s[1].n, nimg) /\ Tail(s) = <<>>)
  PROVE  Found(Append(s, Synth))
  <1>1. Synth \in SegmentType
    <2>1. 0 \in Nat
      BY SMTT(30)
    <2> QED
      BY <2>1 DEF Synth, Seg, SegmentType
  <1>2. CASE s = <<>>
    <2>1. Append(s, Synth) = <<Synth>>
      BY <1>2, AppendOne
    <2> QED
      BY <2>1, FuseSynthetic, FoundSynthetic
  <1>3. CASE s # <<>>
    <2> DEFINE w == Append(s, Synth)
    <2>1. w \in Segs /\ w # <<>> /\ w[1] = s[1] /\ Tail(w) = Append(<<>>, Synth)
      BY <1>1, <1>3, AppendTo
    <2>2. Append(<<>>, Synth) = <<Synth>> /\ <<Synth>> # <<>>
      BY AppendOne
    <2> HIDE DEF w
    <2>3. Len(w) # 1
      BY <2>1, <2>2, LongerThanOne
    <2>4. parse_fuse_path(w, nimg) = FusePath("SYNTH_FILE", disk_idx(s[1]), <<>>, <<>>)
      BY <1>3, <2>1, <2>2, <2>3, FuseBelowDisk
    <2>5. Found(w)
      BY <2>4, FoundSynthetic
    <2> QED
      BY <2>5 DEF w
  <1> QED
    BY <1>2, <1>3

(* disk<N>, in the root. *)
LEMMA DiskFound ==
  ASSUME nimg \in 1 .. MaxImages, NEW d \in Images(nimg)
  PROVE  Found(Append(<<>>, DiskSeg(d)))
  <1> DEFINE g == DiskSeg(d)
  <1>1. d \in 0 .. INT_MAX /\ ~ (d >= nimg)
    BY ImageCount, PathAssumption, SMTT(30)
  <1>2. g.t = "disk" /\ g.n = d /\ g.q = "none"
    BY SMTT(30) DEF DiskSeg, Seg
  <1> HIDE DEF g
  <1>3. Append(<<>>, g) = <<g>> /\ <<g>>[1] = g /\ Len(<<g>>) = 1 /\ <<g>> # <<>>
    BY AppendOne
  <1>4. parse_disk_prefix(<<g>>[1]) = 1
    BY <1>2, <1>3, DiskPrefix
  <1>7. ~ OtherDisk(g.n, nimg)
    BY <1>1, <1>2, SmallNumber DEF OtherDisk
  <1>5. parse_fuse_path(<<g>>, nimg) = FusePath("SYNTH_ROOT", disk_idx(g), <<>>, <<>>)
    BY <1>3, <1>4, <1>7, FuseBelowDisk
  <1>6. Found(<<g>>)
    BY <1>5, FoundSynthetic
  <1> QED
    BY <1>3, <1>6 DEF g

(* The names of a synthetic directory. *)
LEMMA RootNames ==
  /\ nimg = 1 => SynthNames(FusePath("SYNTH_ROOT", -1, <<>>, <<>>)) = {PSeg(c[1]) : c \in Tops(0)} \cup {Synth}
  /\ nimg # 1 => SynthNames(FusePath("SYNTH_ROOT", -1, <<>>, <<>>)) = {DiskSeg(d) : d \in Images(nimg)} \cup {Synth}
  BY SMTT(30) DEF SynthNames, FusePath

\* readdir of a disk shows its top-level partitions.
LEMMA DiskNames ==
  ASSUME NEW d \in Nat
  PROVE  SynthNames(FusePath("SYNTH_ROOT", d, <<>>, <<>>)) = {PSeg(c[1]) : c \in Tops(d)} \cup {Synth}
  BY SMTT(30) DEF SynthNames, FusePath

\* readdir of a container shows the partitions that continue its chain.
LEMMA NodeNames ==
  ASSUME NEW d, NEW c, NEW n \in SynthNames(FusePath("PART_NODE", d, c, <<>>))
  PROVE  \E e \in DOMAIN Layout[d] :
           n = PSeg(e[Len(e)]) /\ Len(e) = Len(c) + 1 /\ SubSeq(e, 1, Len(c)) = Parts(c)
  <1>1. n \in {PSeg(e[Len(e)]) : e \in {k \in DOMAIN Layout[d] :
                 Len(k) = Len(c) + 1 /\ SubSeq(k, 1, Len(c)) = Parts(c)}}
    BY SMTT(30) DEF SynthNames, FusePath
  <1> QED
    BY <1>1

(* What the synthetic directories are called. *)
DiskDir(s, nd) == s # <<>> /\ parse_disk_prefix(s[1]) = 1 /\ ~ OtherDisk(s[1].n, nd) /\ Tail(s) = <<>>

\* The synthetic directories are the root and the disks that were opened.
LEMMA RootPaths ==
  ASSUME NEW s \in Segs, NEW nd \in Nat, parse_fuse_path(s, nd).kind = "SYNTH_ROOT"
  PROVE  s = <<>> \/ (DiskDir(s, nd) /\ parse_fuse_path(s, nd) = FusePath("SYNTH_ROOT", disk_idx(s[1]), <<>>, <<>>))
  <1>1. NoEnt.kind # "SYNTH_ROOT" /\ \A d : FusePath("SYNTH_FILE", d, <<>>, <<>>).kind # "SYNTH_ROOT"
    BY SMTT(30) DEF NoEnt, FusePath
  <1>2. \A t, d : ChainPath(t, d).kind # "SYNTH_ROOT"
    BY SMTT(30) DEF ChainPath, NoEnt, FusePath
  <1>3. CASE s # <<>> /\ parse_disk_prefix(s[1]) = 1
    <2>1. /\ ~ OtherDisk(s[1].n, nd) /\ Len(s) = 1
          /\ parse_fuse_path(s, nd) = FusePath("SYNTH_ROOT", disk_idx(s[1]), <<>>, <<>>)
      BY <1>1, <1>2, <1>3, FuseBelowDisk
    <2>2. Tail(s) = <<>>
      BY <1>3, <2>1, LongerThanOne
    <2> QED
      BY <1>3, <2>1, <2>2 DEF DiskDir
  <1>4. CASE s # <<>> /\ parse_disk_prefix(s[1]) # 1
    <2>1. s # <<Synth>>
      BY <1>1, FuseSynthetic
    <2> QED
      BY <1>1, <1>2, <1>4, <2>1, FuseBelowRoot
  <1> QED
    BY <1>3, <1>4

(* A top-level partition is a child of an empty chain. *)
LEMMA TopChild ==
  ASSUME NEW d, NEW c \in Tops(d)
  PROVE  /\ c \in DOMAIN Layout[d] /\ Len(c) = Len(<<>>) + 1 /\ c[Len(c)] = c[1]
         /\ \A k \in 1 .. Len(<<>>) : FALSE
  <1>1. c \in DOMAIN Layout[d] /\ Len(c) = 1
    BY DEF Tops
  <1>2. Len(<<>>) + 1 = 1 /\ \A k \in 1 .. Len(<<>>) : FALSE
    BY SMTT(30)
  <1> QED
    BY <1>1, <1>2

\* What readdir shows in the root can be found.
LEMMA RootListing ==
  ASSUME nimg \in 1 .. MaxImages, NEW n \in SynthNames(parse_fuse_path(<<>>, nimg))
  PROVE  Found(Append(<<>>, n))
  <1>1. <<>> \in Segs
    BY SMTT(30) DEF Segs
  <1>2. n \in SynthNames(FusePath("SYNTH_ROOT", -1, <<>>, <<>>))
    BY FuseSynthetic
  <1>3. CASE n = Synth
    BY <1>1, <1>3, SynthFound
  <1>4. CASE nimg = 1 /\ n # Synth
    <2>1. PICK c \in Tops(0) : n = PSeg(c[1])
      BY <1>2, <1>4, RootNames
    <2> QED
      BY <1>1, <1>4, <2>1, TopChild, ChildOfRoot
  <1>5. CASE nimg # 1 /\ n # Synth
    <2>1. PICK d \in Images(nimg) : n = DiskSeg(d)
      BY <1>2, <1>5, RootNames
    <2> QED
      BY <2>1, DiskFound
  <1> QED
    BY <1>3, <1>4, <1>5

\* What readdir shows in a disk can be found.
LEMMA DiskListing ==
  ASSUME NEW s \in Segs, nimg \in 1 .. MaxImages, DiskDir(s, nimg),
         NEW n \in SynthNames(FusePath("SYNTH_ROOT", disk_idx(s[1]), <<>>, <<>>))
  PROVE  Found(Append(s, n))
  <1>1. s # <<>> /\ parse_disk_prefix(s[1]) = 1 /\ ~ OtherDisk(s[1].n, nimg) /\ Tail(s) = <<>>
    BY DEF DiskDir
  <1>2. disk_idx(s[1]) \in Nat
    BY <1>1, HeadOf, ImageCount, OpenedDisk
  <1>3. CASE n = Synth
    BY <1>1, <1>3, SynthFound
  <1>4. CASE n # Synth
    <2>1. PICK c \in Tops(disk_idx(s[1])) : n = PSeg(c[1])
      BY <1>2, <1>4, DiskNames
    <2> QED
      BY <1>1, <2>1, TopChild, ChildOfDisk
  <1> QED
    BY <1>3, <1>4

(* A chain of numbers that continues the chain s. *)
LEMMA Continues ==
  ASSUME NEW s \in Segs, Leads(s), NEW c \in Seq(1 .. INT_MAX), Len(c) = Len(Comps(s)) + 1,
         SubSeq(c, 1, Len(Comps(s))) = Parts(Comps(s))
  PROVE  Len(c) = Len(s) + 1 /\ \A k \in 1 .. Len(s) : ReadAs(s[k], c[k])
  <1> DEFINE L == Len(s)
             sub == SubSeq(c, 1, L)
  <1>1. L \in Nat /\ Len(c) = L + 1 /\ sub = [k \in 1 .. L |-> Comp(s[k]).p]
    BY SegsHave, Numbers
  <1>2. \A k \in 1 .. L : sub[k] = c[k]
    <2> HIDE DEF L
    <2> QED
      BY <1>1, SMTT(30)
  <1> HIDE DEF sub
  <1>3. \A k \in 1 .. L : ReadAs(s[k], c[k])
    BY <1>1, <1>2 DEF Leads, Chain, Parses, Short, ReadAs
  <1> QED
    BY <1>1, <1>3

\* What readdir shows in a container can be found.
LEMMA NodeListing ==
  ASSUME NEW s \in Segs, nimg \in 1 .. MaxImages, parse_fuse_path(s, nimg).kind = "PART_NODE",
         NEW n \in SynthNames(parse_fuse_path(s, nimg))
  PROVE  Found(Append(s, n))
  <1>1. nimg \in Nat /\ nimg \in 0 .. INT_MAX /\ Images(nimg) = 0 .. nimg - 1
    BY ImageCount
  <1>2. CASE DiskNode(s, nimg)
    <2> DEFINE t == Tail(s)
               d == disk_idx(s[1])
    <2>1. s # <<>> /\ parse_disk_prefix(s[1]) = 1 /\ ~ OtherDisk(s[1].n, nimg) /\ Leads(t) /\ t \in Segs
      BY <1>2 DEF DiskNode, Leads, Chain
    <2>2. /\ parse_fuse_path(s, nimg) = FusePath("PART_NODE", d, Comps(t), <<>>)
          /\ d \in Images(nimg)
      BY <1>1, <1>2, DiskNodeIs
    <2>4. PICK c \in DOMAIN Layout[d] :
            n = PSeg(c[Len(c)]) /\ Len(c) = Len(Comps(t)) + 1 /\ SubSeq(c, 1, Len(Comps(t))) = Parts(Comps(t))
      <3>1. n \in SynthNames(FusePath("PART_NODE", d, Comps(t), <<>>))
        BY <2>2
      <3> HIDE DEF d, t
      <3> QED
        BY <3>1, NodeNames
    <2>5. c \in Seq(1 .. INT_MAX)
      BY <2>2, LayoutHas
    <2>6. Len(c) = Len(t) + 1 /\ \A k \in 1 .. Len(t) : ReadAs(t[k], c[k])
      BY <2>1, <2>4, <2>5, Continues
    <2> QED
      BY <2>1, <2>4, <2>6, ChildOfDisk
  <1>3. CASE RootNode(s, nimg)
    <2>1. nimg = 1 /\ 0 \in Images(nimg)
      <3>1. nimg <= 1 => nimg = 1
        BY <1>1, SMTT(30)
      <3>2. nimg = 1
        BY <1>3, <3>1 DEF RootNode
      <3> QED
        BY <1>1, <3>2, SMTT(30)
    <2>2. Leads(s)
      BY <1>3 DEF RootNode
    <2>4. PICK c \in DOMAIN Layout[0] :
            n = PSeg(c[Len(c)]) /\ Len(c) = Len(Comps(s)) + 1 /\ SubSeq(c, 1, Len(Comps(s))) = Parts(Comps(s))
      <3>1. n \in SynthNames(FusePath("PART_NODE", 0, Comps(s), <<>>))
        BY <1>1, <1>3, RootNodeIs
      <3> QED
        BY <3>1, NodeNames
    <2>5. c \in Seq(1 .. INT_MAX)
      BY <2>1, LayoutHas
    <2>6. Len(c) = Len(s) + 1 /\ \A k \in 1 .. Len(s) : ReadAs(s[k], c[k])
      BY <2>2, <2>4, <2>5, Continues
    <2> QED
      BY <2>1, <2>4, <2>6, ChildOfRoot
  <1> QED
    BY <1>1, <1>2, <1>3, NodePaths

(* A handle that readdir answers from the layout is on a directory of it.  *)
DirPath(s, nd) == s \in Segs /\ parse_fuse_path(s, nd).kind \in {"SYNTH_ROOT", "PART_NODE"}
DirHandle(x) == h[x].dir /\ h[x].fh = 0 => DirPath(h[x].path, nimg)

ListInv ==
  /\ nimg \in 1 .. MaxImages
  /\ \A x \in Handles : DirHandle(x)
  /\ \A s \in listed : Found(s)

(* What a synthetic directory shows can be found. *)
LEMMA Listing ==
  ASSUME NEW s, nimg \in 1 .. MaxImages, DirPath(s, nimg), NEW n \in SynthNames(parse_fuse_path(s, nimg))
  PROVE  Found(Append(s, n))
  <1>1. s \in Segs /\ nimg \in Nat
    BY ImageCount DEF DirPath
  <1>2. CASE parse_fuse_path(s, nimg).kind = "PART_NODE"
    BY <1>1, <1>2, NodeListing
  <1>3. CASE parse_fuse_path(s, nimg).kind = "SYNTH_ROOT" /\ s = <<>>
    BY <1>3, RootListing
  <1>4. CASE parse_fuse_path(s, nimg).kind = "SYNTH_ROOT" /\ s # <<>>
    BY <1>1, <1>4, RootPaths, DiskListing
  <1> QED
    BY <1>2, <1>3, <1>4 DEF DirPath

\* What can be found can be found as long as no image is added.
LEMMA FoundStays ==
  ASSUME nimg' = nimg, NEW s, Found(s)
  PROVE  Found(s)'
  BY DEF Found, getattr, Walk

(* Opening and closing keep what is known of the other handles. *)
LEMMA DirHandles ==
  ASSUME NEW x \in Handles, NEW r, h = [y \in Handles |-> h[y]], h' = [h EXCEPT ![x] = r], nimg' = nimg,
         \A y \in Handles : DirHandle(y), r.dir /\ r.fh = 0 => DirPath(r.path, nimg)
  PROVE  \A y \in Handles : DirHandle(y)'
  <1>1. h'[x] = r /\ \A y \in Handles : y # x => h'[y] = h[y]
    OBVIOUS
  <1> QED
    BY <1>1 DEF DirHandle

\* The fields of a handle.
LEMMA HandleFields ==
  ASSUME NEW s, NEW a, NEW b, NEW c
  PROVE  LET r == [path |-> s, dir |-> a, fh |-> b, fd |-> c] IN r.path = s /\ r.dir = a /\ r.fh = b
  OBVIOUS

(* Every operation keeps listings and directories. *)
LEMMA OpLists ==
  ASSUME FdInv, ListInv, FuseOps
  PROVE  ListInv'
  <1>1. nimg' = nimg /\ nimg \in 1 .. MaxImages /\ h = [x \in Handles |-> h[x]]
    BY OpsStay DEF OpRest, ListInv, FdInv
  <1>2. ASSUME listed' \subseteq listed, \A x \in Handles : DirHandle(x)'
        PROVE  ListInv'
    BY <1>1, <1>2, FoundStays DEF ListInv
  <1>3. ASSUME UNCHANGED <<h, listed>>
        PROVE  ListInv'
    <2>1. \A x \in Handles : DirHandle(x)'
      BY <1>1, <1>3 DEF ListInv, DirHandle
    <2> QED
      BY <1>2, <1>3, <2>1
  <1>4. ASSUME NEW s, NEW fp,
               \/ Getattr(fp) \/ PathOp(s, fp) \/ AttrOp(s, fp) \/ XattrOp(s, fp)
               \/ Statfs(s, fp) \/ Access(s, fp) \/ Utimens(s, fp)
        PROVE  ListInv'
    BY <1>3, <1>4 DEF Getattr, PathOp, AttrOp, XattrOp, Statfs, Access, Utimens, ResolveOp
  <1>5. ASSUME NEW s, NEW fp, NEW t, NEW tp, TwoPathOp(s, fp, t, tp)
        PROVE  ListInv'
    BY <1>3, <1>5 DEF TwoPathOp
  <1>6. ASSUME NEW x \in Handles, NEW r, h' = [h EXCEPT ![x] = r], listed' \subseteq listed,
               r.dir /\ r.fh = 0 => DirPath(r.path, nimg)
        PROVE  ListInv'
    BY <1>1, <1>2, <1>6, DirHandles DEF ListInv
  <1>7. ASSUME NEW x \in Handles, NEW s, NEW dir, dir => DirPath(s, nimg), SynthOpen(x, s, dir), UNCHANGED listed
        PROVE  ListInv'
    BY <1>6, <1>7, HandleFields DEF SynthOpen
  <1>8. ASSUME NEW x \in Handles, NEW s, NEW m, NEW dir \in BOOLEAN, LklOpen(x, s, m, dir), UNCHANGED listed
        PROVE  ListInv'
    BY <1>6, <1>8, HandleFields, ZeroOne DEF LklOpen
  <1>9. ASSUME NEW fp, Fails(fp), UNCHANGED listed
        PROVE  ListInv'
    BY <1>3, <1>9 DEF Fails
  <1>10. ASSUME NEW x \in Handles, NEW s, NEW fp, NEW create, Open(x, s, fp, create)
         PROVE  ListInv'
    BY <1>7, <1>8, <1>9, <1>10 DEF Open
  <1>11. ASSUME NEW x \in Handles, NEW s \in Paths, Opendir(x, s, parse_fuse_path(s, nimg))
         PROVE  ListInv'
    <2>1. s \in Segs
      BY LayoutAssumption DEF Segs
    <2> QED
      BY <1>7, <1>8, <1>9, <1>11, <2>1 DEF Opendir, DirPath
  <1>12. ASSUME NEW x \in Handles, Readdir(x)
         PROVE  ListInv'
    <2>1. /\ h' = h /\ DirPath(h[x].path, nimg)
          /\ listed' = {Append(h[x].path, n) : n \in SynthNames(parse_fuse_path(h[x].path, nimg))}
      BY <1>12 DEF Readdir, ListInv, DirHandle
    <2>2. \A s \in listed' : Found(s)'
      BY <1>1, <2>1, Listing, FoundStays
    <2>3. \A y \in Handles : DirHandle(y)'
      BY <1>1, <2>1 DEF ListInv, DirHandle
    <2> QED
      BY <1>1, <2>2, <2>3 DEF ListInv
  <1>13. ASSUME NEW x \in Handles, Release(x)
         PROVE  ListInv'
    <2>1. ~ NoHandle.dir
      BY DEF NoHandle
    <2> QED
      BY <1>6, <1>13, <2>1 DEF Release, CloseHandle
  <1> QED
    BY <1>4, <1>5, <1>10, <1>11, <1>12, <1>13 DEF FuseOps

\* Every step of anyfs-fuse keeps listings and directories.
LEMMA ListStep ==
  ASSUME FdInv, ListInv, [UNext]_<<kvars, uvars>>
  PROVE  ListInv'
  <1>1. ASSUME UNCHANGED <<h, listed, nimg>>
        PROVE  ListInv'
    BY <1>1, FoundStays DEF ListInv, DirHandle
  <1>2. CASE FuseMain \/ LoopEnds
    <2>1. UNCHANGED <<h, listed, nimg>>
      BY <1>2 DEF FuseMain, LoopEnds, FuseArgs, fuse_new, fuse_set_signal_handlers, fuse_mount, Take,
                  Daemonize, FuseBoot, FuseDisks, Enter, out_disks_close, out_kernel_halt,
                  out_fuse_unmount, out_remove_signals, out_fuse_destroy, Give, ULater
    <2> QED
      BY <1>1, <2>1
  <1>3. CASE UNCHANGED <<kvars, uvars>>
    BY <1>1, <1>3 DEF kvars, uvars
  <1> QED
    BY <1>2, <1>3, OpLists DEF UNext

(* ListedResolve, for any layout: what readdir shows in a synthetic        *)
(* directory anyfs-fuse finds when it is looked up, then and later, unless *)
(* it is a partition of the image that cannot be entered.                  *)
THEOREM FuseListedResolve == USpec => []ListedResolve
  <1>1. KInit({"fuse"}) /\ UInit => ListInv
    <2>1. ~ NoHandle.dir
      BY DEF NoHandle
    <2>2. ASSUME KInit({"fuse"}), UInit
          PROVE  nimg \in 1 .. MaxImages /\ listed = {} /\ \A x \in Handles : h[x] = NoHandle
      BY <2>2 DEF KInit, UInit
    <2> QED
      BY <2>1, <2>2 DEF ListInv, DirHandle
  <1>2. FuseInv /\ ListInv /\ [UNext]_<<kvars, uvars>> => ListInv'
    BY ListStep DEF FuseInv
  <1>3. ListInv => ListedResolve
    BY DEF ListInv, ListedResolve, Found
  <1> QED
    BY <1>1, <1>2, <1>3, FuseInvariant, PTL DEF USpec
=============================================================================
