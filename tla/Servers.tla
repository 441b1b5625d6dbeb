-------------------------------- MODULE Servers --------------------------------
(***************************************************************************)
(* anyfs-nfsd (nfsd/nfsd_main.c) and anyfs-ksmbd (ksmbd/ksmbd_main.c,       *)
(* ksmbd/ksmbd_ipc.c) from main to exit: start-up with every failure path,  *)
(* the serving, the stop by a signal and the shutdown.                      *)
(*                                                                          *)
(* Besides the main thread there are                                        *)
(*   nfs  the cache thread that answers the upcalls of the kernel's nfsd    *)
(*        (a mini mountd), one channel file per cache;                      *)
(*   smb  the worker pool that answers the requests ksmbd sends over        *)
(*        netlink;                                                          *)
(*   both the host proxy, through which the clients reach the server, and   *)
(*        the signal handler.                                               *)
(***************************************************************************)
EXTENDS Kernel

CONSTANTS
  MaxShares,   \* bound on the --share options
  Channels,    \* the caches with a channel file (NUM_CHANNELS of them)
  Requests     \* the requests ksmbd sends to user space

VARIABLES
  nshare,         \* n_share_specs
  help,           \* history: it printed its usage because of -h
  sigs,           \* the signal handlers are installed
  running,        \* anyfs_server_running
  proxy,          \* the host proxy runs
  served,         \* history: the serve loop was reached
  binds,          \* nfs: the mounts that are bound to /<name>
  tpc,            \* nfs: the cache thread, "none", "open", "loop", "close", "done"
  todo,           \* nfs: channels it has not tried to open yet
  fds,            \* nfs: channels it holds open
  failed,         \* nfs: channels whose open failed
  channels_open,  \* nfs: the flag the main thread waits for
  up,             \* nfs: upcalls, see UpStates
  blind,          \* nfs: history: upcalls that found no reader while running
  sock,           \* smb: nlsock is open
  health,         \* smb: KSMBD_HEALTH_RUNNING
  pool,           \* smb: the worker pool exists
  err,            \* smb: ipc_process_event failed
  rq              \* smb: request -> "idle", "queued", "pool", "busy", "done", "lost"

nfsvars == <<binds, tpc, todo, fds, failed, channels_open, up, blind>>
smbvars == <<sock, health, pool, err, rq>>
svars == <<nshare, help, sigs, running, proxy, served, nfsvars, smbvars>>

\* An upcall waits for the cache thread ("empty": a word of its query is
\* missing), was answered or dropped, or has been cached as negative.
UpStates == {"none", "wait", "empty", "ok", "dropped", "negative"}

STypeOK ==
  /\ nshare \in 0 .. MaxShares
  /\ {help, sigs, running, proxy, served, channels_open, sock, health, pool, err} \subseteq BOOLEAN
  /\ binds \subseteq Images(nimg) \X (1 .. MaxShares)
  /\ tpc \in {"none", "open", "loop", "close", "done"}
  /\ todo \subseteq Channels /\ fds \subseteq Channels /\ failed \subseteq Channels
  /\ blind \subseteq Channels
  /\ up \in [Channels -> UpStates]
  /\ rq \in [Requests -> {"idle", "queued", "pool", "busy", "done", "lost"}]

SInit ==
  /\ nshare \in 0 .. MaxShares
  /\ help = FALSE /\ sigs = FALSE /\ running = TRUE /\ proxy = FALSE /\ served = FALSE
  /\ binds = {} /\ tpc = "none" /\ todo = Channels /\ fds = {} /\ failed = {}
  /\ channels_open = FALSE
  /\ up = [c \in Channels |-> "none"] /\ blind = {}
  /\ sock = FALSE /\ health = FALSE /\ pool = FALSE /\ err = FALSE
  /\ rq = [r \in Requests |-> "idle"]

Main(l) == prog \in {"nfs", "smb"} /\ pc = l

\* The kernel's variables a step of the main thread leaves alone once the
\* disks are open.
KRest == UNCHANGED <<prog, nimg, status, kern, disks, live, mounts, pinned, twice>>

----------------------------------------------------------------------------
(* Start-up *)

\* Option parsing: -h ends the program with its usage; no image, no share, a
\* bad option or -p with two images end it too; then the signal handlers are
\* installed.
Args ==
  /\ Main("args")
  /\ \/ /\ nshare > 0
        /\ sigs' = TRUE /\ Goto("boot")
        /\ UNCHANGED <<help, status>>
     \/ /\ help' = TRUE /\ status' = 0
        /\ Goto("exit") /\ UNCHANGED sigs
     \/ Goto("exit") /\ UNCHANGED <<help, sigs, status>>
  /\ UNCHANGED <<prog, nimg, kern, disks, live, mounts, pinned, twice>>
  /\ UNCHANGED <<nshare, running, proxy, served, nfsvars, smbvars>>

\* anyfs_server_boot: a failing kernel ends the program at once.
Boot ==
  /\ Main("boot")
  /\ anyfs_kernel_init("disks", "exit")
  /\ UNCHANGED <<prog, nimg, status, disks, live, mounts, pinned, twice, svars>>

Disks ==
  /\ Main("disks")
  /\ anyfs_share_open_disks("resolve", "halt")
  /\ UNCHANGED <<prog, nimg, status, kern, pinned, svars>>

\* One round of anyfs_server_resolve_shares: the share's partition is
\* entered, that is mounted, or the program gives up.
Resolve ==
  /\ Main("resolve")
  /\ \/ /\ i < nshare
        /\ \E d \in disks : mounts' = mounts \cup {<<d, i + 1>>}
        /\ Loop
     \/ i < nshare /\ Goto("halt") /\ UNCHANGED mounts
     \/ i = nshare /\ Goto(IF prog = "nfs" THEN "bind" ELSE "setup") /\ UNCHANGED mounts
  /\ UNCHANGED <<prog, nimg, status, kern, disks, live, pinned, twice, svars>>

\* nfs: each share is bound to /<name>; a reserved name, mkdir or mount ends it.
Bind ==
  /\ Main("bind")
  /\ \/ /\ i < nshare
        /\ binds' = binds \cup {m \in mounts : m[2] = i + 1}
        /\ Loop
     \/ i < nshare /\ Goto("halt") /\ UNCHANGED binds
     \/ i = nshare /\ Goto("nfsd") /\ UNCHANGED binds
  /\ KRest
  /\ UNCHANGED <<nshare, help, sigs, running, proxy, served, tpc, todo, fds, failed,
                 channels_open, up, blind, smbvars>>

\* nfs: start_nfsd; the settings before "threads" only warn.
StartNfsd ==
  /\ Main("nfsd")
  /\ Goto("spawn") \/ Goto("halt")
  /\ KRest /\ UNCHANGED svars

\* nfs: pthread_create of the cache thread.
Spawn ==
  /\ Main("spawn")
  /\ \/ tpc' = "open" /\ Goto("wait")
     \/ tpc' = tpc /\ Goto("halt")
  /\ KRest
  /\ UNCHANGED <<nshare, help, sigs, running, proxy, served, binds, todo, fds, failed,
                 channels_open, up, blind, smbvars>>

\* Mutant: the proxy starts without waiting for the cache thread.
WaitChannels_Skip ==
  /\ Main("wait")
  /\ Goto("proxy")
  /\ KRest /\ UNCHANGED svars

\* nfs: the wait for channels_open under channels_lock.
WaitChannels ==
  /\ Main("wait")
  /\ channels_open
  /\ Goto("proxy")
  /\ KRest /\ UNCHANGED svars

\* smb: setup_ksmbd_config with ipc_init.  A failing guest account,
\* configuration file or finalize skips the cleanup.  ipc_init leaves the
\* socket closed (nl_open), or open without health (family, start-up refused).
\* The worker pool comes up in every other case.
Setup ==
  /\ Main("setup")
  /\ \/ Goto("halt") /\ UNCHANGED <<sock, health, pool>>
     \/ \E s, h \in BOOLEAN :
          /\ h => s
          /\ sock' = s /\ health' = h /\ pool' = TRUE
          /\ Goto(IF h THEN "proxy" ELSE "cleanup")
  /\ KRest
  /\ UNCHANGED <<nshare, help, sigs, running, proxy, served, nfsvars, err, rq>>

\* host_proxy_start.  nfsd goes to halt without joining the cache thread.
StartProxy ==
  /\ Main("proxy")
  /\ \/ proxy' = TRUE /\ served' = TRUE /\ Goto("serve")
     \/ /\ UNCHANGED <<proxy, served>>
        /\ Goto(IF prog = "nfs" THEN "halt" ELSE "cleanup")
  /\ KRest
  /\ UNCHANGED <<nshare, help, sigs, running, nfsvars, smbvars>>

----------------------------------------------------------------------------
(* Serving *)

\* handle_stop: SIGINT or SIGTERM, at any time after the handlers are in.
Signal ==
  /\ prog \in {"nfs", "smb"} /\ sigs /\ running /\ pc # "exit"
  /\ running' = FALSE
  /\ UNCHANGED <<kvars, nshare, help, sigs, proxy, served, nfsvars, smbvars>>

\* nfs: the main thread polls the flag.
ServeNfs ==
  /\ Main("serve") /\ prog = "nfs"
  /\ ~ running
  /\ status' = 0
  /\ Goto("unproxy")
  /\ UNCHANGED <<prog, nimg, kern, disks, live, mounts, pinned, twice, svars>>

\* smb: one round of the event loop.  A request goes to the pool; recv or the
\* allocation may fail.  The messages it skips (an ACK, another family or
\* version) are not requests.
ipc_process_event ==
  /\ Main("serve") /\ prog = "smb"
  /\ running
  /\ \E r \in Requests :
       /\ rq[r] = "queued"
       /\ \/ rq' = [rq EXCEPT ![r] = "pool"] /\ err' = err /\ UNCHANGED <<pc, i>>
          \/ rq' = [rq EXCEPT ![r] = "lost"] /\ err' = TRUE /\ Goto("status")
  /\ KRest
  /\ UNCHANGED <<nshare, help, sigs, running, proxy, served, nfsvars, sock, health, pool>>

ServeSmbEnd ==
  /\ Main("serve") /\ prog = "smb"
  /\ ~ running
  /\ Goto("status")
  /\ KRest /\ UNCHANGED svars

\* Mutant: the status forgets why the loop ended.
SmbStatus_Always ==
  /\ Main("status")
  /\ status' = 0
  /\ Goto("unproxy")
  /\ UNCHANGED <<prog, nimg, kern, disks, live, mounts, pinned, twice, svars>>

\* smb: an IPC error while nobody asked to stop is a failure.
SmbStatus ==
  /\ Main("status")
  /\ status' = IF err /\ running THEN status ELSE 0
  /\ Goto("unproxy")
  /\ UNCHANGED <<prog, nimg, kern, disks, live, mounts, pinned, twice, svars>>

----------------------------------------------------------------------------
(* Shutdown *)

StopProxy ==
  /\ Main("unproxy")
  /\ proxy' = FALSE
  /\ Goto(IF prog = "nfs" THEN "join" ELSE "cleanup")
  /\ KRest
  /\ UNCHANGED <<nshare, help, sigs, running, served, nfsvars, smbvars>>

\* Mutant: shutdown goes on while the cache thread runs.
JoinThread_Skip ==
  /\ Main("join")
  /\ Goto("halt")
  /\ KRest /\ UNCHANGED svars

\* nfs: pthread_join of the cache thread.
JoinThread ==
  /\ Main("join")
  /\ tpc = "done"
  /\ Goto("halt")
  /\ KRest /\ UNCHANGED svars

\* smb: ipc_destroy tells ksmbd and closes the socket; requests it had sent
\* and nobody had read are gone.
ipc_destroy ==
  /\ Main("cleanup")
  /\ sock' = FALSE /\ health' = FALSE
  /\ rq' = [r \in Requests |-> IF rq[r] = "queued" THEN "lost" ELSE rq[r]]
  /\ Goto("wp")
  /\ KRest
  /\ UNCHANGED <<nshare, help, sigs, running, proxy, served, nfsvars, pool, err>>

\* smb: wp_destroy drops what waits in the pool and waits for the workers;
\* spnego, sm, shm and usm follow.
wp_destroy ==
  /\ Main("wp")
  /\ \A r \in Requests : rq[r] # "busy"
  /\ pool' = FALSE
  /\ rq' = [r \in Requests |-> IF rq[r] = "pool" THEN "lost" ELSE rq[r]]
  /\ Goto("halt")
  /\ KRest
  /\ UNCHANGED <<nshare, help, sigs, running, proxy, served, nfsvars, sock, health, err>>

\* anyfs_server_shutdown: every session of disks[], then the kernel.
anyfs_server_shutdown ==
  /\ Main("halt")
  /\ \/ /\ i < nimg
        /\ anyfs_session_close({i} \cap disks)
        /\ Loop /\ kern' = kern
     \/ /\ i = nimg
        /\ anyfs_kernel_halt
        /\ Goto("exit")
        /\ UNCHANGED <<live, mounts, twice>>
  /\ UNCHANGED <<prog, nimg, status, disks, pinned, svars>>

----------------------------------------------------------------------------
(* nfs: the cache thread and the kernel's upcalls *)

ThreadRest ==
  UNCHANGED <<kvars, nshare, help, sigs, running, proxy, served, binds, smbvars>>

\* The thread tries every channel once; a failure is logged and skipped.
OpenChannel ==
  /\ tpc = "open"
  /\ \E c \in todo :
       /\ todo' = todo \ {c}
       /\ \/ fds' = fds \cup {c} /\ failed' = failed
          \/ fds' = fds /\ failed' = failed \cup {c}
  /\ UNCHANGED <<tpc, channels_open, up, blind>>
  /\ ThreadRest

\* Then it says so, whatever opened.
ChannelsOpen ==
  /\ tpc = "open" /\ todo = {}
  /\ channels_open' = TRUE
  /\ tpc' = "loop"
  /\ UNCHANGED <<todo, fds, failed, up, blind>>
  /\ ThreadRest

\* One upcall read from its channel and answered by the handler, which returns
\* without a word when the query lacks one.
Answer ==
  /\ tpc = "loop" /\ kern = "up"
  /\ \E c \in fds :
       \/ up[c] = "wait" /\ up' = [up EXCEPT ![c] = "ok"]
       \/ up[c] = "empty" /\ up' = [up EXCEPT ![c] = "dropped"]
  /\ UNCHANGED <<tpc, todo, fds, failed, channels_open, blind>>
  /\ ThreadRest

\* Mutant: the thread ends its loop whatever the flag says.
CloseChannels_Any ==
  /\ tpc = "loop"
  /\ fds' = {}
  /\ up' = [c \in Channels |-> IF up[c] \in {"wait", "empty"} THEN "negative" ELSE up[c]]
  /\ tpc' = "done"
  /\ UNCHANGED <<todo, failed, channels_open, blind>>
  /\ ThreadRest

\* The loop ends with the flag; the channels are closed, and the kernel fails
\* the upcalls that wait on them.
CloseChannels ==
  /\ tpc = "loop" /\ ~ running
  /\ fds' = {}
  /\ up' = [c \in Channels |-> IF up[c] \in {"wait", "empty"} THEN "negative" ELSE up[c]]
  /\ tpc' = "done"
  /\ UNCHANGED <<todo, failed, channels_open, blind>>
  /\ ThreadRest

cache_handler_thread == OpenChannel \/ ChannelsOpen \/ Answer \/ CloseChannels

\* A client makes the kernel ask for a cache entry.  Without a reader on the
\* channel the kernel caches a negative entry.
Upcall ==
  /\ prog = "nfs" /\ proxy
  /\ \E c \in Channels :
       /\ up[c] = "none"
       /\ \E q \in {"wait", "empty"} :
            up' = [up EXCEPT ![c] = IF c \in fds THEN q ELSE "negative"]
       /\ blind' = IF c \notin fds /\ running THEN blind \cup {c} ELSE blind
  /\ UNCHANGED <<tpc, todo, fds, failed, channels_open>>
  /\ ThreadRest

----------------------------------------------------------------------------
(* smb: ksmbd and the workers *)

RqStep(r, to) ==
  /\ rq' = [rq EXCEPT ![r] = to]
  /\ UNCHANGED <<kvars, nshare, help, sigs, running, proxy, served, nfsvars, sock, health, pool, err>>

\* A client makes ksmbd send a request.
Request(r) ==
  /\ prog = "smb" /\ proxy /\ sock /\ health
  /\ rq[r] = "idle"
  /\ RqStep(r, "queued")

\* A pool thread takes the request, and later sends the answer; after
\* ipc_destroy the send fails.
WorkerTakes(r) == rq[r] = "pool" /\ RqStep(r, "busy")
WorkerSends(r) == rq[r] = "busy" /\ RqStep(r, IF sock THEN "done" ELSE "lost")

Worker(r) == WorkerTakes(r) \/ WorkerSends(r)

----------------------------------------------------------------------------
MainThread ==
  \/ Args \/ Boot \/ Disks \/ Resolve
  \/ Bind \/ StartNfsd \/ Spawn \/ WaitChannels \/ Setup \/ StartProxy
  \/ ServeNfs \/ ipc_process_event \/ ServeSmbEnd \/ SmbStatus
  \/ StopProxy \/ JoinThread \/ ipc_destroy \/ wp_destroy \/ anyfs_server_shutdown

SNext ==
  \/ MainThread \/ Signal
  \/ cache_handler_thread \/ Upcall
  \/ \E r \in Requests : Request(r) \/ Worker(r)

\* The two servers on their own, without fairness.
SSpec == KInit({"nfs", "smb"}) /\ SInit /\ [][SNext]_<<kvars, svars>>

\* The threads and the main thread are host threads the system schedules;
\* nobody has to send a signal, an upcall or a request.
SFairness ==
  /\ WF_<<kvars, svars>>(MainThread)
  /\ WF_<<kvars, svars>>(cache_handler_thread)
  /\ \A r \in Requests : WF_<<kvars, svars>>(Worker(r))

----------------------------------------------------------------------------
(* Properties *)

\* The exit status says why the program ended: 0 only after serving until a
\* signal came, or when nothing but the usage was asked for (-h); and 1 only
\* without serving, or after an IPC error.
\* nfsd_main.c: "only an interrupted serve loop exits 0".
ExitTellsWhy ==
  prog \in {"nfs", "smb"} /\ pc = "exit" =>
    /\ status = 0 => help \/ (served /\ ~ running)
    /\ status = 1 => ~ help /\ (~ served \/ err)
    /\ help => kern = "off" /\ ~ sigs

\* Nothing that uses the in-process kernel is left when it is halted, on the
\* failing paths too: not the proxy, not ksmbd's socket, not a worker.  The
\* cache thread has ended as well, unless host_proxy_start failed: nfsd_main.c
\* then halts the kernel without joining it.
QuietBeforeHalt ==
  prog \in {"nfs", "smb"} /\ kern = "halted" =>
    /\ ~ proxy /\ ~ sock /\ ~ pool
    /\ \A r \in Requests : rq[r] # "busy"
    /\ served => tpc \in {"none", "done"}

\* What an ending server leaves besides its sessions: the proxy and ksmbd's
\* socket and pool are gone; filesystems stay mounted in the binds of nfsd
\* only, which nothing undoes, and only below disks that were closed; and the
\* cache thread runs on only after host_proxy_start failed.
ServersUnwound ==
  prog \in {"nfs", "smb"} /\ pc = "exit" =>
    /\ ~ proxy /\ ~ sock /\ ~ pool
    /\ mounts = {}
    /\ binds # {} => prog = "nfs" /\ kern = "halted"
    /\ tpc \notin {"none", "done"} => prog = "nfs" /\ status = 1 /\ ~ served

\* No client's upcall meets a channel without a reader while the server runs,
\* unless that channel could not be opened: the proxy lets clients in only
\* after the cache thread has been through all channels.
ReadersFirst == blind \subseteq failed

\* An upcall on a channel that could be opened is answered, or read and dropped
\* when its query lacks a word, and a request is answered, unless the server is
\* told to stop or its IPC fails.
ClientsServed ==
  /\ \A c \in Channels : []<>(up[c] \in {"none", "ok", "dropped"} \/ c \in failed \/ ~ running)
  /\ \A r \in Requests : []<>(rq[r] \in {"idle", "done"} \/ ~ running \/ err)

\* A signal ends the program, whatever it was doing.
StopEnds == []<>(running \/ pc = "exit")
=============================================================================
