# A verification development for anyfs

anyfs-reader runs the Linux kernel as a library (LKL) over QEMU's block layer, to
read disk images from servers (SMB, NFS, FUSE), from Node, from Electron and from
the browser. This directory holds TLA+ modules that model it, TLC configurations
that check them on small instances, and TLAPS proofs of the most important results
for every size. Paths below are relative to the repository; `PROJECT.json` maps
every definition to the lines it models and lists the hazards the properties are
aimed at.

## 1. The system

| Part | Source | State | Operations |
| --- | --- | --- | --- |
| Session layer | `src/core/anyfs_session.c`, `anyfs_mount.c`, `anyfs_container.c`, `anyfs_dm.c` | a slot per partition and one for the whole disk (NEW, MOUNTING, MOUNTED, FAILED), a mutex, a condition variable per slot; device-mapper devices | open, enter, leave, close, list; create and remove a mapping |
| QEMU thread and backend | `src/core/qemu_thread.c`, `qemu_backend.c` | thread state, start lock, semaphores, bottom halves, calls on their callers' stacks | start, run a function or a coroutine, stop; open, request, close |
| Disk table, kernel | `src/core/anyfs_backend.c`, `anyfs_kernel.c` | table of 16 disks without a lock, started flag, fatal hook | add, remove, init, halt, atexit net |
| Host proxy | `src/host_proxy/host_proxy.c` | connection table, two rings per connection, end-of-file and shut flags | accept, connect, move bytes, half-close, forced close, free, stop |
| Servers | `src/nfsd`, `src/ksmbd`, `src/fuse`, `src/server_common` | images, shares, binds, cache channels, netlink socket, worker pool, FUSE handles | start, serve, shut down, each with its failures |
| Windows semaphores | `src/ksmbd/fastsync_win.c` | a counter and its sleepers | down, up |
| Parsers and probes | `anyfs_path.c`, `anyfs_share.c`, `anyfs_name.c`, `anyfs_legacy.c`, `anyfs_mount_opts.c`, `anyfs_probe.c`, `anyfs_sysfs.c`, `anyfs_format.c`, `anyfs_strbuf.c`, `jsonw.h`, `src/lspart` | none | pure functions, reads of a device or of `/sys` |
| Block backends | `raw_backend.c`, `gio_backend.c`, `qemu_backend.c`, `anyfs_backend.c` | an open image | choose, open, request |
| TypeScript sessions | `ts/packages/core/src/*session*.ts`, `worker.ts`, `boot.ts`, `wasm-api.ts` | operation queue, watchdog, open fds, disk handle, buffers on the wasm heap | attach, enter, read, open, close fd, close |
| Native addon, API thread | `ts/packages/anyfs-native/src/binding.cc`, `ts/native/anyfs_ts.c` | one mutex or one FIFO in front of the library, 8 handles | every call of a session |
| Browser and Electron glue | `provider.tsx`, `url-fs.ts`, `nbd-server.ts`, `main.ts` | session references, chunk cache, reads in flight, proxies | attach, supersede, prewarm, read, reply |

A frontend opens a session, which adds a disk (backend, then LKL) and mounts
partitions on demand. LKL threads send block requests to the backend, which hands
them to the QEMU thread. Servers reach the kernel's TCP stack through the host
proxy. The TypeScript sessions queue their operations and hand them to the addon or
the API thread, which run one at a time; the React provider owns the sessions of a
page.

What makes it hard: several threads enter one slot; the kernel releases a device
some time after `umount`; a call handed to QEMU lives on a stack that must not
unwind before QEMU is done; two threads share rings without a lock and one of them
frees the connections; a program must unwind from any of a dozen steps while threads
and clients still use what it takes down; `close` may be called while anything is
under way; an engine may abort or wedge for ever inside a call, with buffers of the
caller in its hands.

## 2. Modules and how they correspond to the code

| Module | Models |
| --- | --- |
| `SlotTable` | abstract promise of a session: what a slot may do, whole disk against partitions |
| `AnyfsSession` | the session layer with its threads and what it sees of the kernel |
| `QemuThread` | the QEMU thread, the backend, the threads that use and stop it |
| `HostProxy` | both proxy threads, the rings, the peers |
| `NativeSession` | Electron sessions, the addon, the main process's proxies |
| `Kernel` | what the command line programs share: main thread, kernel, images |
| `Servers` | `anyfs-nfsd` and `anyfs-ksmbd` from main to exit, their threads, clients, signals |
| `FuseFs` | `anyfs-fuse`: main, and the FUSE operations over mounts, handles and descriptors |
| `Programs` | what every one of these programs owes when it ends |
| `FastSync` | the semaphore of `fastsync_win.c` |
| `NbdServer` | the NBD proxy on one connection |
| `NodeWasm` | Node sessions, the wasm API thread, the handle table |
| `BrowserWasm` | the page's session and the worker |
| `Provider` | the React provider and the sessions it owns |
| `UrlFs` | the remote-image filesystem and its chunk cache |
| `PathDsl`, `Names`, `Probe`, `NfsCaches`, `StringOut`, `MountOpts`, `DeviceMapper` | the pure parts: path language, names, partition probing, NFS upcall answers, text buffers, mount options and encodings, device-mapper set-up |
| `Sysfs` | how a session finds its disk and its partitions in `/sys` |
| `Backends` | the choice of a block backend, opening an image, a request buffer by buffer |
| `PartsTable` | the growing buffer, the table of partitions, `lspart` |
| `..._proofs` | theorems, section 4 |
| `MC...` | compositions, instances and views for TLC |

**AnyfsSession.** Every critical section of `d->lock` is one action, since the lock
is never held across a blocking call; a thread's `pc` changes exactly where the code
unlocks or blocks. `EnterStart`, `EnterWait` and `EnterDone` are the three ways
through the head of `enter_fs_slot`; `ReleaseWhole`, `ReleasePart`, `ReleaseDone` are
`release_conflicts`; `Mount`, `Busy`, `Outcome`, `Commit` are the attempt, the busy
retry, the new slot state and its broadcast. `CallLeave` to `LeaveDone` are
`anyfs_session_leave`, `CallClose` to `DiskRemove` the close. `pthread_cond_wait` may
wake spuriously. `CallRefused` is a call for a partition the disk does not have, or for a
whole disk whose device number could not be read. `Init` is what a successful
`anyfs_session_open` leaves. External: `mounted`, `claims` (a device held by a delayed `fput`),
`pinned` (files open). The two ways the library is called are an assumption on the
constants: servers enter from several threads and unmount only at close; JavaScript
callers unmount but run one operation at a time.

**QemuThread.** A call is named by its thread because it lives on that thread's
stack. `Schedule` adds a bottom half, `Poll` takes the scheduled ones as a slice,
`RunFn`/`FnDone` and `RunCo`/`CoDone` run it; a function may poll while it runs, so
functions nest (`stack`). `Timeout` is the watchdog, `Stop`/`StopDone` the stop,
`Hang` a QEMU thread that makes no more progress. Whether a process shuts down in
the documented order is chosen in the first state.

**HostProxy.** The two threads do the same to their own socket, so state and actions
are indexed by side. `RecvSome`/`Pcommit` and `SendSome`/`Ccommit` are separate
steps: the other thread runs between the copy and the index. Bytes are numbers, so
order and loss can be seen. Every poll has a time-out, hence wake-up pipes are left
out; a poll that fails for good ends its thread (`HostPollFails`, `LklPollFails`), one
that is interrupted is just repeated. Peers send, finish sending, die and may be refused.

**NativeSession.** JavaScript runs to completion, so an action is one task and its
reactions. `Turn` is the turn of an operation in `serialize` and `guard`, `Timeout`
its watchdog, `Close` and the `Dispose...` actions `close` and `_dispose`,
`attachPath`/`attachUrl`/`ProxyStarted`/`AttachStopped` the attach, `Serve` a call
inside the addon's mutex, `Answer` its result in the renderer, `Wedge` a call that
keeps the mutex, `HostFatal` the report of the main process, which may never come.
`stopProxy` may throw, in the attach and in the close.

**Kernel, Servers, FuseFs.** The main thread's `pc` is the step of `main` it is at; a
failing step goes to the label the code jumps to. `Servers` adds the cache thread of
`anyfs-nfsd` (it opens its channels, answers an upcall, closes them) and the worker
pool of `anyfs-ksmbd`; clients and the signal handler act at any time. `-h` ends a
server with 0 before anything is set up, and an upcall whose query lacks a word is read
and dropped. The binds of the shares keep their filesystems mounted below a disk that is
removed; nothing undoes them. A session is
here only open or not, with filesystems mounted or not: its inside is
`AnyfsSession`'s. In `FuseFs` libfuse runs one operation at a time (`-s`), so an
operation is one action, modelled by what it changes: mounts, handles, descriptors.
It shares `PathDsl` with the check of the path language. There the numbers of a path
are of any size and go through `strtol`, `strtoul` and the casts of the code; `INT_MAX`
and `LONG_MAX` are constants, equal on Windows and in wasm32.

**FastSync, NbdServer.** `FastSync` takes `down` and `up` apart at every access to the
counter and adds the spurious return of `WaitOnAddress`. In `NbdServer` frames arrive
in pieces, reads complete in any order, the writer chain takes one frame at a time. The
socket closes its own side when the client has closed its (`allowHalfOpen` is not set).

**NodeWasm, BrowserWasm, Provider, UrlFs.** As in `NativeSession`, an action is a task
with the microtasks behind it. `NodeWasm` has the API thread's FIFO, the completions
in order, the C table of handles, the kernel's fd numbers and, per call, the buffers
it must not free while the API thread may write to them. `BrowserWasm` has the two
message channels between page and worker. `Provider` has each effect and each settling
of a promise, and records which image the current session holds; `UrlFs` the probe, the
read loop and the eviction, with a server that may send less, other bytes than those of
the range, or the file as a whole. The applications of `NodeWasm` read and close only
fds they were given by that session and have one `haltKernel` under way at a time: the
code tests neither.

**The pure modules** define operators that follow the code's loops by what they
compute; `MCAlgorithms` takes an input of a bounded domain in one step and lets go of
it in the next, so an invariant is a statement about every input. `Backends` takes
the set of failing host calls, and per buffer whether the host's call succeeds, fails
or stops short, as inputs; `Sysfs` takes directories in any order of `readdir`;
`PartsTable` the memory `realloc` will give; `StringOut` what each of up to three tries
of a call finds, so that a text grows and shrinks between them. Sums of 64-bit block
numbers wrap in `Probe` (`U64`).

## 3. Runs

| Run | Instance | Shows |
| --- | --- | --- |
| `session_shared` | 3 threads, a partition and the whole disk; 27,458 states | one mounter per slot; `SlotTable` is implemented; attempts end and waiters wake |
| `session_serial` | 2 callers one at a time, 3 partitions (one a container); 10,327 states | table and kernel agree, REPLACE prepares the ground, the answers of enter can be relied on, close unmounts all it can, with open files, delayed releases and every failure |
| `session_hidden_busy` | 1 caller, 1 partition of unknown type | violation, see section 6 |
| `qemu` | 3 threads, 1 disk; shutdown at any time and a QEMU that may hang, or the documented order | callers outlive their calls, backends outlive requests, no silent hang; in the documented order no backend leaks and every call returns |
| `proxy_splice` | 1 connection, ring of 2, 3 bytes up and 1 down, polls that may fail; 2,897,008 states | order, one consumer per ring, FIN only behind the data |
| `proxy_live` | 1 connection, ring of 1, 1 byte up and 2 down; 532,699 states | bytes between living peers arrive in both directions; a requested close ends in a free; a connection that has ended gives its slot back unless a ring still holds bytes for a socket that was given up |
| `proxy_free_race` | 1 connection, 1 byte each way | violation, see section 6 |
| `native_sessions` | 2 sessions, 1 fd number, 3 and 2 operations, wedging engine; 761,692 states | one call per session, none after death; fds closed before their disk and never another session's; operations settle, and closes but behind an attach that is stuck, whether or not the host reports the wedge |
| `native_fd_left` | 1 session | violation, see section 6 |
| `programs` | one program per behaviour: nfs or smb with 2 images and 2 shares; fuse with 2 images, 11 paths, 2 handles, 3 fds; the semaphore with 3 threads on each side; NBD with 3 requests, 2 in flight; 255,852 states | exit codes say why, nothing runs into the halt and nothing is left behind but what section 5 names, readers are there before the kernel asks them, what FUSE lists it resolves, handles keep their files, replies match requests; clients are served, signals end the servers, no wake-up is lost |
| `algorithms` | names to 4 bytes of 10, paths to 3 segments, buffers to 5, every subset of failing device-mapper and open calls, requests of up to 3 buffers on 4 sectors, directories of up to 3 entries, 2 disks of up to 2 partitions, `int` to 7 and `long` to 31; 2,870,614 states | names come back, texts and tables arrive whole or not at all, a share that is named is the one found; a disk is found, opened, read and written as asked, recognised and mounted consistently: see the comments in `MCAlgorithms` |
| `frontends` | one edition per behaviour: 2 Node sessions on 1 handle, the page with 2 calls, the provider with 3 sessions and 2 images, a file of 5 bytes in chunks of 2; 383,655 states | buffers stay while requested, no foreign disk, a clean worker, no forgotten session, a truthful UI, whole reads; every call with a watchdog is answered |

**Composition.** `MCPrograms` and `MCFrontends` choose the subject of a behaviour in
its first state; the variables of the others keep one initial value. The union of
several state spaces is checked in one run and nothing is multiplied.

**Bounds.** Three threads are the least at which a waiter, a mounter and a newcomer
meet in one slot; a partition and the whole disk are the two kinds of slot that
exclude each other, and the third partition of the serial run is the container that
cannot be mounted. One disk shared by three threads makes a close meet a request and
a stop. A ring smaller than what is sent is full, empty, and wraps; sizes are 2 and 1
where the code has `RING_CAP`, 4 MiB. Connections share only the table and the two
loops; the table (256 in the code) is full at one, and refusal for want of memory is
a free choice. `MaxRetries` stands for `BUSY_RETRY_TOTAL_MS / BUSY_RETRY_STEP_MS`,
`MaxOps` for what an application starts, `MaxTries` for the attempts of
`callStringOut` (6). One fd number, one handle (8 in the code) force reuse, the case
`OwnFd` and `OwnDisk` are about. `MAX_IN_FLIGHT` 2 with three requests fills the NBD
window; two cached chunks of a file of three force eviction. An application of the Node
edition looks at disks or reads files, not both in one behaviour, and a worker reports an
error of its own once: the page is deaf to a second. The bytes of names cover
each class of UTF-8 lead and continuation byte, the escape plane, `/` and an invalid
byte; four of them hold a whole escape with something next to it. Three buffers on
four sectors let a call fail or stop short before, in and after another; rows of 183
and 184 bytes end on either side of a doubling of the buffer of the table. The numbers of
paths are small ones, those at which a cast changes the value (`INT_MAX + 1`, the ones
that become -1, 0 and 1) and one that saturates. A poll may fail in `proxy_splice` only:
after it a thread is gone and nothing progresses, and the race of `proxy_free_race` is
there without it.

**Views and symmetry.** The views drop locals of threads that are in no call, the text
of the last error, what a closed session or a dead module had, and the numbers of errors
that are all treated alike; no property reads them. Symmetry over threads is used only in
`session_serial`. It checks no liveness.

**Deadlock** is checked except where the system may really stop: a proxy after
`host_proxy_stop`, a QEMU thread that hangs, an application that is done with its
sessions, a program that has exited.

**Fairness.** Threads inside an operation keep running (weak fairness of their steps):
the operating system schedules them and no modelled lock is held across a wait other
than `g_start_lock` and the mutex of the addon, whose waits are themselves modelled.
I/O completion in QEMU is strongly fair, since other bottom halves may run in between.
In the proxy a send is strongly fair, for a living peer reads now and then. In
`NativeSession` tasks get their turn, timers fire (`opTimeoutMs` is not 0) and a healthy
addon answers. A wedged engine need not be reported: only a wait for the QEMU thread is
(`qemu_thread.c:83`), and `onFatal` is optional. In `Servers` the
main thread, the cache thread and each worker are weakly fair, clients and signals are
not. In `NodeWasm` only the timers are fair: the API thread may never answer again. In
`BrowserWasm` the page's tasks and timers are fair and the worker is not. In `Provider`
only the time-out that rejects an attach is fair.

## 4. Proofs

The eight proof modules follow one plan: an inductive invariant in layers, a lemma
per layer or per action, and `Spec => []Inv` by PTL. All results hold for any number
of threads, partitions, disks, connections, sessions, requests and retries, and any
ring size. TLC finds the inductive invariants (`IInv` of the session and of the QEMU
thread, `SerialInv`, `ProxyInv`, `SessionInv`, `ServerInv`, `FuseInv`, `NbdInv`,
`ListInv`, `NodeInvariant`, `HostInv`, `ProviderInv`, `UrlInv`) true on the instances of section 3
as well. A leaf that names no prover is for
Zenon; those that need arithmetic, sequences or the fields of records name SMT.

**Session** (`AnyfsSession_proofs`; assumptions: the slot sets are disjoint as named in
`SlotAssumption`, and callers are serialised or never release, `CallerAssumption`).
None of the safety invariants is inductive alone. `Control` ties each label to the
operation and says that two threads are inside only if both are entering without
REPLACE; `Kernel` says what is mounted around each step that changes it;
`ClosePending` says that a close still has every mount it can undo ahead of it. Their
conjunction with `MountExclusive` and `TableTrue` is inductive. From it follow
`MountsExclude`, `TableIsTrue`, `Delivery`, `FailureIsFinal`, `CloseIsComplete`, and
`Refinement`: every step is a step or a stutter of `SlotTable`. `TypeCorrect` needs no
strengthening.

**REPLACE** (same module). For serialised callers `GroundPrepared` shows what a
REPLACE leaves in the way of its mount, and that the node of the whole disk exists
when it is mounted. The strengthening says, per label inside `release_conflicts`,
which conflicting slots are already done with. `AnswersReliable` needs in addition
that blkid recognised every filesystem of the disk; section 6 shows why.

**QEMU thread** (`QemuThread_proofs`). `Lifecycle` (one thread, one post of each
semaphore), `Roles` (labels per operation), `Handoff` (a call is in one place, while
its owner waits), `Backends` (who may touch a BlockBackend), `Halting` (after a stop).
From them `TypeCorrect`, `CallersWait`, `BackendsLive`, `LateCallsFailFast`,
`EndIsSticky`; and for a process that shuts down in the documented order
`BackendsGivenBack`. `Handoff` is what `CallersWait` lacks: without it a call could be
in two places and be posted twice.

**Host proxy** (`HostProxy_proofs`; assumption: rings are not empty arrays,
`ProxyAssumption`). `ProxyInv` has three layers. `Shape` types the tables
and bounds the indices. `Control` ties the labels of the two loops to the flags: what
each thread has finished, and that a close is requested only when the host thread has
stopped taking from the ring. `Splice` says of each ring that tail, head and the
counts of bytes taken and delivered agree, and that from the tail to what was taken
every slot holds the byte of its position (`Stored`), including bytes copied but not
yet committed. The producer writes outside that range, the consumer reads inside it,
and a slot is never behind two positions of it because the range is at most the
capacity: modular arithmetic, proved once in `Slots`. From it `BytesInOrder`,
`SingleConsumer` and `EndAfterData`.

**Native sessions** (`NativeSession_proofs`; assumption: `NoFd` is no descriptor,
`NativeAssumption`). `OwnFd` alone is not inductive: it depends on who will close a
descriptor next. `SessionInv` is a conjunction over the sessions, of parts that speak of
one session only, so that a step of one keeps the parts of the others: who waits for
which call (`Turns`, `UnderWay`), that a queued descriptor is open until its turn and
its close is queued behind its uses (`QueueFds`), that every open descriptor is in the
session's books or on its way there (`Books`, `CallFds`, `AnswerFds`), one attach at a
time (`Attachment`) and what disk stands on what proxy (`DiskState`, `DiskCalls`).
Descriptor numbers are all that sessions share, and `Disjoint` keeps them apart. From
it `FdsOwn`, `TakenDown` and the action property `InTurn`.

**Servers and FUSE** (`Programs_proofs`; the servers need no assumption, FUSE only that
`MaxFd` is a number; each program is proved under its own specification, `SSpec` and
`USpec`, without fairness). `ServerInv` has four parts. `ControlInv` keeps, from the
place where a status was chosen to the exit, what it was chosen from: `running` is
never set again, `served` never cleared. `DiskInv` says, label by label, which entries
of `disks[]` are the open sessions, also in the middle of opening and closing them.
`TakenInv` says while which labels the kernel, the binds, the socket and the pool are there.
`ThreadInv` follows the cache thread through the channels and the requests through the
pool. From them `ServersTellWhy`, `ServersQuiet`, `ServersReadersFirst`,
`ServersLeaveNothing`, in which the shares are unmounted by the close of their session and
what `anyfs-nfsd` may leave is named: its binds, and its cache thread after a failing
`host_proxy_start`. `FuseInv` has `UnwindInv` (what `main` holds of libfuse at each
label of its ladder), `ImagesInv` (open sessions; whatever is mounted is on one, or an
open file keeps it busy) and `FdInv` (a descriptor other than 0 belongs to one handle).
Every operation is shown to do one of four things to that state (`OpEffect`): look,
open a file, open something synthetic, release. From them `FuseLeavesNothing` and
`FuseHandleFds`, for any layout of the images and any set of paths.

**Paths and listings** (same module; assumptions: `PathAssumption`, a path has a maximal
number of components and an `int` is no wider than a `long`, and `LayoutAssumption`, partitions are numbered from 1 and an image
nests no deeper than a path can name). The path language has no recursion: the parsers
choose a first and a last segment, and the longest prefix of a shape. That these exist is
shown from the well-foundedness of the numbers (`LeastOf`, `GreatestOf`), and from there
every reader is reduced, case by case, to equations on chains of `p<N>` segments
(`ParseChain`, `ParseDisk`, `ChainPathIs`, `ResolveIs`, `DiskNodeIs`, `RootNodeIs`).
`PathReadersAgree` is the agreement of the FUSE parser and the `--share` resolver for
paths of any length, numbers of any size and any widths of `int` and `long`, which
`SharesResolve` checks up to three segments. The other
direction, from a name that readdir makes to the parse of the longer path, gives
`FuseListedResolve`. `ListedResolve` is not inductive: `ListInv` adds that a handle which
readdir answers without the kernel is on the root, on an opened disk or on a container,
and `Listing` shows for these three that every name below them is found.

**NBD server** (`NbdServer_proofs`; assumption: the handles of requests are a finite set
of positive numbers, `NbdAssumption`). `RequestInv` says that a request is in one place:
on its way, read, in the writer's chain, answered; `FrameInv` and `ChainInv` that it is
there once; `PhaseInv` where `serveNbd` may be meanwhile, and that `inFlight` counts the
reads that are neither settled nor forgotten. `RepliesMatch` lacks the chain: a reply
that is not on the wire yet has to be known to be the only one, and the right one.
From it `NbdRepliesMatch`.

**Node sessions** (`NodeWasm_proofs`; assumption: handles and fds are numbers and callers
try at least once, `NodeAssumption`). `OwnDisk` speaks of the request the API thread is
about to run; what it rests on was decided tasks ago, when the request was queued.
`Requests` says that a chain of calls has one request at most, queued or answered, whose
buffers are held. `SessionOK` says of each session where `close()` stands (`Phases`), that
the handle and the fds it knows, asks for or is about to hear of are its own (`Handles`,
`Files`), that an fd is closed once and that what the application queued comes before the
requests of `close()` (`Turns`). `Booting` keeps the boot apart from everything else. A
step of one session keeps the parts of the others because its chains are its own
(`StepOf`), and the API thread can give a session's number to another only after the
owner's request for it (`RunStep`). `Waiting` is kept apart: a close is awaited only while
it is under way. From these `NodeRequestsHeld` and `NodeOwnDisk`.

**Page, provider, URL file** (`Frontends_proofs`; assumptions: ids are positive numbers,
`ProviderAssumption`, and file, chunk and cache are not empty, `UrlAssumption`). `HostInv`
says when `/work` is mounted at each place of the worker; from it `WorkerReusable`.
`ProviderInv` says that a session has one owner and is as far as that owner takes it to
be (`OneOwner`), that one attach at most was not superseded (`OneAttach`), what stands
behind the state shown, the image the current session holds included (`Backed`), and, unless the prewarm prop may be switched on during
an attach, that nothing is parked beside an attach or the current session (`Parked`) and
no session is without an owner (`Owned`). From it `UiHonest`, with that switch or
without, and `NoSessionLost`, without it. `UrlInv` says that every cached chunk is a piece
of the file from where it starts, unless the server once sent other bytes, and whole unless
it once sent less (`CacheGood`),
and that what was copied are the bytes from the position on; moving a chunk to the end of
the cache and evicting the first are sequence lemmas (`TouchStep`, `FetchStep`). From it
`UrlReadsWhole`.

**Only model-checked.** Liveness (`WaitersServed`, `NoSilentHang`, `CallsReturn`,
`SpliceProgress`, `Settles`, `ProgramsServe`, `SyncDownsReturn`, `CallsAnswered`) is
outside the reach of the provers used, as are ENABLED, induction over data and RECURSIVE
operators. Hence the properties of the pure modules stay with TLC: `NamesSurvive`,
`StringsWhole` and `VolumesSafe` are about what the recursive functions and folds of
`Names`, `StringOut`, `Sysfs`, `PartsTable`, `Backends` and `MountOpts` compute, or range
over a finite set of inputs that the run covers; of `SharesResolve` the part about paths is
`PathReadersAgree`. The semaphore of `FastSync` has
liveness only.

## 5. What the properties leave out

* `Prepared` is checked and proved for serialised callers. With two threads entering
  the whole disk the first, having failed, can unlink the node the second made.
* The proxy drops the end of what a peer sent when a hang-up is reported before the
  data is read; `SpliceProgress` claims arrival between peers that stay. A ring that holds
  bytes for a socket that was given up keeps its slot (`DeadConnsEnd` in section 6).
* An application is assumed to await one attach before the next.
* `Settles` excepts a close behind an attach that waits in a wedged addon: an attach has no
  watchdog. (`ClosesNeverStuck` in section 6.)
* `ExitTellsWhy` counts `-h`, which ends a server with 0 before it has set up anything, as
  its own reason.
* `LeavesNothing` and `QuietBeforeHalt` name two things `anyfs-nfsd` leaves: the binds of
  `nfsd_main.c:836`, which keep their filesystems mounted below removed disks, and the
  cache thread, which nobody joins when `host_proxy_start` fails.
* `SharesResolve` claims that a disk was opened and that partitions count from 1 for
  numbers that fit an `int` and have no minus sign. A larger number wraps: `p4294967296`
  is partition 0, and `disk4294967295` the index -1, which `anyfs_share.c:132` does not
  refuse. The part about file handles is for share names without the four characters the
  kernel escapes, and for file handle numbers that fit an `int`.
* `StringsWhole` excepts two silent losses: the partitions of a disk beyond 32, while a
  session holds 128 (`anyfs_ts.c:183`), and the entries behind an error of `lkl_readdir`
  (`anyfs_ts.c:270`).
* `MountsSafe` compares the encoding of the C programs and of the browser for locales whose
  language has two letters and that name no script before the region: `kok_IN` and
  `zh_Hans_HK` are read differently. `DmRetryable` claims of a set-up whose undoing fails
  only that it has published nothing and that one removal makes a retry possible.
* `UiTruthful` excepts one "ready": of a session that died during its attach,
  `provider.tsx:391` sets the error and `:405` sets "ready" over it.
* `ReadsWhole` excepts reads after a 206 with another range or a short 200, which
  `url-fs.ts:128-133` takes as they come, and says that the read loop runs on for ever only
  over a chunk that was not what was asked for.
* `OwnDisk` excepts the repetition of `listParts` and `meta` with a grown buffer, which
  uses the handle of the first attempt (`wasm-api.ts:178`).
* `SessionsOwned` is checked and proved with the prewarm prop constant during an attach.
* `ListedResolve` is checked and proved for images that nest no deeper than
  `ANYFS_PATH_MAX_COMPONENTS`: `readdir` lists a partition below that depth, and
  `anyfs_path_parse` refuses its path.
* `RequestServed` claims what was read or written only for host calls that are not cut
  short: the raw backend answers OK to a short `pread` or `pwrite`. It claims that a
  flush reached the host only if it carried a buffer (without one neither the raw nor
  the QEMU backend makes a call), not on Windows, where its failure is ignored, and not
  for GIO, which only reads.
* `OpensClean` claims that `ANYFS_SESSION_SNAPSHOT` keeps an image from being written for
  the QEMU backend only (`include/anyfs.h:35`); the raw backend ignores the flag.
* `BackendFits` claims shared writing for the names the drive list gives. A name that
  begins with `//./` is given to the raw backend too, which shares writing only for
  `\\.\`.
* `HandleFds` and `LeavesNothing` except descriptor 0, which `release` takes for a
  synthetic file (`fuse_main.c:973`).
* `NodeCallsReturn` and `WebCallsReturn` are about calls under the watchdog; boot and
  attach are not.

## 6. Disagreements between the code and what it says

Shown by a run that ends in a violation:

* `session_hidden_busy`: without a type hint, EBUSY of every type is returned as -1 and
  the slot becomes FAILED, while `anyfs_session.c:660` says such a slot is retryable.
* `proxy_free_race`: the host thread closes an LKL socket the LKL thread is polling,
  while `host_proxy.c:7` gives all LKL calls to the LKL thread.
* `native_fd_left`: `close()` before the turn of a `closeFd()` closes the disk with that
  fd open.

Stated as a definition that a reader can add to the named configuration:

| Definition | Configuration | Says |
| --- | --- | --- |
| `DeadConnsEnd` | `ProxyLive.cfg` | a connection whose client died is freed; one whose LKL side had ended before keeps undeliverable bytes and its slot |
| `StopFinishesConns` | `ProxySplice.cfg` | connections keep running after a stop (`host_proxy.h:33`); both threads leave |
| `ClosesNeverStuck` | `NativeSessions.cfg` | close never queues behind a stuck operation (`session-base.ts:278`); it does behind an attach, which has no watchdog |
| `BootBounded` | `Frontends.cfg` | the attach time-out bounds boot (`wasm-session.ts:137`); it does not run yet |
| `SessionsOwned` | `Frontends.cfg`, `MidAttach = TRUE` | with the prewarm prop switched on during an attach, `provider.tsx:386` forgets a session and `:441` closes one of two |
| `LastErrorIsOwn` | `Frontends.cfg` | the last error is that of the call that just failed (`wasm-api.ts:199`); another session's failure may come between |
| `WordsArrive` | `Algorithms.cfg` | upcall words decode octal escapes (`nfsd_main.c:132`); only the hexadecimal form is decoded, so a share name with a space is not found |
| `HexOnlyInvalid` | `Algorithms.cfg` | `\xNN` stands for bytes outside valid UTF-8 only (`anyfs_legacy.c:206`); in a name with one such byte the bytes of valid multi-byte characters are written so too |

## 7. Not modelled

* The HTTP disk server, the Windows string layer: calls of the host's I/O and string
  functions with no protocol of their own.
* The wording of a row, logging, the text of configurations, linker stubs, the user
  interface and the benches: no state a property could be about.
* Children of containers as slots of a session, and the reading of LVM and LUKS
  metadata: the first repeats the slot machine one level down, with names from the
  metadata; the second turns bytes into numbers, whose domain has no small instance
  that says anything.
* Format and options of images given to QEMU: data.
* Two threads in the search for a free entry of the disk table: it has no lock, and every
  program opens its disks from one thread. `Backends` has the search of one.
* The ways in which `anyfs_session_open` fails: they leave no session.
* Share specifications longer than 255 bytes, which are cut, and queries that fill a buffer
  other than the one of the FUSE parser.
* The atexit net and the fatal hook of the kernel: they run in a process that ends.
* What the ksmbd-tools library does with a request: it is not part of the repository;
  `Servers` has when a request is taken, answered and dropped.
* The worker's messages `detach`, `dispose` and `mount`: `WasmSession` never sends them.
* `useDir` and `useFile`: plain fetch effects.
