\* In a process that is not orderly a shutdown may meet calls in progress
\* (atexit) and the QEMU thread may hang: the calls they overtake wait for
\* ever, so the system may stop.
CONSTANTS
  Threads = {t1, t2, t3}
  NoThread = NoThread
  Disks = {d1}
SPECIFICATION FairSpec
VIEW View
INVARIANTS CallerWaits LiveBackend NoBackendLeak
PROPERTIES NoSilentHang CallsReturn
CHECK_DEADLOCK FALSE
