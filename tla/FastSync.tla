------------------------------- MODULE FastSync -------------------------------
(***************************************************************************)
(* The semaphore that anyfs-ksmbd --fast-sync gives the in-process kernel   *)
(* on Windows (ksmbd/fastsync_win.c): a counter, InterlockedIncrement and   *)
(* WakeByAddressSingle to go up, compare-and-exchange or WaitOnAddress to   *)
(* go down.  WaitOnAddress sleeps only if the counter still has the value   *)
(* the caller read, and may return for no reason.                           *)
(***************************************************************************)
EXTENDS Integers, FiniteSets

CONSTANTS
  Downers,   \* threads that go down once
  Uppers     \* threads that go up once

VARIABLES
  count,  \* s->count
  cur,    \* each downer's local copy of it
  dpc,    \* each downer: "read", "cas", "wait", "sleep" or "done"
  upc     \* each upper: "inc", "wake" or "done"

fvars == <<count, cur, dpc, upc>>

\* fs_sem_alloc(n).  Enough ups follow for every down.
FInit ==
  /\ count \in 0 .. 1
  /\ cur = [t \in Downers |-> 0]
  /\ dpc = [t \in Downers |-> "read"]
  /\ upc = [u \in Uppers |-> "inc"]

DownRead(t) ==
  /\ dpc[t] = "read"
  /\ cur' = [cur EXCEPT ![t] = count]
  /\ dpc' = [dpc EXCEPT ![t] = IF count > 0 THEN "cas" ELSE "wait"]
  /\ UNCHANGED <<count, upc>>

\* InterlockedCompareExchange(&s->count, cur - 1, cur)
DownCas(t) ==
  /\ dpc[t] = "cas"
  /\ IF count = cur[t]
     THEN count' = count - 1 /\ dpc' = [dpc EXCEPT ![t] = "done"]
     ELSE count' = count /\ dpc' = [dpc EXCEPT ![t] = "read"]
  /\ UNCHANGED <<cur, upc>>

\* Mutant: the wait does not compare the counter with the value read.
DownWait_NoCompare(t) ==
  /\ dpc[t] = "wait"
  /\ dpc' = [dpc EXCEPT ![t] = "sleep"]
  /\ UNCHANGED <<count, cur, upc>>

\* WaitOnAddress(&s->count, &cur)
DownWait(t) ==
  /\ dpc[t] = "wait"
  /\ dpc' = [dpc EXCEPT ![t] = IF count = cur[t] THEN "sleep" ELSE "read"]
  /\ UNCHANGED <<count, cur, upc>>

SpuriousWake(t) ==
  /\ dpc[t] = "sleep"
  /\ dpc' = [dpc EXCEPT ![t] = "read"]
  /\ UNCHANGED <<count, cur, upc>>

UpInc(u) ==
  /\ upc[u] = "inc"
  /\ count' = count + 1
  /\ upc' = [upc EXCEPT ![u] = "wake"]
  /\ UNCHANGED <<cur, dpc>>

\* WakeByAddressSingle: one of the sleepers, if there is one.
UpWake(u) ==
  /\ upc[u] = "wake"
  /\ upc' = [upc EXCEPT ![u] = "done"]
  /\ \/ \E t \in Downers : dpc[t] = "sleep" /\ dpc' = [dpc EXCEPT ![t] = "read"]
     \/ (\A t \in Downers : dpc[t] # "sleep") /\ dpc' = dpc
  /\ UNCHANGED <<count, cur>>

fs_sem_down(t) == DownRead(t) \/ DownCas(t) \/ DownWait(t)
fs_sem_up(u) == UpInc(u) \/ UpWake(u)

FNext ==
  \/ \E t \in Downers : fs_sem_down(t) \/ SpuriousWake(t)
  \/ \E u \in Uppers : fs_sem_up(u)

AllDown == \A t \in Downers : dpc[t] = "done"

\* No wake-up is lost: with as many ups as downs every down returns, however
\* the increments, the wakes and the waits of fs_sem_up and fs_sem_down fall.
DownsReturn == []<>AllDown
=============================================================================
