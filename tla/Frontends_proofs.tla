--------------------------- MODULE Frontends_proofs ---------------------------
(***************************************************************************)
(* Proofs about the front ends: the browser's worker, the React provider   *)
(* and the file behind a URL.  See the README for the arguments.           *)
(***************************************************************************)
EXTENDS BrowserWasm, Provider, UrlFs, WellFoundedInduction, SequenceTheorems, TLAPS

\* A leaf that names no prover is for Zenon.
USE ZenonT(60)

----------------------------------------------------------------------------
(* BrowserWasm *)

\* The engine has the image open exactly while the worker knows its handle, and
\* /work is mounted for it and for the attach under way, and for nothing else.
HostInv ==
  /\ cur \in {"idle", "init", "open", "why", "run", "stuck"}
  /\ disk \in BOOLEAN /\ diskHandle \in BOOLEAN /\ disk = diskHandle
  /\ diskHandle => work = "mounted"
  /\ cur \in {"open", "why"} => work = "mounted" /\ ~diskHandle
  /\ cur \in {"idle", "init", "run"} /\ ~diskHandle => work = "none"

\* Every step keeps HostInv.
LEMMA HostStep == HostInv /\ [WebNext]_webvars => HostInv'
<1> SUFFICES ASSUME HostInv, [WebNext]_webvars PROVE HostInv'
  OBVIOUS
<1> USE DEF HostInv
<1>1. ASSUME UNCHANGED host PROVE HostInv'
  BY <1>1 DEF host
<1>2. ASSUME prewarm \/ workerLoads \/ waitForReady \/ (\E c \in Slots : callRaw(c)) \/ takeTurn
      PROVE UNCHANGED host
  BY <1>2 DEF prewarm, workerLoads, waitForReady, callRaw, takeTurn
<1>3. ASSUME onReply \/ onFatal \/ opTimeout \/ closeSession PROVE UNCHANGED host
  BY <1>3 DEF onReply, onFatal, opTimeout, closeSession
<1>4. CASE hostBoot
  BY <1>4 DEF hostBoot, Next1, Reply
<1>5. ASSUME NEW op \in {"attach", "attachUrl"}, hostAttach(op) PROVE HostInv'
  BY <1>5 DEF hostAttach, Next1, Reply
<1>6. CASE hostOp
  BY <1>6 DEF hostOp, Next1
<1>7. CASE hostWhy
  BY <1>7 DEF hostWhy, Reply
<1>8. CASE hostAnswer
  <2>0. work' = work
    BY <1>8 DEF hostAnswer
  <2>1. CASE cur = "open" /\ disk' = TRUE /\ diskHandle' = TRUE /\ cur' = "idle"
    BY <2>0, <2>1
  <2>2. CASE cur = "open" /\ cur' = "why" /\ UNCHANGED <<disk, diskHandle>>
    BY <2>0, <2>2
  <2>3. CASE cur \in {"init", "run"} /\ cur' = "idle" /\ UNCHANGED <<disk, diskHandle>>
    BY <2>0, <2>3
  <2> HIDE DEF HostInv
  <2> QED
    BY <1>8, <2>1, <2>2, <2>3 DEF hostAnswer, Reply
<1>9. CASE hostAbort
  BY <1>9 DEF hostAbort
<1>10. ASSUME hostError PROVE UNCHANGED host
  BY <1>10 DEF hostError
<1>11. CASE UNCHANGED webvars
  BY <1>1, <1>11 DEF webvars
<1> QED
  BY <1>1, <1>2, <1>3, <1>4, <1>5, <1>6, <1>7, <1>8, <1>9, <1>10, <1>11 DEF WebNext

\* A worker without a disk is as good as new between two operations, and the
\* mount an image is read through stays while the image is open: worker.ts
\* keeps both over every order of messages, failures, errors and aborts.
THEOREM WorkerReusable == WebSpec => []WorkerClean
<1>1. WebInit => HostInv
  BY DEF WebInit, HostInv
<1>2. HostInv => WorkerClean
  BY SMTT(60) DEF HostInv, WorkerClean
<1> QED
  BY <1>1, <1>2, HostStep, PTL DEF WebSpec

----------------------------------------------------------------------------
(* Provider *)

SessionStates == {"free", "booting", "live", "dead", "closed", "late", "lost"}

TaskRecords == [img : Images \cup {NoImage}, stage : {"none", "boot", "attach"}, old : BOOLEAN]

\* The values the variables take.
ProviderTypes ==
  /\ sst \in [Ids -> SessionStates] /\ task \in [Ids -> TaskRecords]
  /\ current \in Ids \cup {NoId} /\ prewarmed \in Ids \cup {NoId} /\ prewarming \in Ids \cup {NoId}
  /\ orphans \subseteq Ids
  /\ pmounted \in BOOLEAN /\ psource \in Images \cup {NoImage}

\* A session has one owner, and is as far as its owner takes it to be.
OneOwner ==
  \A k \in Ids :
    /\ task[k].stage = "none" => task[k] = NoTask
    /\ task[k].stage # "none" => task[k].img \in Images
    /\ task[k].stage = "boot" => sst[k] = "booting"
    /\ task[k].stage = "attach" => sst[k] \in {"live", "dead", "late"}
    /\ k = current => sst[k] = "live" /\ k # prewarmed /\ task[k].stage = "none"
    /\ k = prewarmed => sst[k] \in {"live", "dead"} /\ task[k].stage = "none"
    /\ k = prewarming => sst[k] = "booting" /\ k \notin orphans /\ task[k].stage = "none"
    /\ k \in orphans => sst[k] = "booting" /\ task[k].stage = "none"

\* The attach of session k is under way and was not superseded.
Valid(k) == task[k].stage # "none" /\ ~task[k].old

\* It is the only one, the user sees it, and it is for the image of the prop.
OneAttach ==
  \A k \in Ids : Valid(k) =>
    /\ pmounted /\ status = "attaching" /\ current = NoId /\ task[k].img = psource
    /\ \A j \in Ids : Valid(j) => j = k

\* What the user sees has a session or an attach behind it.
Backed ==
  pmounted =>
    /\ desired = psource
    /\ status = "ready" => /\ shown \in Ids /\ psource # NoImage
                           /\ sst[shown] = "lost" \/ (shown = current /\ holds = psource)
    /\ status = "attaching" => \E k \in Ids : Valid(k)

\* Beside an attach, or beside the current session, nothing is parked.
Parked ==
  /\ current # NoId => prewarmed = NoId /\ prewarming = NoId
  /\ prewarmed = NoId \/ prewarming = NoId
  /\ \A k \in Ids : Valid(k) => prewarmed = NoId /\ prewarming = NoId

\* A session that was booted and not closed has an owner.
Owned ==
  \A k \in Ids : sst[k] \in {"booting", "live", "dead", "late"} =>
    k \in {current, prewarmed, prewarming} \/ k \in orphans \/ task[k].stage # "none"

ProviderInv == ProviderTypes /\ OneOwner /\ OneAttach /\ Backed /\ (~MidAttach => Parked /\ Owned)

\* The least of a set of numbers is one of them.
LEMMA MinIn ==
  ASSUME NEW S \in SUBSET Nat, S # {}
  PROVE  Min(S) \in S
<1> DEFINE Less == {ss \in Nat \X Nat : ss[1] < ss[2]}
<1>1. IsWellFoundedOn(Less, Nat)
  BY NatLessThanWellFounded DEF OpToRel
<1>2. \A f, g \in Nat : <<g, f>> \notin Less => f <= g
  BY SMTT(30)
<1>3. \E f \in S : \A g \in S : <<g, f>> \notin Less
  <2> HIDE DEF Less
  <2> QED
    BY <1>1, WFMin
<1>4. \E f \in S : \A g \in S : f <= g
  BY <1>2, <1>3
<1> QED
  BY <1>4 DEF Min

\* A new session is one nobody refers to.
LEMMA NewIdFresh ==
  ASSUME Fresh # {}
  PROVE  /\ NewId \in Ids /\ sst[NewId] \in {"free", "closed", "lost"}
         /\ task[NewId] = NoTask /\ NewId # shown
<1>1. Fresh \in SUBSET Nat
  BY ProviderAssumption DEF Fresh
<1> QED
  BY <1>1, MinIn DEF NewId, Fresh

\* What is made of the record of an attach.
LEMMA NoTaskIs == NoTask \in TaskRecords /\ NoTask.stage = "none"
BY SMTT(30) DEF NoTask, TaskRecords

\* A task that the next source overtakes.
LEMMA OldTask ==
  ASSUME NEW r \in TaskRecords
  PROVE  LET o == [r EXCEPT !.old = TRUE]
         IN  o \in TaskRecords /\ o.stage = r.stage /\ o.img = r.img /\ o.old = TRUE
<1>1. [r EXCEPT !.old = TRUE] \in TaskRecords
  BY DEF TaskRecords
<1>2. LET o == [r EXCEPT !.old = TRUE] IN o.stage = r.stage /\ o.img = r.img /\ o.old = TRUE
  BY SMTT(30) DEF TaskRecords
<1> QED
  BY <1>1, <1>2

\* A task that goes on to attach.
LEMMA BootedTask ==
  ASSUME NEW r \in TaskRecords
  PROVE  LET a == [r EXCEPT !.stage = "attach"]
         IN  a \in TaskRecords /\ a.stage = "attach" /\ a.img = r.img /\ a.old = r.old
BY SMTT(30) DEF TaskRecords

\* The task of a new source.
LEMMA NewTask ==
  ASSUME NEW x \in Images, NEW s \in {"boot", "attach"}
  PROVE  LET n == [img |-> x, stage |-> s, old |-> FALSE]
         IN  n \in TaskRecords /\ n.stage = s /\ n.img = x /\ n.old = FALSE
BY SMTT(30) DEF TaskRecords

\* Superseding changes nothing of an attach but that it is superseded.
LEMMA SupersededValues ==
  ASSUME ProviderTypes, OneOwner
  PROVE  /\ Superseded \in [Ids -> TaskRecords]
         /\ \A k \in Ids : /\ Superseded[k].stage = task[k].stage
                           /\ task[k].stage = "none" => Superseded[k] = NoTask
                           /\ task[k].stage # "none" => /\ Superseded[k].img = task[k].img
                                                        /\ Superseded[k].old = TRUE
<1> DEFINE T(k) == Superseded[k]
<1>1. \A k \in Ids : task[k] \in TaskRecords
  BY DEF ProviderTypes
<1>2. Superseded = [k \in Ids |-> T(k)]
  BY DEF Superseded
<1>3. ASSUME NEW k \in Ids, task[k].stage = "none" PROVE T(k) = NoTask
  BY <1>3 DEF Superseded, Tasks, OneOwner
<1>4. ASSUME NEW k \in Ids, task[k].stage # "none" PROVE T(k) = [task[k] EXCEPT !.old = TRUE]
  <2>1. k \in Tasks
    BY <1>4, NoTaskIs DEF Tasks
  <2> QED
    BY <2>1 DEF Superseded
<1> HIDE DEF T
<1>5. ASSUME NEW k \in Ids
      PROVE  /\ T(k) \in TaskRecords /\ T(k).stage = task[k].stage
             /\ task[k].stage = "none" => T(k) = NoTask
             /\ task[k].stage # "none" => T(k).img = task[k].img /\ T(k).old = TRUE
  <2>1. CASE task[k].stage = "none"
    BY <1>3, <2>1, NoTaskIs
  <2>2. CASE task[k].stage # "none"
    BY <1>1, <1>4, <2>2, OldTask
  <2> QED
    BY <2>1, <2>2
<1>6. Superseded \in [Ids -> TaskRecords]
  BY <1>2, <1>5
<1> QED
  BY <1>5, <1>6 DEF T

\* Closing closes the sessions of K.
LEMMA ClosingValues ==
  ASSUME ProviderTypes, NEW K
  PROVE  /\ Closing(K) \in [Ids -> SessionStates]
         /\ \A k \in Ids : Closing(K)[k] = IF k \in K THEN "closed" ELSE sst[k]
BY DEF Closing, ProviderTypes, SessionStates


\* The prewarm effect: what it boots belongs to nobody yet.
LEMMA PrewarmStep == ASSUME ProviderInv, prewarmEffect PROVE ProviderInv'
<1> DEFINE n == NewId
<1>0. ProviderTypes /\ OneOwner /\ OneAttach /\ Backed /\ (~MidAttach => Parked /\ Owned)
  BY DEF ProviderInv
<1>1. /\ n \in Ids /\ n # NoId /\ sst[n] \in {"free", "closed", "lost"} /\ n # shown
      /\ task[n] = NoTask /\ task[n].stage = "none"
  BY NewIdFresh, NoTaskIs, ProviderAssumption DEF prewarmEffect
<1>2. /\ prewarming' = n /\ prewarmed = NoId /\ prewarming = NoId /\ current = NoId
      /\ status = "attaching" => MidAttach
      /\ status' \in {"booting", status} /\ (status \in {"ready", "attaching"} => status' = status)
      /\ UNCHANGED <<pmounted, psource, desired, current, holds, prewarmed, task, orphans, shown>>
  BY DEF prewarmEffect
<1>3. /\ sst' \in [Ids -> SessionStates]
      /\ \A k \in Ids : sst'[k] = IF k = n THEN "booting" ELSE sst[k]
  BY <1>0 DEF prewarmEffect, ProviderTypes, SessionStates
<1> HIDE DEF n
<1>4. ProviderTypes'
  BY <1>0, <1>1, <1>2, <1>3 DEF ProviderTypes
<1>5. OneOwner'
  BY <1>0, <1>1, <1>2, <1>3, SMTT(60) DEF OneOwner
<1>6. OneAttach'
  BY <1>0, <1>2 DEF OneAttach, Valid
<1>7. Backed'
  <2>1. shown \in Ids => sst'[shown] = sst[shown]
    BY <1>1, <1>3
  <2> QED
    BY <1>0, <1>2, <2>1 DEF Backed, Valid
<1>8. ASSUME ~MidAttach PROVE Parked' /\ Owned'
  <2>1. Parked'
    BY <1>0, <1>2, <1>8 DEF Parked, OneAttach, Valid
  <2>2. Owned'
    BY <1>0, <1>1, <1>2, <1>3, <1>8, SMTT(60) DEF Owned
  <2> QED
    BY <2>1, <2>2
<1> QED
  BY <1>4, <1>5, <1>6, <1>7, <1>8, ProviderAssumption DEF ProviderInv

\* The prop becomes null: the current session is closed and every attach is
\* superseded.
LEMMA ClearStep == ASSUME ProviderInv, sourceCleared PROVE ProviderInv'
<1>0. ProviderTypes /\ OneOwner /\ OneAttach /\ Backed /\ (~MidAttach => Parked /\ Owned)
  BY DEF ProviderInv
<1>1. /\ task' \in [Ids -> TaskRecords]
      /\ \A k \in Ids : /\ task'[k].stage = task[k].stage
                        /\ task[k].stage = "none" => task'[k] = NoTask
                        /\ task[k].stage # "none" => /\ task'[k].img = task[k].img
                                                     /\ task'[k].old = TRUE
  BY <1>0, SupersededValues DEF sourceCleared
<1>2. /\ psource' = NoImage /\ desired' = NoImage /\ current' = NoId
      /\ status' # "ready" /\ status' # "attaching"
      /\ UNCHANGED <<pmounted, prewarmed, prewarming, orphans>>
  BY DEF sourceCleared
<1>3. /\ sst' \in [Ids -> SessionStates]
      /\ \A k \in Ids : sst'[k] = IF k \in {current} \ {NoId} THEN "closed" ELSE sst[k]
  BY <1>0, ClosingValues DEF sourceCleared
<1>4. ProviderTypes'
  BY <1>0, <1>1, <1>2, <1>3 DEF ProviderTypes
<1>5. OneOwner'
  BY <1>0, <1>1, <1>2, <1>3, ProviderAssumption, SMTT(60) DEF OneOwner
<1>6. \A k \in Ids : ~Valid(k)'
  BY <1>1, SMTT(30) DEF Valid
<1>7. OneAttach' /\ Backed'
  BY <1>2, <1>6 DEF OneAttach, Backed
<1>8. ASSUME ~MidAttach PROVE Parked' /\ Owned'
  <2>1. Parked'
    BY <1>0, <1>2, <1>6, <1>8 DEF Parked
  <2>2. Owned'
    BY <1>0, <1>1, <1>2, <1>3, <1>8, ProviderAssumption, SMTT(60) DEF Owned
  <2> QED
    BY <2>1, <2>2
<1> QED
  BY <1>4, <1>5, <1>7, <1>8, ProviderAssumption DEF ProviderInv

\* The unmount: what is current or parked is closed, what boots is left to be
\* closed when it settles.
LEMMA UnmountStep == ASSUME ProviderInv, unmount PROVE ProviderInv'
<1>0. ProviderTypes /\ OneOwner /\ OneAttach /\ Backed /\ (~MidAttach => Parked /\ Owned)
  BY DEF ProviderInv
<1>1. /\ task' \in [Ids -> TaskRecords]
      /\ \A k \in Ids : /\ task'[k].stage = task[k].stage
                        /\ task[k].stage = "none" => task'[k] = NoTask
                        /\ task[k].stage # "none" => /\ task'[k].img = task[k].img
                                                     /\ task'[k].old = TRUE
  BY <1>0, SupersededValues DEF unmount
<1>2. /\ pmounted' = FALSE /\ ~pmounted' /\ current' = NoId /\ prewarmed' = NoId /\ prewarming' = NoId
      /\ orphans' = orphans \cup ({prewarming} \ {NoId})
      /\ UNCHANGED psource
  BY DEF unmount
<1>3. /\ sst' \in [Ids -> SessionStates]
      /\ \A k \in Ids : sst'[k] = IF k \in {IF current # NoId THEN current ELSE prewarmed} \ {NoId}
                                  THEN "closed" ELSE sst[k]
  BY <1>0, ClosingValues DEF unmount
<1>4. ProviderTypes'
  BY <1>0, <1>1, <1>2, <1>3 DEF ProviderTypes
<1>5. OneOwner'
  BY <1>0, <1>1, <1>2, <1>3, ProviderAssumption, SMTT(60) DEF OneOwner
<1>6. \A k \in Ids : ~Valid(k)'
  BY <1>1, SMTT(30) DEF Valid
<1>7. OneAttach' /\ Backed'
  BY <1>2, <1>6 DEF OneAttach, Backed
<1>8. ASSUME ~MidAttach PROVE Parked' /\ Owned'
  <2>1. Parked'
    BY <1>2, <1>6 DEF Parked
  <2>2. Owned'
    BY <1>0, <1>1, <1>2, <1>3, <1>8, ProviderAssumption, SMTT(60) DEF Owned, Parked
  <2> QED
    BY <2>1, <2>2
<1> QED
  BY <1>4, <1>5, <1>7, <1>8, ProviderAssumption DEF ProviderInv

\* An attach with session n supersedes the others and closes what was current.
LEMMA AttachBegins ==
  ASSUME ProviderInv, NEW x \in Images, NEW n \in Ids, NEW s \in {"boot", "attach"},
         pmounted, n # current, n \notin orphans, task[n].stage = "none",
         task' = [Superseded EXCEPT ![n] = [img |-> x, stage |-> s, old |-> FALSE]],
         sst' \in [Ids -> SessionStates],
         \A k \in Ids \ {n} : sst'[k] = IF k = current THEN "closed" ELSE sst[k],
         s = "boot" => sst'[n] = "booting",
         s = "attach" => sst'[n] \in {"live", "dead", "late"},
         prewarmed' = (IF prewarmed = n THEN NoId ELSE prewarmed),
         prewarming' = (IF prewarming = n THEN NoId ELSE prewarming),
         ~MidAttach => prewarmed' = NoId /\ prewarming' = NoId,
         psource' = x, desired' = x, current' = NoId, status' = "attaching",
         UNCHANGED <<pmounted, orphans>>
  PROVE  ProviderInv'
<1>0. ProviderTypes /\ OneOwner /\ OneAttach /\ Backed /\ (~MidAttach => Parked /\ Owned)
  BY DEF ProviderInv
<1> DEFINE r == [img |-> x, stage |-> s, old |-> FALSE]
<1>r. r \in TaskRecords /\ r.stage = s /\ r.img = x /\ r.old = FALSE
  BY NewTask
<1>e. task' = [Superseded EXCEPT ![n] = r]
  OBVIOUS
<1> HIDE DEF r
<1>1. /\ task' \in [Ids -> TaskRecords] /\ task'[n] = r
      /\ \A k \in Ids \ {n} : /\ task'[k].stage = task[k].stage
                              /\ task[k].stage = "none" => task'[k] = NoTask
                              /\ task[k].stage # "none" => /\ task'[k].img = task[k].img
                                                           /\ task'[k].old = TRUE
  BY <1>0, <1>r, <1>e, SupersededValues
<1>4. ProviderTypes'
  BY <1>0, <1>1 DEF ProviderTypes
<1>5. OneOwner'
  BY <1>0, <1>r, <1>1, ProviderAssumption, SMTT(60) DEF OneOwner
<1>6. Valid(n)' /\ \A k \in Ids : Valid(k)' => k = n
  BY <1>r, <1>1 DEF Valid
<1>7. OneAttach' /\ Backed'
  BY <1>r, <1>1, <1>6 DEF OneAttach, Backed
<1>8. ASSUME ~MidAttach PROVE Parked' /\ Owned'
  <2>1. Parked'
    BY <1>8 DEF Parked
  <2>2. Owned'
    BY <1>0, <1>r, <1>1, <1>8, ProviderAssumption, SMTT(60) DEF Owned
  <2> QED
    BY <2>1, <2>2
<1> QED
  BY <1>4, <1>5, <1>7, <1>8, ProviderAssumption DEF ProviderInv

\* A new source keeps the provider's invariant.
LEMMA SourceStep == ASSUME ProviderInv, NEW x \in Images, sourceEffect(x) PROVE ProviderInv'
<1>0. ProviderTypes /\ OneOwner /\ OneAttach /\ Backed /\ (~MidAttach => Parked /\ Owned)
  BY DEF ProviderInv
<1>1. CASE Dedup(x) /\ UNCHANGED <<refs, holds, sst, task, status, shown>>
  <2>1. /\ psource' = psource
        /\ UNCHANGED <<pmounted, desired, current, holds, prewarmed, prewarming, sst, task,
                       orphans, status, shown>>
    BY <1>0, <1>1 DEF sourceEffect, Dedup, Backed, refs
  <2>2. ProviderTypes' /\ OneOwner'
    BY <1>0, <2>1 DEF ProviderTypes, OneOwner
  <2>3. OneAttach' /\ Backed'
    BY <1>0, <2>1 DEF OneAttach, Backed, Valid
  <2>4. ~MidAttach => Parked' /\ Owned'
    BY <1>0, <2>1 DEF Parked, Owned, Valid
  <2> QED
    BY <2>2, <2>3, <2>4, ProviderAssumption DEF ProviderInv
<1>2. CASE ~Dedup(x) /\ consumeSession(x) /\ current' = NoId /\ desired' = x /\ status' = "attaching"
  <2> DEFINE K == {current} \ {NoId}
  <2>1. pmounted /\ psource' = x /\ UNCHANGED <<pmounted, orphans>>
    BY DEF sourceEffect
  <2>2. /\ Closing(K) \in [Ids -> SessionStates]
        /\ \A k \in Ids : Closing(K)[k] = IF k = current THEN "closed" ELSE sst[k]
    BY <1>0, ClosingValues, ProviderAssumption
  <2>3. CASE prewarmed # NoId /\ task' = [Superseded EXCEPT ![prewarmed] = [img |-> x, stage |-> "attach", old |-> FALSE]]
             /\ prewarmed' = NoId /\ sst' = Closing(K) /\ UNCHANGED prewarming
    <3>1. /\ prewarmed \in Ids /\ prewarmed # current /\ prewarmed # prewarming
          /\ sst[prewarmed] \in {"live", "dead"}
          /\ prewarmed \notin orphans /\ task[prewarmed].stage = "none"
      BY <1>0, <2>3, SMTT(60) DEF ProviderTypes, OneOwner
    <3>2. ~MidAttach => prewarming' = NoId
      BY <1>0, <2>3 DEF Parked
    <3> QED
      BY <1>2, <2>1, <2>2, <2>3, <3>1, <3>2, AttachBegins
  <2>4. CASE prewarmed = NoId /\ prewarming # NoId
             /\ task' = [Superseded EXCEPT ![prewarming] = [img |-> x, stage |-> "boot", old |-> FALSE]]
             /\ prewarming' = NoId /\ sst' = Closing(K) /\ UNCHANGED prewarmed
    <3>1. /\ prewarming \in Ids /\ prewarming # current /\ sst[prewarming] = "booting"
          /\ prewarming \notin orphans /\ task[prewarming].stage = "none"
      BY <1>0, <2>4, SMTT(60) DEF ProviderTypes, OneOwner
    <3> QED
      BY <1>2, <2>1, <2>2, <2>4, <3>1, AttachBegins
  <2>5. CASE prewarmed = NoId /\ prewarming = NoId /\ Fresh # {}
             /\ task' = [Superseded EXCEPT ![NewId] = [img |-> x, stage |-> "boot", old |-> FALSE]]
             /\ sst' = [Closing(K) EXCEPT ![NewId] = "booting"]
             /\ UNCHANGED <<prewarmed, prewarming>>
    <3>1. /\ NewId \in Ids /\ sst[NewId] \in {"free", "closed", "lost"} /\ task[NewId].stage = "none"
      BY <2>5, NewIdFresh, NoTaskIs
    <3>2. NewId # current /\ NewId \notin orphans /\ NewId # NoId
      BY <1>0, <3>1, ProviderAssumption, SMTT(60) DEF OneOwner
    <3> HIDE DEF K
    <3>3. /\ sst' \in [Ids -> SessionStates] /\ sst'[NewId] = "booting"
          /\ \A k \in Ids \ {NewId} : sst'[k] = IF k = current THEN "closed" ELSE sst[k]
      BY <2>2, <2>5, <3>1 DEF SessionStates
    <3> QED
      BY <1>2, <2>1, <2>5, <3>1, <3>2, <3>3, AttachBegins
  <2> QED
    BY <1>2, <2>3, <2>4, <2>5 DEF consumeSession
<1> QED
  BY <1>1, <1>2 DEF sourceEffect

\* The attach with session k ends and the session is closed: it was superseded,
\* or it failed and the user is told.
LEMMA AttachGivenUp ==
  ASSUME ProviderInv, NEW k \in Ids, task[k].stage # "none",
         task' = [task EXCEPT ![k] = NoTask], sst' = Closing({k}),
         \/ task[k].old /\ UNCHANGED <<status, shown>>
         \/ ~task[k].old /\ (pmounted => status' = "error"),
         UNCHANGED <<pmounted, psource, desired, current, holds, prewarmed, prewarming, orphans>>
  PROVE  ProviderInv'
<1>0. ProviderTypes /\ OneOwner /\ OneAttach /\ Backed /\ (~MidAttach => Parked /\ Owned)
  BY DEF ProviderInv
<1>1. /\ task' \in [Ids -> TaskRecords] /\ task'[k] = NoTask /\ task'[k].stage = "none"
      /\ \A j \in Ids \ {k} : task'[j] = task[j]
  BY <1>0, NoTaskIs DEF ProviderTypes
<1>2. /\ sst' \in [Ids -> SessionStates]
      /\ \A j \in Ids : sst'[j] = IF j = k THEN "closed" ELSE sst[j]
  BY <1>0, ClosingValues
<1>3. ProviderTypes'
  BY <1>0, <1>1, <1>2 DEF ProviderTypes
<1>4. OneOwner'
  <2>1. k \notin {current, prewarmed, prewarming} /\ k \notin orphans
    BY <1>0 DEF OneOwner
  <2>2. \A j \in Ids : j = k \/ (sst'[j] = sst[j] /\ task'[j] = task[j])
    BY <1>1, <1>2
  <2> QED
    BY <1>0, <1>1, <2>1, <2>2 DEF OneOwner
<1>5. ~Valid(k)' /\ \A j \in Ids \ {k} : Valid(j)' <=> Valid(j)
  BY <1>1 DEF Valid
<1>6. ASSUME task[k].old, UNCHANGED <<status, shown>> PROVE OneAttach' /\ Backed'
  <2>1. ~Valid(k)
    BY <1>6 DEF Valid
  <2>2. \A j \in Ids : Valid(j)' <=> Valid(j)
    BY <1>5, <2>1
  <2>3. \A j \in Ids : Valid(j) => task'[j] = task[j]
    BY <1>1, <2>1
  <2>4. OneAttach'
    BY <1>0, <1>6, <2>2, <2>3 DEF OneAttach
  <2>5. \A j \in Ids : sst[j] = "lost" => sst'[j] = "lost"
    <3>1. task[k] \in TaskRecords
      BY <1>0 DEF ProviderTypes
    <3>2. task[k].stage \in {"boot", "attach"}
      BY <3>1, SMTT(30) DEF TaskRecords
    <3>3. sst[k] # "lost"
      BY <1>0, <3>2 DEF OneOwner
    <3> QED
      BY <1>2, <3>3
  <2>6. Backed'
    BY <1>0, <1>6, <2>2, <2>5 DEF Backed
  <2> QED
    BY <2>4, <2>6
<1>7. ASSUME ~task[k].old, pmounted => status' = "error" PROVE OneAttach' /\ Backed'
  <2>1. Valid(k)
    BY <1>7 DEF Valid
  <2>2. \A j \in Ids : ~Valid(j)'
    BY <1>0, <1>5, <2>1 DEF OneAttach
  <2> QED
    BY <1>0, <1>7, <2>2 DEF OneAttach, Backed
<1>8. OneAttach' /\ Backed'
  BY <1>6, <1>7
<1>9. ASSUME ~MidAttach PROVE Parked' /\ Owned'
  <2>1. Parked'
    BY <1>0, <1>5, <1>9 DEF Parked
  <2>2. \A j \in Ids : j = k \/ (sst'[j] = sst[j] /\ task'[j] = task[j])
    BY <1>1, <1>2
  <2>3. sst'[k] = "closed"
    BY <1>2
  <2>4. Owned'
    BY <1>0, <1>9, <2>2, <2>3 DEF Owned
  <2> QED
    BY <2>1, <2>4
<1> QED
  BY <1>3, <1>4, <1>8, <1>9, ProviderAssumption DEF ProviderInv

\* A session that is not in an attach is closed and its owner lets go of it.
LEMMA LetGo ==
  ASSUME ProviderInv, NEW k \in Ids, k # prewarmed, task[k].stage = "none", sst[k] # "lost",
         sst' = Closing({k}),
         current' = (IF current = k THEN NoId ELSE current),
         prewarming' = (IF prewarming = k THEN NoId ELSE prewarming),
         orphans' = orphans \ {k},
         status' = status \/ (pmounted => status' = "error"),
         pmounted /\ status' = "ready" => UNCHANGED <<shown, holds>>,
         pmounted /\ status = "attaching" => status' = status,
         current = k => (pmounted => status' = "error"),
         UNCHANGED <<pmounted, psource, desired, prewarmed, task>>
  PROVE  ProviderInv'
<1>0. ProviderTypes /\ OneOwner /\ OneAttach /\ Backed /\ (~MidAttach => Parked /\ Owned)
  BY DEF ProviderInv
<1>1. /\ sst' \in [Ids -> SessionStates]
      /\ \A j \in Ids : sst'[j] = IF j = k THEN "closed" ELSE sst[j]
  BY <1>0, ClosingValues
<1>2. ProviderTypes'
  BY <1>0, <1>1 DEF ProviderTypes
<1>3. OneOwner'
  <2>1. \A j \in Ids : /\ j = current' => j # k /\ j = current
                       /\ j = prewarming' => j # k /\ j = prewarming
                       /\ j \in orphans' => j # k /\ j \in orphans
    BY ProviderAssumption
  <2> QED
    BY <1>0, <1>1, <2>1 DEF OneOwner
<1>4. \A j \in Ids : Valid(j)' <=> Valid(j)
  BY DEF Valid
<1>5. OneAttach'
  BY <1>0, <1>4 DEF OneAttach
<1>6. Backed'
  <2>1. pmounted /\ status' = "ready" => status = "ready" /\ current # k
    OBVIOUS
  <2>2. pmounted /\ status' = "attaching" => status = "attaching"
    OBVIOUS
  <2>3. \A j \in Ids : sst[j] = "lost" => sst'[j] = "lost"
    BY <1>1
  <2> QED
    BY <1>0, <1>4, <2>1, <2>2, <2>3 DEF Backed
<1>7. ASSUME ~MidAttach PROVE Parked' /\ Owned'
  <2>1. Parked'
    BY <1>0, <1>4, <1>7 DEF Parked
  <2>2. Owned'
    BY <1>0, <1>1, <1>7, ProviderAssumption DEF Owned
  <2> QED
    BY <2>1, <2>2
<1> QED
  BY <1>2, <1>3, <1>5, <1>6, <1>7, ProviderAssumption DEF ProviderInv

\* A boot succeeds.
LEMMA BootStep == ASSUME ProviderInv, NEW k \in Ids, bootResolves(k) PROVE ProviderInv'
<1>0. ProviderTypes /\ OneOwner /\ OneAttach /\ Backed /\ (~MidAttach => Parked /\ Owned)
  BY DEF ProviderInv
<1>1. sst[k] = "booting" /\ UNCHANGED <<pmounted, psource, desired, current, holds, shown>>
  BY DEF bootResolves
<1>2. CASE /\ prewarming = k /\ prewarming' = NoId /\ prewarmed' = k
           /\ sst' = [sst EXCEPT ![k] = "live"]
           /\ Show(IF status = "booting" THEN "booted" ELSE status)
           /\ UNCHANGED <<task, orphans>>
  <2>1. /\ sst' \in [Ids -> SessionStates]
        /\ \A j \in Ids : sst'[j] = IF j = k THEN "live" ELSE sst[j]
    BY <1>0, <1>2 DEF ProviderTypes, SessionStates
  <2>2. status' = status \/ (status' = "booted" /\ status = "booting")
    BY <1>2 DEF Show
  <2>3. ProviderTypes'
    BY <1>0, <1>1, <1>2, <2>1 DEF ProviderTypes
  <2>4. OneOwner'
    BY <1>0, <1>1, <1>2, <2>1, ProviderAssumption, SMTT(60) DEF OneOwner
  <2>5. \A j \in Ids : Valid(j)' <=> Valid(j)
    BY <1>2 DEF Valid
  <2>6. OneAttach' /\ Backed'
    <3>1. /\ status' = "ready" => status = "ready"
          /\ status' = "attaching" <=> status = "attaching"
      BY <2>2
    <3>2. OneAttach'
      BY <1>0, <1>1, <1>2, <2>5, <3>1 DEF OneAttach
    <3>3. \A j \in Ids : sst[j] = "lost" => sst'[j] = "lost"
      BY <1>1, <2>1
    <3>4. Backed'
      BY <1>0, <1>1, <2>5, <3>1, <3>3 DEF Backed
    <3> QED
      BY <3>2, <3>4
  <2>7. ASSUME ~MidAttach PROVE Parked' /\ Owned'
    <3>1. Parked'
      BY <1>0, <1>1, <1>2, <2>5, <2>7, ProviderAssumption DEF Parked
    <3>2. Owned'
      BY <1>0, <1>1, <1>2, <2>1, <2>7, ProviderAssumption, SMTT(60) DEF Owned, Parked
    <3> QED
      BY <3>1, <3>2
  <2> QED
    BY <2>3, <2>4, <2>6, <2>7, ProviderAssumption DEF ProviderInv
<1>3. CASE /\ k \in orphans /\ orphans' = orphans \ {k} /\ sst' = Closing({k})
           /\ UNCHANGED <<prewarming, prewarmed, status, task>>
  <2>1. k # prewarmed /\ k # current /\ k # prewarming /\ task[k].stage = "none"
    BY <1>0, <1>3, SMTT(60) DEF OneOwner
  <2> QED
    BY <1>1, <1>3, <2>1, LetGo
<1>4. CASE /\ task[k].stage = "boot" /\ ~task[k].old
           /\ task' = [task EXCEPT ![k].stage = "attach"] /\ sst' = [sst EXCEPT ![k] = "live"]
           /\ UNCHANGED <<prewarming, prewarmed, orphans, status>>
  <2>1. /\ sst' \in [Ids -> SessionStates]
        /\ \A j \in Ids : sst'[j] = IF j = k THEN "live" ELSE sst[j]
    BY <1>0, <1>4 DEF ProviderTypes, SessionStates
  <2>2. /\ task' \in [Ids -> TaskRecords] /\ task'[k].stage = "attach"
        /\ task'[k].img = task[k].img /\ task'[k].old = task[k].old
        /\ \A j \in Ids \ {k} : task'[j] = task[j]
    <3>1. task \in [Ids -> TaskRecords] /\ task[k] \in TaskRecords
      BY <1>0 DEF ProviderTypes
    <3> DEFINE r == [task[k] EXCEPT !.stage = "attach"]
    <3>2. r \in TaskRecords /\ r.stage = "attach" /\ r.img = task[k].img /\ r.old = task[k].old
      BY <3>1, BootedTask
    <3>3. task' = [task EXCEPT ![k] = r]
      BY <1>4
    <3> HIDE DEF r
    <3> QED
      BY <3>1, <3>2, <3>3
  <2>3. ProviderTypes'
    BY <1>0, <1>1, <1>4, <2>1, <2>2 DEF ProviderTypes
  <2>4. OneOwner'
    BY <1>0, <1>1, <1>4, <2>1, <2>2, SMTT(60) DEF OneOwner
  <2>5. \A j \in Ids : Valid(j)' <=> Valid(j)
    BY <1>4, <2>2 DEF Valid
  <2>6. \A j \in Ids : task'[j].img = task[j].img
    BY <2>2
  <2>7. OneAttach' /\ Backed'
    <3>1. OneAttach'
      BY <1>0, <1>1, <1>4, <2>5, <2>6 DEF OneAttach
    <3>2. \A j \in Ids : sst[j] = "lost" => sst'[j] = "lost"
      BY <1>1, <2>1
    <3>3. Backed'
      BY <1>0, <1>1, <1>4, <2>5, <3>2 DEF Backed
    <3> QED
      BY <3>1, <3>3
  <2>8. ASSUME ~MidAttach PROVE Parked' /\ Owned'
    <3>1. Parked'
      BY <1>0, <1>1, <1>4, <2>5, <2>8 DEF Parked
    <3>2. Owned'
      BY <1>0, <1>1, <1>4, <2>1, <2>2, <2>8, SMTT(60) DEF Owned
    <3> QED
      BY <3>1, <3>2
  <2> QED
    BY <2>3, <2>4, <2>7, <2>8, ProviderAssumption DEF ProviderInv
<1>5. CASE /\ task[k].stage = "boot" /\ task[k].old
           /\ task' = [task EXCEPT ![k] = NoTask] /\ sst' = Closing({k})
           /\ UNCHANGED <<prewarming, prewarmed, orphans, status>>
  BY <1>1, <1>5, AttachGivenUp
<1> QED
  BY <1>2, <1>3, <1>4, <1>5 DEF bootResolves

\* A boot fails.
LEMMA BootFailsStep == ASSUME ProviderInv, NEW k \in Ids, bootRejects(k) PROVE ProviderInv'
<1>0. OneOwner
  BY DEF ProviderInv
<1>1. sst[k] = "booting" /\ UNCHANGED <<pmounted, psource, desired, current, holds, prewarmed>>
  BY DEF bootRejects
<1>2. CASE /\ prewarming = k /\ prewarming' = NoId /\ sst' = Closing({k})
           /\ Show(IF status = "booting" THEN "error" ELSE status)
           /\ UNCHANGED <<task, orphans, shown>>
  <2>1. k # prewarmed /\ k # current /\ k \notin orphans /\ task[k].stage = "none"
    BY <1>0, <1>1, <1>2, SMTT(60) DEF OneOwner
  <2>2. status' = status \/ (status' = "error" /\ status = "booting")
    BY <1>2 DEF Show
  <2> QED
    BY <1>1, <1>2, <2>1, <2>2, LetGo
<1>3. CASE /\ k \in orphans /\ orphans' = orphans \ {k} /\ sst' = Closing({k})
           /\ UNCHANGED <<prewarming, status, shown, task>>
  <2>1. k # prewarmed /\ k # current /\ k # prewarming /\ task[k].stage = "none"
    BY <1>0, <1>1, <1>3, SMTT(60) DEF OneOwner
  <2> QED
    BY <1>1, <1>3, <2>1, LetGo
<1>4. CASE task[k].stage = "boot" /\ attachFails(k) /\ UNCHANGED <<prewarming, orphans>>
  BY <1>1, <1>4, AttachGivenUp DEF attachFails, Show
<1> QED
  BY <1>2, <1>3, <1>4 DEF bootRejects

\* An attach succeeds: it is shown if nothing superseded it.
LEMMA AttachedStep == ASSUME ProviderInv, NEW k \in Ids, attachResolves(k) PROVE ProviderInv'
<1>0. ProviderTypes /\ OneOwner /\ OneAttach /\ Backed /\ (~MidAttach => Parked /\ Owned)
  BY DEF ProviderInv
<1>1. /\ task[k].stage = "attach" /\ task' = [task EXCEPT ![k] = NoTask]
      /\ UNCHANGED <<pmounted, psource, desired, prewarming, orphans>>
  BY DEF attachResolves
<1>2. CASE task[k].old /\ sst' = Closing({k}) /\ UNCHANGED <<current, holds, prewarmed, status, shown>>
  BY <1>1, <1>2, AttachGivenUp
<1>3. CASE ~task[k].old /\ Commit(k)
  <2>0. /\ prewarmed' = NoId /\ Show("ready") /\ shown' = k
        /\ \/ sst[k] = "live" /\ current' = k /\ holds' = task[k].img /\ UNCHANGED sst
           \/ sst[k] = "late" /\ current' = NoId /\ sst' = [sst EXCEPT ![k] = "lost"]
    BY <1>3 DEF Commit
  <2>1. /\ task' \in [Ids -> TaskRecords] /\ task'[k] = NoTask /\ task'[k].stage = "none"
        /\ \A j \in Ids \ {k} : task'[j] = task[j]
    BY <1>0, <1>1, NoTaskIs DEF ProviderTypes
  <2>2. Valid(k)
    BY <1>1, <1>3 DEF Valid
  <2>3. pmounted /\ current = NoId /\ psource \in Images /\ psource = task[k].img
    BY <1>0, <1>1, <2>2 DEF OneAttach, OneOwner
  <2>4. \A j \in Ids : ~Valid(j)'
    BY <1>0, <2>1, <2>2 DEF OneAttach, Valid
  <2>5. status' = "ready"
    BY <2>0, <2>3 DEF Show
  <2>a. k \notin {prewarmed, prewarming} /\ k \notin orphans
    BY <1>0, <1>1 DEF OneOwner
  <2>b. /\ sst' \in [Ids -> SessionStates] /\ current' \in {k, NoId}
        /\ \A j \in Ids \ {k} : sst'[j] = sst[j]
        /\ sst'[k] = (IF current' = k THEN "live" ELSE "lost")
    BY <1>0, <2>0, ProviderAssumption DEF ProviderTypes, SessionStates
  <2>6. ProviderTypes'
    BY <1>0, <1>1, <2>0, <2>1, <2>b DEF ProviderTypes
  <2>7. OneOwner'
    BY <1>0, <1>1, <2>0, <2>1, <2>a, <2>b, ProviderAssumption, SMTT(60) DEF OneOwner
  <2>8. OneAttach' /\ Backed'
    <3>1. sst'[shown'] = "lost" \/ (shown' = current' /\ holds' = psource')
      BY <1>1, <2>0, <2>3, <2>b
    <3> QED
      BY <1>0, <1>1, <2>0, <2>3, <2>4, <2>5, <3>1, ProviderAssumption DEF OneAttach, Backed
  <2>9. ASSUME ~MidAttach PROVE Parked' /\ Owned'
    <3>1. prewarmed = NoId /\ prewarming = NoId
      BY <1>0, <2>2, <2>9 DEF Parked
    <3>2. Parked'
      BY <1>1, <2>0, <2>4, <3>1 DEF Parked
    <3>3. Owned'
      BY <1>0, <1>1, <2>0, <2>1, <2>3, <2>9, <2>b, <3>1, ProviderAssumption, SMTT(60) DEF Owned
    <3> QED
      BY <3>2, <3>3
  <2> QED
    BY <2>6, <2>7, <2>8, <2>9, ProviderAssumption DEF ProviderInv
<1> QED
  BY <1>2, <1>3 DEF attachResolves

\* A session dies: the current one is closed and the user told.
LEMMA DeathStep == ASSUME ProviderInv, NEW k \in Ids, sessionDies(k) PROVE ProviderInv'
<1>0. ProviderTypes /\ OneOwner /\ OneAttach /\ Backed /\ (~MidAttach => Parked /\ Owned)
  BY DEF ProviderInv
<1>1. /\ sst[k] = "live"
      /\ UNCHANGED <<pmounted, psource, desired, prewarmed, prewarming, task, orphans>>
  BY DEF sessionDies
<1>2. CASE current = k /\ current' = NoId /\ sst' = Closing({k}) /\ Show("error") /\ shown' = NoId
  <2>1. /\ k # prewarmed /\ k # prewarming /\ k \notin orphans /\ task[k].stage = "none"
        /\ \A j \in Ids : ~Valid(j)
    BY <1>0, <1>1, <1>2, ProviderAssumption, SMTT(60) DEF OneOwner, OneAttach
  <2>2. pmounted => status' = "error" /\ status # "attaching"
    BY <1>0, <1>2, <2>1 DEF Show, Backed
  <2>3. status' = status \/ (pmounted => status' = "error")
    BY <2>2
  <2>4. pmounted => status' # "ready" /\ status' # "attaching"
    BY <2>2
  <2> QED
    BY <1>1, <1>2, <2>1, <2>2, <2>3, <2>4, LetGo
<1>3. CASE /\ current # k /\ UNCHANGED <<current, holds, status, shown>>
           /\ sst' = [sst EXCEPT ![k] = IF task[k].stage = "attach" THEN "late" ELSE "dead"]
  <2>1. /\ sst' \in [Ids -> SessionStates]
        /\ \A j \in Ids \ {k} : sst'[j] = sst[j]
        /\ sst'[k] = IF task[k].stage = "attach" THEN "late" ELSE "dead"
    BY <1>0, <1>3 DEF ProviderTypes, SessionStates
  <2>2. ProviderTypes'
    BY <1>0, <1>1, <1>3, <2>1 DEF ProviderTypes
  <2>3. OneOwner'
    BY <1>0, <1>1, <1>3, <2>1, SMTT(60) DEF OneOwner
  <2>4. OneAttach' /\ Backed'
    <3>1. \A j \in Ids : sst[j] = "lost" => sst'[j] = "lost"
      BY <1>1, <2>1
    <3>2. OneAttach'
      BY <1>0, <1>1, <1>3 DEF OneAttach, Valid
    <3>3. Backed'
      BY <1>0, <1>1, <1>3, <3>1 DEF Backed, Valid
    <3> QED
      BY <3>2, <3>3
  <2>5. ASSUME ~MidAttach PROVE Parked' /\ Owned'
    <3>1. Parked'
      BY <1>0, <1>1, <1>3, <2>5 DEF Parked, Valid
    <3>2. Owned'
      BY <1>0, <1>1, <1>3, <2>1, <2>5, SMTT(60) DEF Owned
    <3> QED
      BY <3>1, <3>2
  <2> QED
    BY <2>2, <2>3, <2>4, <2>5, ProviderAssumption DEF ProviderInv
<1> QED
  BY <1>2, <1>3 DEF sessionDies

\* The invariant of the provider, for any number of sessions and images.
LEMMA ProviderStep == ProviderInv /\ [ProviderNext]_pvars => ProviderInv'
<1> SUFFICES ASSUME ProviderInv, [ProviderNext]_pvars PROVE ProviderInv'
  OBVIOUS
<1>1. ASSUME NEW k \in Ids, attachRejects(k) PROVE ProviderInv'
  BY <1>1, AttachGivenUp DEF attachRejects, attachFails, Show
<1>2. CASE UNCHANGED pvars
  <2>1. UNCHANGED <<pmounted, psource, desired, current, holds, prewarmed, prewarming, sst, task,
                    orphans, status, shown>>
    BY <1>2 DEF pvars, refs
  <2>2. /\ ProviderTypes' = ProviderTypes /\ OneOwner' = OneOwner /\ OneAttach' = OneAttach
        /\ Backed' = Backed /\ Parked' = Parked /\ Owned' = Owned
    BY <2>1 DEF ProviderTypes, OneOwner, OneAttach, Backed, Parked, Owned, Valid
  <2> QED
    BY <2>2 DEF ProviderInv
<1> QED
  BY <1>1, <1>2, PrewarmStep, ClearStep, UnmountStep, SourceStep, BootStep, BootFailsStep,
     AttachedStep, DeathStep DEF ProviderNext

\* The provider's invariant holds at the start.
LEMMA ProviderStart == ProviderInit => ProviderInv
<1> SUFFICES ASSUME ProviderInit PROVE ProviderInv
  OBVIOUS
<1>1. Min(Ids) \in Ids /\ NoId \notin Ids
  BY MinIn, ProviderAssumption
<1>2. /\ task \in [Ids -> TaskRecords]
      /\ \A k \in Ids : task[k] = NoTask /\ task[k].stage = "none"
  BY NoTaskIs DEF ProviderInit
<1>3. /\ sst \in [Ids -> SessionStates] /\ prewarming \in Ids \cup {NoId}
      /\ \A k \in Ids : IF k = prewarming THEN sst[k] = "booting" ELSE sst[k] = "free"
  BY <1>1 DEF ProviderInit, SessionStates
<1>4. /\ current = NoId /\ prewarmed = NoId /\ orphans = {} /\ pmounted = TRUE
      /\ psource = NoImage /\ desired = NoImage /\ status # "ready" /\ status # "attaching"
  BY DEF ProviderInit
<1>5. \A k \in Ids : ~Valid(k)
  BY <1>2 DEF Valid
<1>6. ProviderTypes /\ OneOwner
  BY <1>1, <1>2, <1>3, <1>4 DEF ProviderTypes, OneOwner
<1>7. OneAttach /\ Backed /\ Parked
  BY <1>4, <1>5 DEF OneAttach, Backed, Parked
<1>8. Owned
  BY <1>3 DEF Owned
<1> QED
  BY <1>6, <1>7, <1>8 DEF ProviderInv

\* What the provider shows is true after any sequence of renders, boots,
\* attaches, failures and deaths: "ready" shows the live session attached to the
\* image asked for last, or the session that died in that attach and whose
\* error provider.tsx overwrites; "attaching" has an attach of that image that
\* was not superseded.
THEOREM UiHonest == ProviderSpec => []UiTruthful
<1>1. ProviderInv => UiTruthful
  <2> SUFFICES ASSUME ProviderInv, pmounted
               PROVE  /\ status = "ready" =>
                           /\ shown # NoId /\ psource # NoImage
                           /\ \/ sst[shown] = "lost"
                              \/ shown = current /\ sst[current] = "live" /\ holds = psource
                      /\ status = "attaching" => \E k \in Tasks : ~task[k].old /\ task[k].img = psource
    BY DEF UiTruthful
  <2>1. ProviderTypes /\ OneOwner /\ OneAttach /\ Backed
    BY DEF ProviderInv
  <2>2. current # NoId => sst[current] = "live"
    BY <2>1 DEF ProviderTypes, OneOwner
  <2>3. \A k \in Ids : Valid(k) => k \in Tasks /\ ~task[k].old /\ task[k].img = psource
    BY <2>1, NoTaskIs DEF OneAttach, Valid, Tasks
  <2> QED
    BY <2>1, <2>2, <2>3, ProviderAssumption DEF Backed
<1> QED
  BY <1>1, ProviderStart, ProviderStep, PTL DEF ProviderSpec

\* Provided the prewarm prop is not switched on during an attach, no session is
\* lost: provider.tsx can still close every worker it has booted.
THEOREM NoSessionLost == ~MidAttach /\ ProviderSpec => []SessionsOwned
<1> SUFFICES ASSUME ~MidAttach PROVE ProviderSpec => []SessionsOwned
  OBVIOUS
<1>1. ProviderInv => SessionsOwned
  <2> SUFFICES ASSUME ProviderInv PROVE SessionsOwned
    OBVIOUS
  <2>1. Owned
    BY DEF ProviderInv
  <2>2. \A k \in Ids : task[k].stage # "none" => k \in Tasks
    BY NoTaskIs DEF Tasks
  <2> QED
    BY <2>1, <2>2 DEF Owned, SessionsOwned
<1> QED
  BY <1>1, ProviderStart, ProviderStep, PTL DEF ProviderSpec

----------------------------------------------------------------------------
(* UrlFs *)

\* What chunk number n of the file holds.
ChunkEnd(n) == Lowest(n * CHUNK_SIZE + CHUNK_SIZE, FileSize)

\* A chunk of the cache holds bytes of the file from where it starts, all of
\* them unless the server once sent less than it was asked for.
GoodChunk(e, short) ==
  /\ Len(e.bytes) <= ChunkEnd(e.idx) - e.idx * CHUNK_SIZE
  /\ e.bytes = Bytes(e.idx * CHUNK_SIZE, e.idx * CHUNK_SIZE + Len(e.bytes))
  /\ short \/ Len(e.bytes) = ChunkEnd(e.idx) - e.idx * CHUNK_SIZE

\* The cache holds each chunk once and keeps its limit.
CacheKept ==
  /\ ucache \in Seq([idx : Nat, bytes : Seq(Nat)])
  /\ Len(ucache) <= MAX_CACHED_CHUNKS
  /\ \A i, j \in 1..Len(ucache) : ucache[i].idx = ucache[j].idx => i = j

ChunksGood == \A i \in 1..Len(ucache) : GoodChunk(ucache[i], usurprise # {})

\* What a read has copied are the bytes from its position on, as far as the
\* chunks are what they should be.
ReadGood ==
  /\ ChunksGood
  /\ copied = Bytes(args.pos, args.pos + Len(copied))
  /\ uphase = "reading" => At <= End
  /\ uphase = "returned" => IF args.pos >= FileSize THEN copied = <<>> ELSE At = End

UrlInv ==
  /\ uphase \in {"new", "failed", "idle", "reading", "returned", "threw", "spins"}
  /\ server \in BOOLEAN /\ usurprise \subseteq {"short", "other"} /\ usize \in Nat
  /\ args \in [pos : Nat, len : Nat] /\ copied \in Seq(Nat)
  /\ uphase \notin {"new", "failed"} => server /\ usize = FileSize
  /\ CacheKept
  /\ uphase = "reading" => args.pos < FileSize
  /\ uphase = "spins" => usurprise # {}
  /\ "other" \notin usurprise => ReadGood

\* The chunk of a position.
LEMMA ChunkOf ==
  ASSUME NEW p \in Nat, NEW c \in Nat \ {0}
  PROVE  LET n == p \div c IN n \in Nat /\ n * c \in Nat /\ n * c <= p /\ p < n * c + c
BY SMTT(30)

\* Bytes is a piece of the file.
LEMMA BytesAre ==
  ASSUME NEW a \in Nat, NEW b \in Nat, a <= b
  PROVE  /\ Bytes(a, b) \in Seq(Nat) /\ Len(Bytes(a, b)) = b - a
         /\ \A i \in 1 .. (b - a) : Bytes(a, b)[i] = a + i - 1
BY SMTT(30) DEF Bytes

\* The elements of d are those of c at different places.
Rearranged(d, c) ==
  /\ Len(d) = Len(c)
  /\ \A j \in 1 .. Len(c) : \E m \in 1 .. Len(c) : d[j] = c[m]
  /\ \A j, k \in 1 .. Len(c) : j # k =>
       \E m, n \in 1 .. Len(c) : m # n /\ d[j] = c[m] /\ d[k] = c[n]

\* A chunk that is touched moves behind the others.
LEMMA Touched ==
  ASSUME NEW S, NEW c \in Seq(S), NEW i \in 1 .. Len(c)
  PROVE  Touch(c, i) \in Seq(S) /\ Rearranged(Touch(c, i), c)
<1> DEFINE m(j) == IF j < i THEN j ELSE IF j < Len(c) THEN j + 1 ELSE i
<1>0. Len(c) \in Nat
  BY LenProperties
<1>1. \A j \in 1 .. Len(c) : m(j) \in 1 .. Len(c)
  BY <1>0, SMTT(30)
<1>2. \A j, k \in 1 .. Len(c) : j # k => m(j) # m(k)
  BY <1>0, SMTT(30)
<1>3. Touch(c, i) = [j \in 1 .. Len(c) |-> c[m(j)]]
  BY DEF Touch
<1> HIDE DEF m
<1>4. \A j \in 1 .. Len(c) : c[m(j)] \in S
  BY <1>1, ElementOfSeq
<1>5. Touch(c, i) \in Seq(S) /\ Len(Touch(c, i)) = Len(c)
  BY <1>0, <1>3, <1>4, SMTT(30)
<1> QED
  BY <1>1, <1>2, <1>3, <1>5 DEF Rearranged

\* What is kept of an answer is the range that was asked for, the range but its
\* last byte, or other bytes.
BodyKept(start, end, a) ==
  \/ Surprise(start, end, a) = {} /\ Body(start, end, a) = Bytes(start, end)
  \/ Surprise(start, end, a) = {"short"} /\ Body(start, end, a) = Bytes(start, end - 1)
  \/ Surprise(start, end, a) = {"other"} /\ Body(start, end, a) \in {Bytes(0, end - start), Bytes(0, 1)}

\* fetchChunk keeps no more than that.
LEMMA BodyIs ==
  ASSUME NEW start \in Nat, NEW end \in Nat, start < end, end <= FileSize,
         NEW a \in Answers(start, end)
  PROVE  BodyKept(start, end, a)
<1> DEFINE right == Sends(206, start, end)
           whole == Sends(200, 0, FileSize)
           short == Sends(206, start, end - 1)
<1>1. CASE a = right
  <2>1. a.status # 200 /\ a.from = start /\ a.to = end
    BY <1>1, SMTT(30) DEF Sends
  <2> QED
    BY <1>1, <2>1 DEF BodyKept, Body, Surprise
<1>2. CASE a = whole
  <2>1. a.status = 200 /\ a.from = 0 /\ a.to = FileSize
    BY <1>2, SMTT(30) DEF Sends
  <2>2. CASE FileSize > end - start
    <3>1. SubSeq(Bytes(0, FileSize), start + 1, end) = Bytes(start, end)
      BY UrlAssumption, SMTT(30) DEF Bytes
    <3>2. Lowest(end, FileSize) = end
      BY UrlAssumption, SMTT(30) DEF Lowest
    <3> QED
      BY <1>2, <2>1, <2>2, <3>1, <3>2 DEF BodyKept, Body, Surprise
  <2>3. CASE ~(FileSize > end - start)
    <3>1. start = 0 /\ end = FileSize
      BY <2>3, UrlAssumption, SMTT(30)
    <3> QED
      BY <1>2, <2>1, <2>3, <3>1 DEF BodyKept, Body, Surprise
  <2> QED
    BY <2>2, <2>3
<1>3. CASE a = short
  <2>1. a.status = 206 /\ a.status # 200 /\ a.from = start /\ a.to = end - 1
    BY <1>3, SMTT(30) DEF Sends
  <2>2. a # right /\ a # whole
    BY <2>1, SMTT(30) DEF Sends
  <2> QED
    BY <2>1, <2>2 DEF BodyKept, Body, Surprise
<1>4. CASE a = Sends(206, 0, end - start) /\ a # right
  <2>1. a.status = 206 /\ a.status # 200 /\ a.from = 0 /\ a.to = end - start
    BY <1>4, SMTT(30) DEF Sends
  <2>2. a # whole
    BY <2>1, SMTT(30) DEF Sends
  <2>3. a.from # start
    <3> SUFFICES ASSUME start = 0 PROVE FALSE
      BY <2>1
    <3>1. end - start = end
      BY SMTT(30)
    <3> QED
      BY <1>4, <3>1
  <2> QED
    BY <1>4, <2>1, <2>2, <2>3 DEF BodyKept, Body, Surprise
<1>5. CASE a = Sends(200, 0, 1) /\ a # whole
  <2>1. a.status = 200 /\ a.status # 206 /\ a.from = 0 /\ a.to = 1
    BY <1>5, SMTT(30) DEF Sends
  <2>2. a # right
    BY <2>1, SMTT(30) DEF Sends
  <2>3. ~(1 > end - start)
    BY SMTT(30)
  <2> QED
    BY <1>5, <2>1, <2>2, <2>3 DEF BodyKept, Body, Surprise
<1> QED
  BY <1>1, <1>2, <1>3, <1>4, <1>5 DEF Answers

\* The place of the next byte and the end of a read are inside the file.
LEMMA AtEnd ==
  ASSUME args.pos \in Nat, args.len \in Nat, Len(copied) \in Nat, usize = FileSize
  PROVE  At \in Nat /\ args.pos <= At /\ End \in Nat /\ End <= FileSize
BY UrlAssumption, SMTT(30) DEF At, End, Lowest

\* What CopyFrom does with a chunk of len bytes that begins at start.
CopyPiece(start, len) ==
  LET off == At - start
      want == Lowest(End - At, len - off)
  IN  IF want > 0
      THEN copied' = copied \o SubSeq(Bytes(start, start + len), off + 1, off + want) /\ uphase' = uphase
      ELSE uphase' = "spins" /\ copied' = copied

\* What the turn leaves: the bytes that follow are there, or the chunk was short.
Copied(short) ==
  /\ copied' \in Seq(Nat) /\ copied' = Bytes(args.pos, args.pos + Len(copied'))
  /\ uphase' \in {"reading", "spins"}
  /\ uphase' = "reading" => At' <= End'
  /\ uphase' = "spins" => short

\* One turn of the copying: the buffer grows by the bytes that follow, or the
\* chunk came short.
LEMMA CopyStep ==
  ASSUME UrlInv, ReadGood, uphase = "reading", At < End,
         NEW start \in Nat, start <= At, At < start + CHUNK_SIZE,
         NEW len \in Nat, len <= Lowest(start + CHUNK_SIZE, FileSize) - start,
         CopyPiece(start, len),
         UNCHANGED <<args, usize>>
  PROVE  Copied(len < Lowest(start + CHUNK_SIZE, FileSize) - start)
<1> DEFINE pos == args.pos
           at == At
           end == End
           off == at - start
           want == Lowest(end - at, len - off)
<1>1. /\ pos \in Nat /\ args.len \in Nat /\ Len(copied) \in Nat /\ usize = FileSize
      /\ copied = Bytes(pos, at) /\ copied \in Seq(Nat)
  <2>1. copied = Bytes(pos, at)
    BY DEF ReadGood, At
  <2> QED
    BY <2>1, LenProperties, SMTT(30) DEF UrlInv
<1>2. /\ at \in Nat /\ pos <= at /\ end \in Nat /\ end <= FileSize /\ at < end
      /\ start <= at /\ at < start + CHUNK_SIZE
  BY <1>1, AtEnd
<1>3. IF want > 0
      THEN copied' = copied \o SubSeq(Bytes(start, start + len), off + 1, off + want) /\ uphase' = uphase
      ELSE uphase' = "spins" /\ copied' = copied
  BY DEF CopyPiece
<1> HIDE DEF pos, at, end
<1>4. want \in Int /\ off \in Nat /\ off + want <= len /\ at + want <= end
  BY <1>2, UrlAssumption, SMTT(30) DEF Lowest
<1>5. CASE want > 0
  <2>1. want \in Nat /\ at + want \in Nat /\ pos <= at + want
    BY <1>1, <1>2, <1>4, <1>5, SMTT(30)
  <2> HIDE DEF want
  <2>2. Bytes(pos, at) \o SubSeq(Bytes(start, start + len), off + 1, off + want) = Bytes(pos, at + want)
    BY <1>1, <1>2, <1>4, <2>1, SMTT(30) DEF Bytes
  <2>3. copied' = Bytes(pos, at + want) /\ uphase' = "reading"
    BY <1>1, <1>3, <1>5, <2>2
  <2>4. copied' \in Seq(Nat) /\ Len(copied') = (at + want) - pos
    BY <1>1, <2>1, <2>3, BytesAre
  <2>5. pos + Len(copied') = at + want
    BY <1>1, <1>2, <2>1, <2>4, SMTT(30)
  <2>6. At' = at + want /\ End' = end
    BY <2>5 DEF At, End, pos, end
  <2> QED
    BY <1>4, <2>3, <2>4, <2>5, <2>6 DEF pos, Copied
<1>6. CASE ~(want > 0)
  <2>1. len < Lowest(start + CHUNK_SIZE, FileSize) - start
    BY <1>2, <1>4, <1>6, UrlAssumption, SMTT(30) DEF Lowest
  <2>2. uphase' = "spins" /\ copied' = copied
    BY <1>3, <1>6
  <2> QED
    BY <1>1, <2>1, <2>2 DEF pos, at, At, Copied
<1> QED
  BY <1>5, <1>6

\* The chunk a position lies in, and what the loop asks for.
LEMMA Asked ==
  ASSUME UrlInv, uphase = "reading", At < End
  PROVE  LET n == At \div CHUNK_SIZE
             start == n * CHUNK_SIZE
             end == Lowest(start + CHUNK_SIZE, usize)
         IN  /\ n \in Nat /\ start \in Nat /\ start <= At /\ At < start + CHUNK_SIZE
             /\ end \in Nat /\ start < end /\ end <= FileSize /\ end = ChunkEnd(n) /\ usize = FileSize
<1> DEFINE n == At \div CHUNK_SIZE
           start == n * CHUNK_SIZE
<1>1. args.pos \in Nat /\ args.len \in Nat /\ Len(copied) \in Nat /\ usize = FileSize
  BY LenProperties, SMTT(30) DEF UrlInv
<1>2. At \in Nat /\ End \in Nat /\ End <= FileSize
  BY <1>1, AtEnd
<1>3. n \in Nat /\ start \in Nat /\ start <= At /\ At < start + CHUNK_SIZE
  BY <1>2, ChunkOf, UrlAssumption
<1>4. Lowest(start + CHUNK_SIZE, FileSize) = ChunkEnd(n)
  BY DEF ChunkEnd
<1> HIDE DEF start, n
<1>5. LET end == Lowest(start + CHUNK_SIZE, FileSize) IN end \in Nat /\ start < end /\ end <= FileSize
  BY <1>2, <1>3, UrlAssumption, SMTT(30) DEF Lowest
<1> QED
  BY <1>1, <1>3, <1>4, <1>5 DEF n, start

\* A hit, which moves the chunk to the end of the cache, keeps the cache good.
LEMMA TouchStep ==
  ASSUME CacheKept, NEW i \in 1..Len(ucache), ucache' = Touch(ucache, i), UNCHANGED usurprise
  PROVE  CacheKept' /\ (ChunksGood => ChunksGood')
<1> DEFINE S == [idx : Nat, bytes : Seq(Nat)]
           L == Len(ucache)
<1>0. ucache \in Seq(S)
  BY DEF CacheKept
<1> HIDE DEF S
<1>1. ucache' \in Seq(S) /\ Rearranged(ucache', ucache)
  BY <1>0, Touched
<1>2. ASSUME ChunksGood, NEW j \in 1 .. L PROVE GoodChunk(ucache'[j], usurprise' # {})
  <2>1. PICK m \in 1 .. L : ucache'[j] = ucache[m]
    BY <1>1 DEF Rearranged
  <2>2. GoodChunk(ucache[m], usurprise # {})
    BY <1>2 DEF ChunksGood
  <2> QED
    BY <2>1, <2>2
<1>3. ASSUME NEW j \in 1 .. L, NEW k \in 1 .. L, ucache'[j].idx = ucache'[k].idx
      PROVE  j = k
  <2> SUFFICES ASSUME j # k PROVE FALSE
    OBVIOUS
  <2>1. PICK m \in 1 .. L, n \in 1 .. L : m # n /\ ucache'[j] = ucache[m] /\ ucache'[k] = ucache[n]
    BY <1>1 DEF Rearranged
  <2> QED
    BY <1>3, <2>1 DEF CacheKept
<1>4. Len(ucache') = L
  BY <1>1 DEF Rearranged
<1>5. CacheKept'
  BY <1>1, <1>3, <1>4 DEF CacheKept, S
<1>6. ChunksGood => ChunksGood'
  BY <1>2, <1>4 DEF ChunksGood
<1> QED
  BY <1>5, <1>6

\* A fetched chunk, and the eviction it causes, keep the cache good.
LEMMA FetchStep ==
  ASSUME CacheKept, NEW e \in [idx : Nat, bytes : Seq(Nat)],
         \A i \in 1..Len(ucache) : ucache[i].idx # e.idx,
         ucache' = Evict(Append(ucache, e)), usurprise \subseteq usurprise'
  PROVE  CacheKept' /\ (ChunksGood /\ GoodChunk(e, usurprise' # {}) => ChunksGood')
<1> DEFINE S == [idx : Nat, bytes : Seq(Nat)]
           c == Append(ucache, e)
           L == Len(ucache)
           good == ChunksGood /\ GoodChunk(e, usurprise' # {})
<1>1. ucache \in Seq(S) /\ e \in S /\ L \in Nat /\ L <= MAX_CACHED_CHUNKS
  BY LenProperties DEF CacheKept
<1>2. ASSUME good, NEW i \in 1 .. L PROVE GoodChunk(ucache[i], usurprise' # {})
  <2>1. GoodChunk(ucache[i], usurprise # {})
    BY <1>2 DEF ChunksGood
  <2>2. usurprise # {} => usurprise' # {}
    OBVIOUS
  <2> QED
    BY <2>1, <2>2 DEF GoodChunk
<1> HIDE DEF S
<1>3. /\ c \in Seq(S) /\ Len(c) = L + 1 /\ c[L + 1] = e /\ \A i \in 1 .. L : c[i] = ucache[i]
  BY <1>1, SMTT(30)
<1>4. \A i \in 1 .. L + 1 : i \in 1 .. L \/ i = L + 1
  BY <1>1, SMTT(30)
<1>5. ASSUME good PROVE \A i \in 1 .. L + 1 : GoodChunk(c[i], usurprise' # {})
  BY <1>2, <1>3, <1>4, <1>5
<1>6. \A i, j \in 1 .. L + 1 : c[i].idx = c[j].idx => i = j
  <2>1. \A i, j \in 1 .. L : c[i].idx = c[j].idx => i = j
    BY <1>3 DEF CacheKept
  <2>2. \A i \in 1 .. L : c[i].idx # c[L + 1].idx
    BY <1>3
  <2> QED
    BY <1>4, <2>1, <2>2
<1> HIDE DEF c, good
<1>7. CASE Len(c) > MAX_CACHED_CHUNKS
  <2>1. ucache' = Tail(c)
    BY <1>7 DEF Evict, c
  <2>2. ucache' \in Seq(S) /\ Len(ucache') = L /\ \A i \in 1 .. L : ucache'[i] = c[i + 1]
    BY <1>1, <1>3, <2>1, SMTT(30)
  <2>3. \A i \in 1 .. L : i + 1 \in 1 .. L + 1
    BY <1>1, SMTT(30)
  <2>4. \A i, j \in 1 .. L : i + 1 = j + 1 => i = j
    BY <1>1, SMTT(30)
  <2>5. good => ChunksGood'
    BY <1>5, <2>2, <2>3 DEF ChunksGood
  <2>6. ASSUME NEW i \in 1 .. L, NEW j \in 1 .. L, ucache'[i].idx = ucache'[j].idx PROVE i = j
    <3>1. c[i + 1].idx = c[j + 1].idx
      BY <2>2, <2>6
    <3> QED
      BY <1>6, <2>3, <2>4, <3>1
  <2> QED
    BY <1>1, <2>2, <2>5, <2>6 DEF CacheKept, S, good
<1>8. CASE ~(Len(c) > MAX_CACHED_CHUNKS)
  <2>1. ucache' = c
    BY <1>8 DEF Evict, c
  <2>2. L + 1 <= MAX_CACHED_CHUNKS
    BY <1>1, <1>3, <1>8, UrlAssumption, SMTT(30)
  <2> QED
    BY <1>3, <1>5, <1>6, <2>1, <2>2 DEF CacheKept, ChunksGood, S, good
<1> QED
  BY <1>7, <1>8

\* The buffer of a read that has just begun.
LEMMA NothingCopied ==
  ASSUME NEW c, c = <<>>, NEW pos \in Nat
  PROVE  c \in Seq(Nat) /\ c = Bytes(pos, pos + Len(c))
BY SMTT(30) DEF Bytes

\* mount keeps the invariant of the file.
LEMMA MountStep == ASSUME UrlInv, mount PROVE UrlInv'
<1>1. PICK head \in BOOLEAN, range \in BOOLEAN, get \in {"total", "nototal", "whole", "other", "neterror"} :
        /\ range \/ get \in {"total", "nototal"} => server
        /\ usize' = probeUrl(head, range, get)
  BY DEF mount
<1>2. usize' \in {0, FileSize} /\ (usize' # 0 => usize' = FileSize /\ server)
  BY <1>1 DEF probeUrl
<1>3. uphase' = (IF usize' = 0 THEN "failed" ELSE "idle") /\ UNCHANGED <<server, ucache, args, copied, usurprise>>
  BY DEF mount
<1>4. usize' \in Nat
  BY <1>2, UrlAssumption, SMTT(30)
<1>5. CacheKept'
  BY <1>3 DEF UrlInv, CacheKept
<1>6. uphase' \in {"failed", "idle"} /\ (uphase' = "idle" => usize' # 0)
  BY <1>3
<1>7. "other" \notin usurprise' => ReadGood'
  BY <1>3, <1>6 DEF UrlInv, ReadGood, ChunksGood
<1> QED
  BY <1>2, <1>3, <1>4, <1>5, <1>6, <1>7 DEF UrlInv

\* The start of a read keeps it.
LEMMA ReadStartStep == ASSUME UrlInv, readStart PROVE UrlInv'
<1>1. /\ uphase = "idle" /\ copied' = <<>> /\ UNCHANGED <<server, usize, ucache, usurprise>>
      /\ uphase' = IF args'.pos >= usize THEN "returned" ELSE "reading"
  BY DEF readStart
<1>2. PICK pos \in 0..(FileSize + 1), len \in 0..FileSize : args' = [pos |-> pos, len |-> len]
  BY DEF readStart
<1>3. args' \in [pos : Nat, len : Nat] /\ args'.pos \in Nat /\ args'.len \in Nat
  BY <1>2, UrlAssumption, SMTT(30)
<1>4. copied' \in Seq(Nat) /\ copied' = Bytes(args'.pos, args'.pos + Len(copied'))
  BY <1>1, <1>3, NothingCopied
<1>5. /\ usize' = FileSize /\ server' /\ server' \in BOOLEAN
      /\ usurprise' \subseteq {"short", "other"}
  BY <1>1 DEF UrlInv
<1>6. CacheKept'
  BY <1>1 DEF UrlInv, CacheKept
<1>7. uphase' \in {"reading", "returned"}
  BY <1>1
<1>8. uphase' = "reading" => args'.pos < FileSize /\ At' <= End'
  BY <1>1, <1>3, <1>5, UrlAssumption, SMTT(30) DEF At, End, Lowest
<1>9. uphase' = "returned" => args'.pos >= FileSize
  BY <1>1, <1>5
<1>10. usize' \in Nat
  BY <1>5, UrlAssumption
<1>11. ASSUME "other" \notin usurprise' PROVE ReadGood'
  <2>1. ChunksGood'
    BY <1>1, <1>11 DEF UrlInv, ReadGood, ChunksGood
  <2> QED
    BY <1>1, <1>4, <1>8, <1>9, <2>1 DEF ReadGood
<1> QED
  BY <1>1, <1>3, <1>4, <1>5, <1>6, <1>7, <1>8, <1>10, <1>11 DEF UrlInv

\* Whatever a chunk holds, the buffer holds bytes.
LEMMA CopyTypes ==
  ASSUME NEW chunk \in Seq(Nat), NEW n, n * CHUNK_SIZE \in Nat, n * CHUNK_SIZE <= At,
         At \in Nat, End \in Nat, copied \in Seq(Nat), CopyFrom(chunk, n), uphase = "reading"
  PROVE  copied' \in Seq(Nat) /\ uphase' \in {"reading", "spins"}
<1> DEFINE start == n * CHUNK_SIZE
           at == At
           end == End
           off == at - start
           want == Lowest(end - at, Len(chunk) - off)
<1>1. IF want > 0 THEN copied' = copied \o SubSeq(chunk, off + 1, off + want) /\ uphase' = uphase
                  ELSE uphase' = "spins" /\ copied' = copied
  BY DEF CopyFrom
<1>2. /\ start \in Nat /\ at \in Nat /\ end \in Nat /\ start <= at /\ Len(chunk) \in Nat
  BY LenProperties
<1> HIDE DEF start, at, end
<1>3. off \in Nat /\ want \in Int /\ off + want <= Len(chunk)
  BY <1>2, SMTT(30) DEF Lowest
<1>4. CASE want > 0
  <2>1. SubSeq(chunk, off + 1, off + want) \in Seq(Nat)
    <3> HIDE DEF off, want
    <3> QED
      BY <1>2, <1>3, <1>4, SMTT(30)
  <2> QED
    BY <1>1, <1>4, <2>1, ConcatProperties
<1> QED
  BY <1>1, <1>4

\* The next chunk of a read keeps it.
LEMMA ReadChunkStep == ASSUME UrlInv, readChunk PROVE UrlInv'
<1> DEFINE n == At \div CHUNK_SIZE
           start == n * CHUNK_SIZE
           end == Lowest(start + CHUNK_SIZE, FileSize)
<1>1. uphase = "reading" /\ At < End /\ UNCHANGED <<server, usize, args>>
  BY DEF readChunk
<1>2. /\ n \in Nat /\ start \in Nat /\ start <= At /\ At < start + CHUNK_SIZE
      /\ end \in Nat /\ start < end /\ end <= FileSize /\ end = ChunkEnd(n) /\ usize = FileSize
  BY <1>1, Asked
<1>3. /\ CacheKept /\ server /\ server \in BOOLEAN /\ usurprise \subseteq {"short", "other"}
      /\ args \in [pos : Nat, len : Nat] /\ copied \in Seq(Nat) /\ args.pos < FileSize
      /\ usize \in Nat /\ ("other" \notin usurprise => ReadGood)
  BY <1>1 DEF UrlInv
<1>a. At \in Nat /\ End \in Nat
  <2>1. args.pos \in Nat /\ args.len \in Nat /\ Len(copied) \in Nat
    BY <1>3, LenProperties, SMTT(30)
  <2> QED
    BY <1>2, <2>1, AtEnd
<1>4. ASSUME ReadGood, NEW chunk, NEW len \in Nat, chunk = Bytes(start, start + len),
             len <= end - start, len = Len(chunk), CopyFrom(chunk, n)
      PROVE  Copied(len < end - start)
  <2>1. CopyPiece(start, len)
    BY <1>4 DEF CopyFrom, CopyPiece
  <2>2. UNCHANGED <<args, usize>>
    BY <1>1
  <2>3. start \in Nat /\ start <= At /\ At < start + CHUNK_SIZE /\ uphase = "reading" /\ At < End
    BY <1>1, <1>2
  <2> HIDE DEF start
  <2> QED
    BY <1>4, <2>1, <2>2, <2>3, CopyStep
<1>5. ASSUME CacheKept', usurprise' \subseteq {"short", "other"}, copied' \in Seq(Nat),
             uphase' \in {"reading", "spins", "threw"}, uphase' = "spins" => usurprise' # {},
             "other" \notin usurprise' => ReadGood'
      PROVE  UrlInv'
  BY <1>1, <1>2, <1>3, <1>5 DEF UrlInv
<1>b. ASSUME ChunksGood', NEW l, Copied(l < end - start), l < end - start => usurprise' # {}
      PROVE  ReadGood' /\ (uphase' = "spins" => usurprise' # {})
  BY <1>1, <1>b DEF Copied, ReadGood
<1>6. ASSUME NEW i \in 1..Len(ucache), ucache[i].idx = n, CopyFrom(ucache[i].bytes, n),
             ucache' = Touch(ucache, i), UNCHANGED usurprise
      PROVE  UrlInv'
  <2> DEFINE b == ucache[i].bytes
             l == Len(b)
  <2>1. b \in Seq(Nat)
    <3>1. ucache \in Seq([idx : Nat, bytes : Seq(Nat)])
      BY <1>3 DEF CacheKept
    <3>2. ucache[i] \in [idx : Nat, bytes : Seq(Nat)]
      BY <3>1, ElementOfSeq
    <3> QED
      BY <3>2
  <2>2. l \in Nat
    BY <2>1, LenProperties
  <2>3. copied' \in Seq(Nat) /\ uphase' \in {"reading", "spins"}
    BY <1>1, <1>2, <1>3, <1>6, <1>a, <2>1, CopyTypes
  <2>4. CacheKept' /\ (ChunksGood => ChunksGood')
    BY <1>3, <1>6, TouchStep
  <2>5. ASSUME "other" \notin usurprise
        PROVE  ReadGood' /\ (uphase' = "spins" => usurprise' # {})
    <3>1. ReadGood /\ ChunksGood
      BY <1>3, <2>5 DEF ReadGood
    <3>2. GoodChunk(ucache[i], usurprise # {})
      BY <3>1 DEF ChunksGood
    <3>3. l <= end - start /\ b = Bytes(start, start + l) /\ (usurprise # {} \/ l = end - start)
      BY <1>2, <1>6, <3>2 DEF GoodChunk
    <3>4. Copied(l < end - start)
      BY <1>4, <1>6, <2>2, <3>1, <3>3
    <3>5. (l < end - start) => usurprise' # {}
      <4>1. end - start \in Int
        BY <1>2, SMTT(30)
      <4>2. l < end - start => l # end - start
        <5> HIDE DEF end, start, l
        <5> QED
          BY <2>2, <4>1, SMTT(30)
      <4> QED
        BY <1>6, <3>3, <4>2
    <3> HIDE DEF l
    <3> QED
      BY <1>b, <2>4, <3>1, <3>4, <3>5
  <2>6. usurprise' \subseteq {"short", "other"} /\ (usurprise' = {} => "other" \notin usurprise)
    BY <1>3, <1>6
  <2> QED
    BY <1>5, <1>6, <2>3, <2>4, <2>5, <2>6
<1>7. ASSUME NEW a \in Answers(start, end), \A i \in 1..Len(ucache) : ucache[i].idx # n,
             CopyFrom(Body(start, end, a), n),
             ucache' = Evict(Append(ucache, [idx |-> n, bytes |-> Body(start, end, a)])),
             usurprise' = usurprise \cup Surprise(start, end, a)
      PROVE  UrlInv'
  <2> DEFINE b == Body(start, end, a)
             e == [idx |-> n, bytes |-> b]
             w == Surprise(start, end, a)
  <2>1. \/ w = {} /\ b = Bytes(start, end)
        \/ w = {"short"} /\ b = Bytes(start, end - 1)
        \/ w = {"other"} /\ b \in {Bytes(0, end - start), Bytes(0, 1)}
    <3> HIDE DEF start, end
    <3> QED
      BY <1>2, <1>7, BodyIs DEF BodyKept
  <2>2. /\ end - 1 \in Nat /\ start <= end - 1 /\ end - start \in Nat /\ (end - 1) - start \in Nat
        /\ start <= end /\ start + (end - start) = end /\ start + ((end - 1) - start) = end - 1
        /\ (end - 1) - start <= end - start /\ ~(end - start < end - start)
        /\ 0 <= end - start /\ end - start <= end - start
    <3> HIDE DEF start, end
    <3> QED
      BY <1>2, SMTT(30)
  <2>3. /\ Bytes(start, end) \in Seq(Nat) /\ Len(Bytes(start, end)) = end - start
        /\ Bytes(start, end - 1) \in Seq(Nat) /\ Len(Bytes(start, end - 1)) = (end - 1) - start
        /\ Bytes(0, end - start) \in Seq(Nat) /\ Bytes(0, 1) \in Seq(Nat)
    <3>1. 0 \in Nat /\ 1 \in Nat /\ 0 <= 1
      BY SMTT(30)
    <3> HIDE DEF start, end
    <3> QED
      BY <1>2, <2>2, <3>1, BytesAre
  <2>4. b \in Seq(Nat)
    BY <2>1, <2>3
  <2>5. usurprise \subseteq usurprise' /\ usurprise' \subseteq {"short", "other"}
    BY <1>3, <1>7, <2>1
  <2>6. e \in [idx : Nat, bytes : Seq(Nat)] /\ e.idx = n /\ e.bytes = b
    BY <1>2, <2>4
  <2>7. copied' \in Seq(Nat) /\ uphase' \in {"reading", "spins"}
    BY <1>1, <1>2, <1>3, <1>7, <1>a, <2>4, CopyTypes
  <2>8. CacheKept' /\ (ChunksGood /\ GoodChunk(e, usurprise' # {}) => ChunksGood')
    <3>1. ucache' = Evict(Append(ucache, e)) /\ \A i \in 1..Len(ucache) : ucache[i].idx # e.idx
      BY <1>7, <2>6
    <3> HIDE DEF e
    <3> QED
      BY <1>3, <2>5, <2>6, <3>1, FetchStep
  <2>9. ASSUME "other" \notin usurprise'
        PROVE  ReadGood' /\ (uphase' = "spins" => usurprise' # {})
    <3>1. ReadGood /\ ChunksGood /\ "other" \notin w
      BY <1>3, <1>7, <2>9 DEF ReadGood
    <3>2. CASE w = {} /\ b = Bytes(start, end)
      <4> DEFINE l == end - start
      <4>1. l \in Nat /\ l <= end - start /\ b = Bytes(start, start + l) /\ Len(b) = l
        BY <2>2, <2>3, <3>2
      <4>2. Copied(l < end - start)
        <5> HIDE DEF b, start, l
        <5> QED
          BY <1>4, <1>7, <3>1, <4>1 DEF b
      <4>3. GoodChunk(e, usurprise' # {})
        BY <1>2, <2>6, <4>1 DEF GoodChunk
      <4> QED
        BY <1>b, <2>2, <2>8, <3>1, <4>2, <4>3
    <3>3. CASE w = {"short"} /\ b = Bytes(start, end - 1)
      <4> DEFINE l == (end - 1) - start
      <4>1. l \in Nat /\ l <= end - start /\ b = Bytes(start, start + l) /\ Len(b) = l
        BY <2>2, <2>3, <3>3
      <4>2. Copied(l < end - start)
        <5> HIDE DEF b, start, l
        <5> QED
          BY <1>4, <1>7, <3>1, <4>1 DEF b
      <4>3. usurprise' # {}
        BY <1>7, <3>3
      <4>4. GoodChunk(e, usurprise' # {})
        BY <1>2, <2>6, <4>1, <4>3 DEF GoodChunk
      <4> QED
        BY <1>b, <2>8, <3>1, <4>2, <4>3, <4>4
    <3> QED
      BY <2>1, <3>1, <3>2, <3>3
  <2>10. usurprise' = {} => "other" \notin usurprise'
    OBVIOUS
  <2> QED
    BY <1>5, <2>5, <2>7, <2>8, <2>9, <2>10
<1>8. ASSUME uphase' = "threw", UNCHANGED <<copied, ucache, usurprise>>
      PROVE  UrlInv'
  <2>1. CacheKept'
    BY <1>3, <1>8 DEF CacheKept
  <2>2. "other" \notin usurprise' => ReadGood'
    BY <1>1, <1>3, <1>8 DEF ReadGood, ChunksGood
  <2> QED
    BY <1>3, <1>5, <1>8, <2>1, <2>2
<1>9. end = Lowest(start + CHUNK_SIZE, usize)
  BY <1>2
<1> HIDE DEF end
<1> QED
  BY <1>6, <1>7, <1>8, <1>9 DEF readChunk, n, start

\* The end of a read keeps it.
LEMMA ReadEndsStep == ASSUME UrlInv, readEnds PROVE UrlInv'
<1>1. /\ uphase = "reading" /\ At >= End /\ uphase' = "returned"
      /\ UNCHANGED <<server, usize, ucache, args, copied, usurprise>>
  BY DEF readEnds
<1>2. At \in Int /\ End \in Int
  BY <1>1, LenProperties, UrlAssumption, SMTT(30) DEF UrlInv, At, End, Lowest
<1>3. ASSUME At <= End PROVE At = End
  BY <1>1, <1>2, <1>3, SMTT(30)
<1>4. At' = At /\ End' = End /\ args.pos < FileSize /\ args.pos \in Nat
  BY <1>1 DEF UrlInv, At, End
<1>5. ~(args.pos >= FileSize)
  BY <1>4, UrlAssumption, SMTT(30)
<1>6. CacheKept'
  BY <1>1 DEF UrlInv, CacheKept
<1>7. ASSUME "other" \notin usurprise' PROVE ReadGood'
  <2>1. ReadGood
    BY <1>1, <1>7 DEF UrlInv
  <2>2. At = End
    BY <1>1, <1>3, <2>1 DEF ReadGood
  <2>3. ChunksGood'
    BY <1>1, <2>1 DEF ReadGood, ChunksGood
  <2> QED
    BY <1>1, <1>4, <1>5, <2>1, <2>2, <2>3 DEF ReadGood
<1> QED
  BY <1>1, <1>6, <1>7 DEF UrlInv

\* Delivering what was read keeps it.
LEMMA DeliveredStep == ASSUME UrlInv, delivered PROVE UrlInv'
<1>1. /\ uphase \in {"returned", "threw"} /\ uphase' = "idle"
      /\ args' = [pos |-> 0, len |-> 0] /\ copied' = <<>> /\ UNCHANGED <<server, usize, ucache, usurprise>>
  BY DEF delivered
<1>2. args' \in [pos : Nat, len : Nat] /\ args'.pos \in Nat
  BY <1>1, SMTT(30)
<1>3. copied' \in Seq(Nat) /\ copied' = Bytes(args'.pos, args'.pos + Len(copied'))
  BY <1>1, <1>2, NothingCopied
<1>4. CacheKept'
  BY <1>1 DEF UrlInv, CacheKept
<1>5. ASSUME "other" \notin usurprise' PROVE ReadGood'
  <2>1. ChunksGood'
    BY <1>1, <1>5 DEF UrlInv, ReadGood, ChunksGood
  <2> QED
    BY <1>1, <1>3, <2>1 DEF ReadGood
<1> QED
  BY <1>1, <1>2, <1>3, <1>4, <1>5 DEF UrlInv

\* Every step keeps the invariant of the file.
LEMMA UrlStep == ASSUME UrlInv, [UrlNext]_urlvars PROVE UrlInv'
<1>1. CASE UNCHANGED urlvars
  <2>1. CacheKept' = CacheKept
    BY <1>1 DEF CacheKept, urlvars
  <2>2. At' = At /\ End' = End
    BY <1>1 DEF At, End, urlvars
  <2>3. ReadGood' = ReadGood
    BY <1>1, <2>2 DEF ReadGood, ChunksGood, urlvars
  <2> QED
    BY <1>1, <2>1, <2>3 DEF UrlInv, urlvars
<1> QED
  BY <1>1, MountStep, ReadStartStep, ReadChunkStep, ReadEndsStep, DeliveredStep DEF UrlNext

\* The invariant of the file holds at the start.
LEMMA UrlStart == UrlInit => UrlInv
<1> SUFFICES ASSUME UrlInit PROVE UrlInv
  OBVIOUS
<1>1. ucache = <<>> /\ copied = <<>> /\ args = [pos |-> 0, len |-> 0] /\ uphase = "new" /\ usize = 0
  BY DEF UrlInit
<1>2. args \in [pos : Nat, len : Nat] /\ args.pos \in Nat /\ usize \in Nat
  BY <1>1, SMTT(30)
<1>3. copied \in Seq(Nat) /\ copied = Bytes(args.pos, args.pos + Len(copied))
  BY <1>1, <1>2, NothingCopied
<1>4. CacheKept /\ ChunksGood
  BY <1>1, UrlAssumption, SMTT(30) DEF CacheKept, ChunksGood
<1>5. ReadGood
  BY <1>1, <1>3, <1>4 DEF ReadGood
<1> QED
  BY <1>1, <1>2, <1>3, <1>4, <1>5 DEF UrlInv, UrlInit

\* A read of a mounted URL that returns has put exactly the bytes of the file
\* it was asked for into the buffer unless the server sent bytes of another
\* place, the loop of stream_ops.read runs on only over a chunk that was not
\* what was asked for, and the cache of getChunk keeps its limit and no chunk
\* twice: for every size of the file, of a chunk and of the cache.
THEOREM UrlReadsWhole == UrlSpec => []ReadsWhole
<1>1. UrlInv => ReadsWhole
  <2> SUFFICES ASSUME UrlInv PROVE ReadsWhole
    OBVIOUS
  <2>1. uphase \notin {"new", "failed"} => server /\ usize = FileSize
    BY DEF UrlInv
  <2>2. ASSUME uphase = "returned", "other" \notin usurprise
        PROVE  copied = IF args.pos >= FileSize THEN <<>>
                        ELSE Bytes(args.pos, Lowest(args.pos + args.len, FileSize))
    <3>1. ReadGood
      BY <2>2 DEF UrlInv
    <3> QED
      BY <2>1, <2>2, <3>1 DEF ReadGood, At, End
  <2> QED
    BY <2>1, <2>2 DEF UrlInv, CacheKept, ReadsWhole
<1> QED
  BY <1>1, UrlStart, UrlStep, PTL DEF UrlSpec


============================================================================
