------------------------------- MODULE Provider -------------------------------
(* AnyfsProvider (react/src/provider.tsx): the component that boots sessions, *)
(* parks one for the next image, attaches the image of its `source` prop and   *)
(* closes what it no longer needs, while the prop changes at any time.         *)
(*                                                                             *)
(* An action is an effect, or the settling of a promise with the microtasks    *)
(* behind it.  setState is taken to apply at once.                             *)
EXTENDS Integers, FiniteSets, FiniteSetsExt

CONSTANTS Ids,        \* session objects (bound); a closed one is used again
          Images,     \* values of the source prop, compared by identity
          NoImage,    \* the prop is null
          MidAttach   \* the prewarm prop may be switched on during an attach

NoId == 0

ASSUME ProviderAssumption ==
  /\ Ids \subseteq Nat \ {NoId} /\ Ids # {}
  /\ NoImage \notin Images /\ MidAttach \in BOOLEAN

VARIABLES
  pmounted,     \* the component is mounted
  psource,      \* the source prop
  desired, current, prewarmed, prewarming, inflightSrc,   \* the refs
  holds,        \* the image the current session was attached to
  sst,          \* a session: "free", "booting", "live", "dead", "closed", and
                \* "late" and "lost" of one that dies during its attach
  task,         \* the attach under way with a session: image, stage, superseded
  orphans,      \* boots to be closed when they settle (unmount)
  status,       \* state.status
  shown         \* state.session

refs == <<desired, current, prewarmed, prewarming, inflightSrc>>
pvars == <<pmounted, psource, refs, holds, sst, task, orphans, status, shown>>

NoTask == [img |-> NoImage, stage |-> "none", old |-> FALSE]
Tasks == {k \in Ids : task[k] # NoTask}

(* A session object nobody refers to any more. *)
Fresh == {k \in Ids : sst[k] \in {"free", "closed", "lost"} /\ task[k] = NoTask /\ k # shown}
NewId == Min(Fresh)

(* The mount: the prewarm effect boots a session or not. *)
ProviderInit ==
  /\ pmounted = TRUE /\ psource = NoImage
  /\ desired = NoImage /\ current = NoId /\ prewarmed = NoId /\ inflightSrc = NoImage
  /\ holds = NoImage /\ task = [k \in Ids |-> NoTask] /\ orphans = {} /\ shown = NoId
  /\ \/ /\ prewarming = NoId /\ status = "idle" /\ sst = [k \in Ids |-> "free"]
     \/ /\ prewarming = Min(Ids) /\ status = "booting"
        /\ sst = [k \in Ids |-> IF k = Min(Ids) THEN "booting" ELSE "free"]

(* The sessions after those of K were closed. *)
Closing(K) == [k \in Ids |-> IF k \in K THEN "closed" ELSE sst[k]]

(* Every attach under way is superseded: gen.current is bumped. *)
Superseded == [k \in Ids |-> IF k \in Tasks THEN [task[k] EXCEPT !.old = TRUE] ELSE NoTask]

-----------------------------------------------------------------------------
(* The prewarm prop is switched on: startPark, unless something is there. *)
prewarmEffect ==
  /\ pmounted /\ (status = "attaching" => MidAttach)
  /\ prewarmed = NoId /\ prewarming = NoId /\ current = NoId
  /\ Fresh # {}
  /\ prewarming' = NewId /\ sst' = [sst EXCEPT ![NewId] = "booting"]
  /\ status' = IF status \in {"ready", "attaching"} THEN status ELSE "booting"
  /\ UNCHANGED <<pmounted, psource, desired, current, prewarmed, inflightSrc, holds, task,
                 orphans, shown>>

(* The source effect with a null source: Close. *)
sourceCleared ==
  /\ pmounted
  /\ psource' = NoImage /\ desired' = NoImage /\ inflightSrc' = NoImage
  /\ task' = Superseded
  /\ current' = NoId /\ holds' = NoImage /\ sst' = Closing({current} \ {NoId})
  /\ shown' = NoId
  /\ status' = IF status = "booting" THEN "booting"
               ELSE IF prewarmed # NoId \/ prewarming # NoId THEN "booted" ELSE "idle"
  /\ UNCHANGED <<pmounted, prewarmed, prewarming, orphans>>

(* "Already attached, or already attaching, this exact source object." *)
Dedup(x) == desired = x /\ (current # NoId \/ inflightSrc = x)

(* consumeSession, for an attach of x: the parked session, its boot under way, *)
(* or a fresh boot.                                                            *)
consumeSession(x) ==
  LET start(k, stage) == [Superseded EXCEPT ![k] = [img |-> x, stage |-> stage, old |-> FALSE]]
      closed == Closing({current} \ {NoId})
  IN \/ /\ prewarmed # NoId
        /\ prewarmed' = NoId /\ task' = start(prewarmed, "attach") /\ sst' = closed
        /\ UNCHANGED prewarming
     \/ /\ prewarmed = NoId /\ prewarming # NoId
        /\ prewarming' = NoId /\ task' = start(prewarming, "boot") /\ sst' = closed
        /\ UNCHANGED prewarmed
     \/ /\ prewarmed = NoId /\ prewarming = NoId /\ Fresh # {}
        /\ task' = start(NewId, "boot") /\ sst' = [closed EXCEPT ![NewId] = "booting"]
        /\ UNCHANGED <<prewarmed, prewarming>>

(* The source effect with an image; it also runs again with the same one. *)
sourceEffect(x) ==
  /\ pmounted /\ psource' = x
  /\ \/ Dedup(x) /\ UNCHANGED <<refs, holds, sst, task, status, shown>>
     \/ /\ ~Dedup(x)
        /\ desired' = x /\ inflightSrc' = x /\ current' = NoId /\ holds' = NoImage
        /\ consumeSession(x)
        /\ status' = "attaching" /\ shown' = NoId
  /\ UNCHANGED <<pmounted, orphans>>

(* setState does nothing once the component is gone. *)
Show(st) == status' = IF pmounted THEN st ELSE status

-----------------------------------------------------------------------------
(* A boot succeeds: the session is parked, closed, or goes on to its attach. *)
bootResolves(k) ==
  /\ sst[k] = "booting"
  /\ \/ /\ prewarming = k
        /\ prewarming' = NoId /\ prewarmed' = k
        /\ sst' = [sst EXCEPT ![k] = "live"]
        /\ Show(IF status = "booting" THEN "booted" ELSE status)
        /\ UNCHANGED <<task, orphans>>
     \/ /\ k \in orphans /\ orphans' = orphans \ {k} /\ sst' = Closing({k})
        /\ UNCHANGED <<prewarming, prewarmed, status, task>>
     \/ /\ task[k].stage = "boot"
        /\ \/ /\ ~task[k].old
              /\ task' = [task EXCEPT ![k].stage = "attach"]
              /\ sst' = [sst EXCEPT ![k] = "live"]
           \/ /\ task[k].old
              /\ task' = [task EXCEPT ![k] = NoTask] /\ sst' = Closing({k})
        /\ UNCHANGED <<prewarming, prewarmed, orphans, status>>
  /\ UNCHANGED <<pmounted, psource, desired, current, inflightSrc, holds, shown>>

(* The catch clause of the attach with session k. *)
attachFails(k) ==
  /\ task' = [task EXCEPT ![k] = NoTask] /\ sst' = Closing({k})
  /\ inflightSrc' = IF inflightSrc = task[k].img THEN NoImage ELSE inflightSrc
  /\ \/ task[k].old /\ UNCHANGED <<status, shown>>
     \/ ~task[k].old /\ Show("error") /\ shown' = NoId

(* A boot fails (prewarm has closed its session then). *)
bootRejects(k) ==
  /\ sst[k] = "booting"
  /\ \/ /\ prewarming = k
        /\ prewarming' = NoId /\ sst' = Closing({k})
        /\ Show(IF status = "booting" THEN "error" ELSE status)
        /\ UNCHANGED <<task, orphans, inflightSrc, shown>>
     \/ /\ k \in orphans /\ orphans' = orphans \ {k} /\ sst' = Closing({k})
        /\ UNCHANGED <<prewarming, inflightSrc, status, shown, task>>
     \/ /\ task[k].stage = "boot" /\ attachFails(k)
        /\ UNCHANGED <<prewarming, orphans>>
  /\ UNCHANGED <<pmounted, psource, desired, current, holds, prewarmed>>

(* The attach with session k becomes the current one, and its listener is    *)
(* registered.  On a session that died meanwhile onFatal calls it at once:   *)
(* it lets go of the session, closes it and sets the error, and the setState *)
(* behind it replaces the error.                                             *)
Commit(k) ==
  /\ \/ sst[k] = "live" /\ current' = k /\ holds' = task[k].img /\ UNCHANGED sst
     \/ /\ sst[k] = "late" /\ current' = NoId /\ holds' = NoImage
        /\ sst' = [sst EXCEPT ![k] = "lost"]
  /\ prewarmed' = NoId
  /\ inflightSrc' = IF inflightSrc = task[k].img THEN NoImage ELSE inflightSrc
  /\ Show("ready") /\ shown' = k

(* Mutant: a superseded attach is not noticed when it succeeds. *)
attachResolvesAnyway(k) ==
  /\ task[k].stage = "attach" /\ sst[k] \in {"live", "late"}
  /\ task' = [task EXCEPT ![k] = NoTask]
  /\ Commit(k)
  /\ UNCHANGED <<pmounted, psource, desired, prewarming, orphans>>

(* The attach succeeds, even after the death of the session, as a            *)
(* NativeSession's has no watchdog: it is committed, or the session closed   *)
(* when the attach was superseded.                                           *)
attachResolves(k) ==
  /\ task[k].stage = "attach" /\ sst[k] \in {"live", "late"}
  /\ task' = [task EXCEPT ![k] = NoTask]
  /\ \/ /\ task[k].old
        /\ sst' = Closing({k})
        /\ UNCHANGED <<current, holds, prewarmed, inflightSrc, status, shown>>
     \/ ~task[k].old /\ Commit(k)
  /\ UNCHANGED <<pmounted, psource, desired, prewarming, orphans>>

(* The attach rejects, or withTimeout does. *)
attachRejects(k) ==
  /\ task[k].stage = "attach"
  /\ attachFails(k)
  /\ UNCHANGED <<pmounted, psource, desired, current, holds, prewarmed, prewarming, orphans>>

(* A session dies.  Of the current one the provider hears (onFatal); an      *)
(* attach under way may still succeed.                                       *)
sessionDies(k) ==
  /\ sst[k] = "live"
  /\ \/ /\ current = k
        /\ current' = NoId /\ holds' = NoImage /\ sst' = Closing({k})
        /\ Show("error") /\ shown' = NoId
     \/ /\ current # k
        /\ sst' = [sst EXCEPT ![k] = IF task[k].stage = "attach" THEN "late" ELSE "dead"]
        /\ UNCHANGED <<current, holds, status, shown>>
  /\ UNCHANGED <<pmounted, psource, desired, prewarmed, prewarming, inflightSrc, task, orphans>>

(* The cleanup at unmount. *)
unmount ==
  /\ pmounted /\ pmounted' = FALSE
  /\ task' = Superseded
  /\ sst' = Closing(({IF current # NoId THEN current ELSE prewarmed}) \ {NoId})
  /\ orphans' = orphans \cup ({prewarming} \ {NoId})
  /\ desired' = NoImage /\ prewarmed' = NoId /\ prewarming' = NoId
  /\ current' = NoId /\ holds' = NoImage
  /\ UNCHANGED <<psource, inflightSrc, status, shown>>

-----------------------------------------------------------------------------
ProviderNext ==
  \/ prewarmEffect \/ sourceCleared \/ unmount
  \/ \E x \in Images : sourceEffect(x)
  \/ \E k \in Ids : \/ bootResolves(k) \/ bootRejects(k) \/ attachResolves(k)
                    \/ attachRejects(k) \/ sessionDies(k)

(* The attach timeout fires.  Nothing is assumed of a boot. *)
ProviderFairness == \A k \in Ids : WF_pvars(attachRejects(k))

ProviderSpec == ProviderInit /\ [][ProviderNext]_pvars /\ ProviderFairness

-----------------------------------------------------------------------------
(* No worker is lost: a session that was booted and not closed is the current *)
(* one, the parked one, a boot the provider waits for, or in an attach under  *)
(* way.  It holds as long as the prewarm prop is not switched on during an    *)
(* attach: see provider.tsx, 386 and 441.                                     *)
SessionsOwned ==
  \A k \in Ids : sst[k] \in {"booting", "live", "dead", "late"} =>
    k \in {current, prewarmed, prewarming} \cup orphans \cup Tasks

(* What the user sees is true: "ready" shows the current session, alive and   *)
(* attached to the image that was asked for last, and "attaching" has an      *)
(* attach of that image under way that was not superseded.  One "ready" is    *)
(* not: of a session that died during its attach the listener of 391 sets the *)
(* error, and 405 sets "ready" over it.                                       *)
UiTruthful ==
  pmounted =>
    /\ status = "ready" =>
         /\ shown # NoId /\ psource # NoImage
         /\ sst[shown] = "lost" \/ (shown = current /\ sst[current] = "live" /\ holds = psource)
    /\ status = "attaching" =>
         \E k \in Tasks : ~task[k].old /\ task[k].img = psource

(* The attach timeout bounds how long the user waits once a session is booted. *)
AttachEnds ==
  []<>(\/ status # "attaching" \/ ~pmounted
       \/ \E k \in Tasks : ~task[k].old /\ task[k].stage = "boot")

(* wasm-session.ts says of boot and attach: "the provider's attach timeout    *)
(* bounds those".                                                             *)
BootBounded == []<>(status # "attaching" \/ ~pmounted)
=============================================================================
