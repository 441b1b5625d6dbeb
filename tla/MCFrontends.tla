----------------------------- MODULE MCFrontends ------------------------------
(* The editions' front ends, one per behaviour, for TLC. *)
EXTENDS NodeWasm, BrowserWasm, Provider, UrlFs

VARIABLE subject    \* what runs in this behaviour, fixed in its first state

everything == <<subject, nodevars, webvars, pvars, urlvars>>

\* What does not run keeps one initial value.
Init ==
  /\ subject \in {"disks", "files", "web", "provider", "url"}
  /\ NodeInit /\ WebInit /\ ProviderInit /\ UrlInit
  /\ subject # "provider" => prewarming = NoId
  /\ subject # "url" => server

\* Bound: an application of the Node edition looks at its disks or reads files,
\* not both in one behaviour.
NodeStep ==
  /\ subject \in {"disks", "files"}
  /\ NodeNext
  /\ \A s \in Sessions :
       job'[App(s)].op \notin IF subject = "disks" THEN {"open"} ELSE {"enter", "text"}

Next ==
  /\ \/ NodeStep /\ UNCHANGED <<webvars, pvars, urlvars>>
     \/ subject = "web" /\ WebNext /\ UNCHANGED <<nodevars, pvars, urlvars>>
     \/ subject = "provider" /\ ProviderNext /\ UNCHANGED <<nodevars, webvars, urlvars>>
     \/ subject = "url" /\ UrlNext /\ UNCHANGED <<nodevars, webvars, pvars>>
  /\ UNCHANGED subject

\* The fair actions are not enabled in the initial state that a part keeps
\* where it does not run.
Spec ==
  /\ Init /\ [][Next]_everything
  /\ NodeFairness /\ WebFairness /\ ProviderFairness

\* Nothing depends on whose failure the last error message tells of, on what a
\* session that is closed or a module that is dead had, or on the number of an
\* error that is not the want of room for a text.
Gone(s) == st[s] \in {"none", "closed"}
Told(d) == IF d[2] < 0 /\ job[d[1]].op # "text" THEN <<d[1], -1>> ELSE d
View ==
  <<subject, process, queue, job, waits,
    [i \in DOMAIN doneq |-> Told(doneq[i])],
    IF failure THEN {} ELSE <<up, g_handles, fdtab, held>>,
    [s \in Sessions |->
       IF Gone(s) THEN {} ELSE <<st[s], handle[s], fds[s], visited[s], s \in fatal>>],
    webvars, pvars, urlvars>>

\* Whatever the API thread or the worker does, the calls that have a watchdog
\* are answered: those of the Node session but the attach, those of the browser
\* session but the boot, the attach and what queues behind them, and the attach
\* of the provider once its session is booted.
CallsAnswered == NodeCallsReturn /\ WebCallsReturn /\ AttachEnds
=============================================================================
