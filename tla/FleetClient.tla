---------------------------- MODULE FleetClient ----------------------------
(***************************************************************************)
(* What a client says about itself: the announce, sample and evaluation    *)
(* timers of MonitorWorker, the pause switch, and a process that comes and *)
(* goes (apps/client/monitor_worker.cpp).                                  *)
(*                                                                         *)
(* Publishing and receiving are one step here: the delay of a message is   *)
(* the time before that step, and a message that is lost is a step not     *)
(* taken.  Samples are best effort; announces and reports are reliable.    *)
(***************************************************************************)
EXTENDS FleetTransport

VARIABLES
    up,       \* hosts with a client process
    session,  \* which process of the host it is, or was
    paused_,  \* paused_
    held      \* revision of bundle_, 0 before the first

worker == <<up, session, paused_, held>>

WorkerTypeOK ==
    /\ up \subseteq Hosts
    /\ session \in [Hosts -> 0 .. MaxSession]
    /\ paused_ \in [Hosts -> BOOLEAN]
    /\ held \in [Hosts -> Revisions]

(* The server may start before the clients or long after them. *)
WorkerInit(revision) ==
    /\ up \in SUBSET Hosts
    /\ session = [h \in Hosts |-> 0]
    /\ paused_ \in [Hosts -> BOOLEAN]
    /\ held \in [Hosts -> 0 .. revision]
    /\ \A h \in Hosts \ up : ~paused_[h] /\ held[h] = 0

(* Slip: a paused client stops announcing. *)
AnnounceUnlessPaused(h) ==
    /\ h \in up
    /\ ~paused_[h]
    /\ receive_announce(<<h, session[h]>>, paused_[h])
    /\ UNCHANGED worker

(* Every 10 s, paused or not. *)
announce(h) ==
    /\ h \in up
    /\ receive_announce(<<h, session[h]>>, paused_[h])
    /\ UNCHANGED worker

(* Every 2 s. *)
sample_resources(h) ==
    /\ h \in up
    /\ ~paused_[h]
    /\ receive_sample(h)
    /\ UNCHANGED worker

(* Every 30 s.  While paused the report stays on this machine. *)
evaluate_compliance(h) ==
    /\ h \in up
    /\ ~paused_[h]
    /\ receive_report(h, held[h])
    /\ UNCHANGED worker

(* The next announce tells the server, not this. *)
set_reporting_paused(h) ==
    /\ h \in up
    /\ paused_' = [paused_ EXCEPT ![h] = ~@]
    /\ UNCHANGED <<up, session, held, transport>>

(* A bundle the server has published arrives: applied, and evaluated at    *)
(* once, unless its revision is the one held.                              *)
on_bundle(h, revision) ==
    /\ h \in up
    /\ revision # held[h]
    /\ held' = [held EXCEPT ![h] = revision]
    /\ \/ ~paused_[h] /\ receive_report(h, revision)
       \/ paused_[h] /\ UNCHANGED transport
    /\ UNCHANGED <<up, session, paused_>>

(* A new process announces at once, reporting, with no bundle.  Bounded by *)
(* MaxSession.                                                             *)
start(h) ==
    /\ h \notin up
    /\ session[h] < MaxSession
    /\ up' = up \cup {h}
    /\ session' = [session EXCEPT ![h] = @ + 1]
    /\ UNCHANGED <<paused_, held>>
    /\ receive_announce(<<h, session'[h]>>, FALSE)

(* The process ends, by an exit, a crash or a power cut, and its pause and *)
(* its bundle with it.  The server believes in its writer until the lease  *)
(* runs out.                                                               *)
stop(h) ==
    /\ h \in up
    /\ up' = up \ {h}
    /\ paused_' = [paused_ EXCEPT ![h] = FALSE]
    /\ held' = [held EXCEPT ![h] = 0]
    /\ UNCHANGED <<session, transport>>

WorkerStep(h, revisions) ==
    \/ announce(h)
    \/ sample_resources(h)
    \/ evaluate_compliance(h)
    \/ set_reporting_paused(h)
    \/ \E revision \in revisions : on_bundle(h, revision)
    \/ start(h)
    \/ stop(h)
============================================================================
