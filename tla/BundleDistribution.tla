------------------------ MODULE BundleDistribution ------------------------
(***************************************************************************)
(* Template bundles end to end: what the operator publishes, what each     *)
(* client evaluates, what its reports make the server believe, and what    *)
(* is left of that when the server or a client restarts.                   *)
(***************************************************************************)
EXTENDS BundleReceiver

VARIABLES
    reported,  \* the report the writer of each client retains
    reports,   \* the report of each client on its way
    applied    \* the report recorded last for each client

believed == <<reported, reports, applied>>

vars == <<publisher, receiver, believed>>

(* A report names the revision evaluated.  The whole bundle is kept here,  *)
(* as a history: the server sees no more of it than the revision.          *)
Init ==
    /\ PublisherInit
    /\ ReceiverInit
    /\ reported = [c \in Clients |-> {}]
    /\ reports = [c \in Clients |-> {}]
    /\ applied = [c \in Clients |-> {}]

(* ComplianceReport is TRANSIENT_LOCAL, KEEP_LAST(1): a report on its way  *)
(* is replaced by a newer one.                                             *)
publish_report(c, b) ==
    /\ reported' = [reported EXCEPT ![c] = {b}]
    /\ reports' = [reports EXCEPT ![c] = {b}]

(* on_bundle() of the worker evaluates at once a bundle that it applied;   *)
(* nothing is reported while the client is paused.                         *)
apply_bundle(c) ==
    /\ on_bundle(c)
    /\ \/ UNCHANGED <<reported, reports>>
       \/ held'[c] # held[c] /\ publish_report(c, held'[c])
    /\ UNCHANGED <<publisher, applied>>

(* The 30 s timer of a client that is not paused. *)
evaluate_compliance(c) ==
    /\ phase[c] = "started"
    /\ publish_report(c, held[c])
    /\ UNCHANGED <<publisher, receiver, applied>>

(* on_report() and record_report() of the registry. *)
on_report(c) ==
    /\ reports[c] # {}
    /\ applied' = [applied EXCEPT ![c] = reports[c]]
    /\ reports' = [reports EXCEPT ![c] = {}]
    /\ UNCHANGED <<publisher, receiver, reported>>

(* mark_lost() of the registry, which FleetLiveness times. *)
mark_lost(c) ==
    /\ applied' = [applied EXCEPT ![c] = {}]
    /\ UNCHANGED <<publisher, receiver, reported, reports>>

(* A client process ends, and its writer with it; its last report may have *)
(* reached the server's event loop or not.                                 *)
stop_client(c) ==
    /\ destroy(c)
    /\ reported' = [reported EXCEPT ![c] = {}]
    /\ reports' \in {reports, [reports EXCEPT ![c] = {}]}
    /\ UNCHANGED <<publisher, applied>>

Edit ==
    /\ \E content \in Contents : edit_draft(content)
    /\ UNCHANGED <<receiver, believed>>

Publish ==
    /\ publish
    /\ offer
    /\ UNCHANGED <<phase, retained, replaying, delivering, queue, held, believed>>

(* The registry is memory of one server process; the reports that the      *)
(* clients' writers retain reach the next one.                             *)
Restart ==
    /\ restart_server \/ crash_in_publish
    /\ offer
    /\ reports' = reported
    /\ applied' = [c \in Clients |-> {}]
    /\ UNCHANGED <<phase, retained, replaying, delivering, queue, held, reported>>

Transport(c) ==
    \/ construct(c)
    \/ register_handler(c)
    \/ replay_retained(c)
    \/ handle_bundle(c)
    \/ post_bundle(c)

Next ==
    \/ Edit
    \/ Publish
    \/ Restart
    \/ \E c \in Clients :
          \/ Transport(c) /\ UNCHANGED <<publisher, believed>>
          \/ stop_client(c)
          \/ apply_bundle(c)
          \/ evaluate_compliance(c)
          \/ on_report(c)
          \/ mark_lost(c)

Spec == Init /\ [][Next]_vars

(***************************************************************************)
(* Fairness.  The threads of a client run, and it is not paused for ever.  *)
(* Reports get through, strongly: a server is not restarted for ever       *)
(* before it handles the report that the client's writer retains for it.   *)
(***************************************************************************)
Fairness ==
    \A c \in Clients :
        /\ WF_vars(register_handler(c) /\ UNCHANGED <<publisher, believed>>)
        /\ WF_vars(replay_retained(c) /\ UNCHANGED <<publisher, believed>>)
        /\ WF_vars(handle_bundle(c) /\ UNCHANGED <<publisher, believed>>)
        /\ WF_vars(post_bundle(c) /\ UNCHANGED <<publisher, believed>>)
        /\ WF_vars(apply_bundle(c))
        /\ WF_vars(evaluate_compliance(c))
        /\ SF_vars(on_report(c))

FairSpec == Spec /\ Fairness

---------------------------------------------------------------------------
(* Every variable has its type. *)
TypeOK ==
    /\ PublisherTypeOK
    /\ ReceiverTypeOK
    /\ reported \in [Clients -> OptionalBundle]
    /\ reports \in [Clients -> OptionalBundle]
    /\ applied \in [Clients -> OptionalBundle]

(* Every bundle that is anywhere: on disk, on the wire, in a queue, in     *)
(* force, or in what the server was told.                                  *)
Queued(q) == {q[i] : i \in DOMAIN q}

BundlesAt(c) ==
    retained[c] \cup replaying[c] \cup delivering[c] \cup Queued(queue[c])
        \cup {held[c]} \cup reported[c] \cup reports[c] \cup applied[c]

Everywhere ==
    {Blank, published} \cup bundle_file \cup offered \cup UNION {BundlesAt(c) : c \in Clients}

(* A revision is the name of one content, and published_ is the newest, as *)
(* long as no server started from an older bundle than the last published: *)
(* what lets a client skip a revision that it has, and the fleet view call *)
(* a host up to date by comparing two integers (monitor_worker.cpp:225,    *)
(* fleet.cpp:70), with crashes, failed saves and replays.                  *)
RevisionNamesContent ==
    ~lost => \A a, b \in Everywhere :
                /\ a.revision = b.revision => a = b
                /\ a.revision <= published.revision

(* A host that the fleet view does not draw as stale has evaluated the     *)
(* rules that are published, whatever the server went through.             *)
AppliedRevision(c) == IF applied[c] = {} THEN {0} ELSE {b.revision : b \in applied[c]}
ShownStale(c) == published.revision \notin AppliedRevision(c)
UpToDateMeansEvaluated ==
    \A c \in Clients : ~ShownStale(c) => applied[c] \subseteq {published}

(* A client that runs on, on a server that lost nothing: in the end a host *)
(* is shown stale whenever it evaluates anything but the published bundle, *)
(* and a host that evaluates it is shown up to date again and again.       *)
Steady(c) == phase[c] = "started" /\ ~lost
FleetTellsTheTruth ==
    \A c \in Clients :
        <>[]Steady(c) =>
            /\ <>[](held[c] # published => ShownStale(c))
            /\ []<>(held[c] = published => ~ShownStale(c))

(* A client that has started and handled all it was sent follows every     *)
(* bundle published from then on, revisions it never saw in between or not *)
(* (KEEP_LAST(1) of the bundle topic).                                     *)
CaughtUp(c) == delivering[c] = {} /\ queue[c] = <<>> /\ c \in untaken
RunningClientsFollow ==
    \A c \in Clients :
        [](CaughtUp(c) /\ [](Steady(c) /\ Readable(published))
               => <>[](held[c] = published))

(* A client that joins at any time and runs on ends up with the bundle     *)
(* that is published (fast_dds_transport.cpp:505, and the design's topic   *)
(* table: late joiners receive the current bundle automatically).          *)
LateJoinersConverge ==
    \A c \in Clients :
        <>[](Steady(c) /\ Readable(published)) => <>[](held[c] = published)
===========================================================================
