---------------------------- MODULE ServerFleet ----------------------------
(***************************************************************************)
(* The fleet view of ServerController: who is expected, who was heard, and *)
(* the rows on screen (apps/server/server_controller.cpp).                 *)
(*                                                                         *)
(* A behaviour is one run of the server process: Init is the state after   *)
(* start() has loaded whatever lists the configuration held.               *)
(***************************************************************************)
EXTENDS FleetTransport

CONSTANT FailingSaves  \* bound: whether the save of an edit may fail

ASSUME FailingSavesAssumption == FailingSaves \in BOOLEAN

VARIABLES
    registry,   \* registry_
    expected,   \* expected_
    published,  \* published_, as its revision and the hosts it assigns
    fleet,      \* fleet_
    host_list,  \* what the Scripts tab drew at the last fleet_changed()
    box_open    \* an edit could not be saved, and waits in its error box

lists == <<expected, published, box_open>>
controller == <<registry, expected, published, fleet, host_list, box_open>>

Bundle == [revision : Revisions, assigned : SUBSET Hosts]

ControllerTypeOK ==
    /\ registry \in [Hosts -> Entry]
    /\ expected \subseteq Hosts
    /\ published \in Bundle
    /\ fleet \in [Hosts -> Row]
    /\ host_list \in [Hosts -> (HostState \cup {"Unlisted"}) \X BOOLEAN]
    /\ box_open \in BOOLEAN

effective_expected_hosts(hosts, bundle) == hosts \cup bundle.assigned

(* start() has reconciled once.  Before a first publish nothing is assigned. *)
ControllerInit ==
    /\ registry = [h \in Hosts |-> Absent]
    /\ expected \in SUBSET Hosts
    /\ published \in Bundle
    /\ published.revision = 0 => published.assigned = {}
    /\ fleet = reconcile(effective_expected_hosts(expected, published),
                         registry, published.revision)
    /\ host_list = Drawn(fleet)
    /\ box_open = FALSE

(* The view of what the handler leaves behind; fleet_changed() is emitted, *)
(* and the Scripts tab redraws, only if the rows differ in what it shows.  *)
reconcile_now ==
    /\ fleet' = reconcile(effective_expected_hosts(expected', published'),
                          registry', published'.revision)
    /\ host_list' = IF states_changed(fleet, fleet') THEN Drawn(fleet') ELSE host_list

---------------------------------------------------------------------------
(* The queued functors, in the order they were posted. *)
take(kind) ==
    /\ posted # <<>>
    /\ Head(posted).kind = kind
    /\ posted' = Tail(posted)
    /\ UNCHANGED <<alive, live_hosts, receiving, losing, pending>>

on_announce ==
    /\ take("announce")
    /\ LET m == Head(posted)
       IN  registry' = [registry EXCEPT ![m.host] = record_announce(@, m.paused)]
    /\ UNCHANGED lists
    /\ reconcile_now

on_report ==
    /\ take("report")
    /\ LET m == Head(posted)
       IN  registry' = [registry EXCEPT ![m.host] = record_report(@, m.revision)]
    /\ UNCHANGED lists
    /\ reconcile_now

(* A slip: a lost host is forgotten, expected or not. *)
LostIsForgotten ==
    /\ take("lost")
    /\ registry' = [registry EXCEPT ![Head(posted).host] = mark_lost(@)]
    /\ UNCHANGED lists
    /\ reconcile_now

(* Only the hosts typed into expected_ keep their entry. *)
on_client_lost ==
    /\ take("lost")
    /\ LET h == Head(posted).host
       IN  registry' = IF h \in expected THEN registry
                       ELSE [registry EXCEPT ![h] = mark_lost(@)]
    /\ UNCHANGED lists
    /\ reconcile_now

(* The 100 ms flush.  It does not reconcile. *)
apply_coalesced ==
    /\ pending # {}
    /\ pending' = {}
    /\ registry' = [h \in Hosts |-> IF h \in pending THEN record_sample(registry[h])
                                    ELSE registry[h]]
    /\ UNCHANGED <<alive, live_hosts, receiving, losing, posted,
                   lists, fleet, host_list>>

(* The 1 s timer. *)
reconcile_timer ==
    /\ UNCHANGED <<registry, lists, transport>>
    /\ reconcile_now

(* Nothing has been heard of h for longer than the lease. *)
lease_passes(h) ==
    /\ registry[h].fresh
    /\ registry' = [registry EXCEPT ![h].fresh = FALSE]
    /\ UNCHANGED <<lists, fleet, host_list, transport>>

---------------------------------------------------------------------------
(* An edit is saved and the view reconciled.  A save that fails opens an   *)
(* error box first, and every other handler runs on while it is open; only *)
(* the operator, who has to close it, cannot edit (fleet_window.cpp:232).  *)
SaveAndReconcile ==
    \/ reconcile_now /\ UNCHANGED box_open
    \/ FailingSaves /\ box_open' = TRUE /\ UNCHANGED <<fleet, host_list>>

change_expected(hosts) ==
    /\ ~box_open
    /\ expected' = hosts
    /\ UNCHANGED <<registry, published, transport>>
    /\ SaveAndReconcile

set_expected_hosts(hosts) == change_expected(hosts)

(* Adding a host that is listed only changes its address. *)
add_expected_host(h) == change_expected(expected \cup {h})

remove_expected_host(h) == h \in expected /\ change_expected(expected \ {h})

(* publish(): the draft may assign any hosts.  Bounded by MaxRevision. *)
publish(assigned) ==
    /\ ~box_open
    /\ published.revision < MaxRevision
    /\ published' = [revision |-> published.revision + 1, assigned |-> assigned]
    /\ UNCHANGED <<registry, expected, transport>>
    /\ SaveAndReconcile

(* A slip: the handler the box was opened in goes no further. *)
ClosedIsDone ==
    /\ box_open
    /\ box_open' = FALSE
    /\ UNCHANGED <<registry, expected, published, fleet, host_list, transport>>

(* The operator closes the box, and the handler of the edit goes on. *)
close_box ==
    /\ box_open
    /\ box_open' = FALSE
    /\ UNCHANGED <<registry, expected, published, transport>>
    /\ reconcile_now

ControllerStep ==
    \/ on_announce
    \/ on_report
    \/ on_client_lost
    \/ apply_coalesced
    \/ reconcile_timer
    \/ \E h \in Hosts : lease_passes(h)
    \/ \E hosts \in SUBSET Hosts : set_expected_hosts(hosts)
    \/ \E h \in Hosts : add_expected_host(h) \/ remove_expected_host(h)
    \/ \E assigned \in SUBSET Hosts : publish(assigned)
    \/ close_box
===========================================================================
