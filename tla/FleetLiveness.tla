--------------------------- MODULE FleetLiveness ---------------------------
(***************************************************************************)
(* Who is there: the clients, the way to the server and the fleet view it  *)
(* draws, with clients that stop, restart and pause, leases that are lost  *)
(* and regained, and an operator who edits the list of expected hosts and  *)
(* publishes template assignments meanwhile.                               *)
(***************************************************************************)
EXTENDS ServerFleet, FleetClient

vars == <<transport, controller, worker>>

Init == TransportInit /\ ControllerInit /\ WorkerInit(published.revision)

(* Liveliness is asserted by the participant of a process that is up. *)
regain(h) == h \in up /\ regain_lease(<<h, session[h]>>)

Next ==
    \/ ControllerStep /\ UNCHANGED worker
    \/ \E h \in Hosts :
          WorkerStep(h, 1 .. published.revision) /\ UNCHANGED controller
    \/ /\ \/ post_announce
          \/ post_lost
          \/ \E w \in Writer : lose_lease(w)
          \/ \E h \in Hosts : regain(h)
       /\ UNCHANGED <<controller, worker>>

Spec == Init /\ [][Next]_vars

(***************************************************************************)
(* Fairness.  The server's event loop and timers run, the callbacks post,  *)
(* time passes, the lease of a process that ended runs out, and a client   *)
(* that is up announces every 10 s.  That the announce gets through again  *)
(* and again is what reliable delivery promises; it is strong fairness     *)
(* because the queue's bound and the receiving thread's slot refuse it     *)
(* for a moment.  Nothing is assumed of samples, reports or the operator.  *)
(***************************************************************************)
EventLoop == on_announce \/ on_report \/ on_client_lost

Fairness ==
    /\ WF_vars(EventLoop /\ UNCHANGED worker)
    /\ WF_vars(apply_coalesced /\ UNCHANGED worker)
    /\ WF_vars(reconcile_timer /\ UNCHANGED worker)
    /\ SF_vars(post_announce /\ UNCHANGED <<controller, worker>>)
    /\ SF_vars(post_lost /\ UNCHANGED <<controller, worker>>)
    /\ \A h \in Hosts :
          /\ SF_vars(announce(h) /\ UNCHANGED controller)
          /\ WF_vars(lease_passes(h) /\ UNCHANGED worker)
    /\ \A w \in Writer :
          SF_vars(/\ ~(w[1] \in up /\ session[w[1]] = w[2])
                  /\ lose_lease(w)
                  /\ UNCHANGED <<controller, worker>>)

FairSpec == Spec /\ Fairness

---------------------------------------------------------------------------
Effective == effective_expected_hosts(expected, published)

(* Every variable has its type. *)
TypeOK == TransportTypeOK /\ ControllerTypeOK /\ WorkerTypeOK

(* The rows agree with the lists at every moment between two handlers, not *)
(* one timer tick later: an expected host, typed in or assigned a          *)
(* template, has a row, and only a host that is not expected reads         *)
(* Unexpected (server_controller.cpp:260, the reconcile at each edit).     *)
(* While the box of an edit that could not be saved is open, the rows may  *)
(* still be those of the lists before it, until any handler reconciles;    *)
(* when it is closed they agree again.                                     *)
RowsMatchLists ==
    ~box_open =>
        \A h \in Hosts :
            h \in Effective <=> fleet[h].state \in {"Missing", "Offline", "Online", "Paused"}

(* The Scripts tab shows each host's state and whether it is enrolled as   *)
(* the fleet view has them, though it redraws only on fleet_changed(): the *)
(* capabilities are part of the comparison (server_controller.cpp:645).    *)
HostListIsCurrent == host_list = Drawn(fleet)

(* A row that says its host was heard. *)
Seen == {"Offline", "Online", "Paused", "Unexpected"}

(* A host typed into the expected list whose row once said that it was     *)
(* seen, before it was typed in or since, goes on to say so in this run of *)
(* the server, whatever its client does and however long a box is open;    *)
(* and what the server learned of it, its capabilities included, is kept   *)
(* (server_controller.cpp:328).                                            *)
ListedHostsAreRemembered ==
    [][\A h \in expected \cap expected' :
          /\ fleet[h].state \in Seen => fleet'[h].state \in Seen
          /\ registry[h].known => registry'[h].known
          /\ registry[h].caps => registry'[h].caps]_vars

(* The same of every expected host, one that a template assignment makes   *)
(* expected included: Missing means never seen (server_controller.cpp:328, *)
(* and the design's table of states).                                      *)
MissingMeansNeverSeen ==
    [][\A h \in Effective \cap Effective' :
          fleet[h].state # "Missing" => fleet'[h].state # "Missing"]_vars

(* "Reporting, but not in the expected list" (the design's table of        *)
(* states): a host that reads Offline comes to read Unexpected only if it  *)
(* is heard again (server_controller.cpp:219, where it is taken off the    *)
(* list).                                                                  *)
UnexpectedIsReporting ==
    [][\A h \in Hosts :
          fleet[h].state = "Offline" /\ fleet'[h].state = "Unexpected"
              => registry'[h].fresh]_vars

(* A client that stays up, unpaused, on a host the operator listed is      *)
(* shown Online and with its capabilities, and again after every glitch.   *)
StayingUpIsSeen ==
    \A h \in Hosts :
        <>[](h \in up /\ ~paused_[h] /\ h \in expected)
            => []<>(fleet[h].state = "Online" /\ fleet[h].caps)

(* A client that stays paused on an expected host is shown Paused again    *)
(* and again, and in the end never as Online: neither a sample nor a       *)
(* report that was on its way clears the pause for good.                   *)
StayingPausedIsSeen ==
    \A h \in Hosts :
        <>[](h \in up /\ paused_[h] /\ h \in Effective)
            => /\ []<>(fleet[h].state = "Paused")
               /\ <>[](fleet[h].state # "Online")

(* A host whose client is gone for good stops reading Online or Paused. *)
GoneIsNoticed ==
    \A h \in Hosts :
        <>[](h \notin up) => <>[](fleet[h].state \notin {"Online", "Paused"})

(* What is there is told apart in the end: present, paused and gone.       *)
PresenceIsSeen == StayingUpIsSeen /\ StayingPausedIsSeen /\ GoneIsNoticed

(* A host that nobody expects leaves the view once the server has handled  *)
(* the loss of its client, with no functor of it left to run: it does not  *)
(* linger for ever (server_controller.cpp:336, why mark_lost() is there).  *)
LostHostsLeave ==
    \A h \in Hosts :
        LET unwanted == h \notin up /\ h \notin Effective
            told == receiving = {} /\ posted = <<[kind |-> "lost", host |-> h]>>
        IN  <>[]unwanted /\ <>(unwanted /\ told) => <>[](fleet[h].state = "Unlisted")
============================================================================
