---------------------------- MODULE FleetProofs ----------------------------
(***************************************************************************)
(* Proofs about FleetLiveness, for every set of hosts and every bound.     *)
(***************************************************************************)
EXTENDS FleetLiveness, TLAPS

---------------------------------------------------------------------------
(* The registry's operators and reconcile().                               *)

LEMMA EntryFields ==
    ASSUME NEW e \in Entry
    PROVE  /\ e.known \in BOOLEAN /\ e.fresh \in BOOLEAN /\ e.caps \in BOOLEAN
           /\ e.paused \in BOOLEAN /\ e.applied \in Revisions
           /\ e.fresh => e.known
           /\ e.caps => e.known
           /\ e = [known |-> e.known, fresh |-> e.fresh, caps |-> e.caps,
                   paused |-> e.paused, applied |-> e.applied]
<1>1. 0 \in Revisions
  BY MaxRevisionAssumption DEF Revisions
<1>2. CASE e = Absent
  BY <1>1, <1>2 DEF Absent
<1>3. CASE e \in Known
  BY <1>3 DEF Known
<1> QED BY <1>2, <1>3 DEF Entry

LEMMA RegistryOperators ==
    ASSUME NEW e \in Entry
    PROVE  /\ \A paused \in BOOLEAN : record_announce(e, paused) \in Entry
           /\ record_sample(e) \in Entry
           /\ \A revision \in Revisions : record_report(e, revision) \in Entry
           /\ mark_lost(e) \in Entry
           /\ e.fresh => [e EXCEPT !.fresh = FALSE] \in Entry
<1>1. 0 \in Revisions
  BY MaxRevisionAssumption DEF Revisions
<1>2. touch(e) \in Known
  <2>1. CASE e = Absent
    BY <1>1, <2>1 DEF Absent, Known, touch
  <2>2. CASE e \in Known
    BY <2>2 DEF Known, touch
  <2> QED BY <2>1, <2>2 DEF Entry
<1>3. \A k \in Known, v \in BOOLEAN, n \in Revisions :
         /\ [k EXCEPT !.caps = TRUE, !.paused = v] \in Known
         /\ [k EXCEPT !.applied = n] \in Known
         /\ [k EXCEPT !.fresh = FALSE] \in Known
  BY DEF Known
<1>4. e.fresh => e \in Known
  <2>1. e = Absent => ~e.fresh
    BY DEF Absent
  <2> QED BY <2>1 DEF Entry
<1>5. \A paused \in BOOLEAN : record_announce(e, paused) \in Entry
  <2>1. ASSUME NEW paused \in BOOLEAN
        PROVE  [touch(e) EXCEPT !.caps = TRUE, !.paused = paused] \in Known
    BY <1>1, <1>2, <1>3, Zenon
  <2> QED BY <2>1, Zenon DEF record_announce, Entry
<1>6. record_sample(e) \in Entry
  BY <1>2 DEF record_sample, Entry
<1>7. \A revision \in Revisions : record_report(e, revision) \in Entry
  BY <1>2, <1>3 DEF record_report, Entry
<1>8. mark_lost(e) \in Entry
  BY DEF mark_lost, Entry
<1>9. e.fresh => [e EXCEPT !.fresh = FALSE] \in Entry
  <2>1. e.fresh => [e EXCEPT !.fresh = FALSE] \in Known
    BY <1>1, <1>3, <1>4, TRUE \in BOOLEAN, Zenon
  <2> QED BY <2>1 DEF Entry
<1> QED BY <1>5, <1>6, <1>7, <1>8, <1>9

(* Nothing but mark_lost() forgets that a client was heard, or what it can *)
(* do.                                                                     *)
LEMMA RegistryKeeps ==
    ASSUME NEW e \in Entry
    PROVE  /\ \A paused \in BOOLEAN : /\ record_announce(e, paused).known
                                      /\ record_announce(e, paused).caps
           /\ record_sample(e).known
           /\ record_sample(e).caps = e.caps
           /\ \A revision \in Revisions :
                 /\ record_report(e, revision).known
                 /\ record_report(e, revision).caps = e.caps
           /\ [e EXCEPT !.fresh = FALSE].known = e.known
           /\ [e EXCEPT !.fresh = FALSE].caps = e.caps
<1>1. touch(e) \in Known /\ touch(e).caps = e.caps
  <2>1. CASE e = Absent
    <3>1. 0 \in Revisions
      BY MaxRevisionAssumption DEF Revisions
    <3> QED BY <2>1, <3>1 DEF Absent, Known, touch
  <2>2. CASE e \in Known
    BY <2>2 DEF Known, touch
  <2> QED BY <2>1, <2>2 DEF Entry
<1>2. \A k \in Known, v \in BOOLEAN, n \in Revisions :
         /\ [k EXCEPT !.caps = TRUE, !.paused = v].known
         /\ [k EXCEPT !.caps = TRUE, !.paused = v].caps
         /\ [k EXCEPT !.applied = n].known
         /\ [k EXCEPT !.applied = n].caps = k.caps
  BY DEF Known
<1>3. \A k \in Known : k.known
  BY DEF Known
<1>4. /\ [e EXCEPT !.fresh = FALSE].known = e.known
      /\ [e EXCEPT !.fresh = FALSE].caps = e.caps
  <2>1. CASE e = Absent
    BY <2>1 DEF Absent
  <2>2. CASE e \in Known
    BY <2>2 DEF Known
  <2> QED BY <2>1, <2>2 DEF Entry
<1>5. \A paused \in BOOLEAN : /\ record_announce(e, paused).known
                              /\ record_announce(e, paused).caps
  <2>1. 0 \in Revisions
    BY MaxRevisionAssumption DEF Revisions
  <2>2. ASSUME NEW paused \in BOOLEAN
        PROVE  LET a == [touch(e) EXCEPT !.caps = TRUE, !.paused = paused]
               IN  a.known /\ a.caps
    BY <1>1, <1>2, <2>1, Zenon
  <2> QED BY <2>2, Zenon DEF record_announce
<1>6. record_sample(e).known /\ record_sample(e).caps = e.caps
  BY <1>1, <1>3 DEF record_sample
<1>7. \A revision \in Revisions : /\ record_report(e, revision).known
                                  /\ record_report(e, revision).caps = e.caps
  BY <1>1, <1>2 DEF record_report
<1> QED BY <1>4, <1>5, <1>6, <1>7

(* What a row says of its host. *)
LEMMA RowOf ==
    ASSUME NEW listed \in BOOLEAN, NEW e \in Entry
    PROVE  /\ state_of(listed, e) \in HostState \cup {"Unlisted"}
           /\ listed <=> state_of(listed, e) \in {"Missing", "Offline", "Online", "Paused"}
           /\ state_of(listed, e) \in Seen <=> e.known
<1>1. e.known \in BOOLEAN /\ e.fresh \in BOOLEAN /\ e.paused \in BOOLEAN
  BY EntryFields
<1> QED BY <1>1 DEF state_of, HostState, Seen

LEMMA RowInView ==
    ASSUME NEW hosts, NEW e \in Entry, NEW h
    PROVE  /\ h \in hosts <=> state_of(h \in hosts, e)
                              \in {"Missing", "Offline", "Online", "Paused"}
           /\ state_of(h \in hosts, e) \in Seen <=> e.known
<1>1. (h \in hosts) \in BOOLEAN
  OBVIOUS
<1>2. CASE h \in hosts
  <2>1. (h \in hosts) = TRUE
    BY <1>2
  <2> QED BY <1>1, <1>2, <2>1, RowOf
<1>3. CASE h \notin hosts
  <2>1. (h \in hosts) = FALSE
    BY <1>3
  <2> QED BY <1>1, <1>3, <2>1, RowOf
<1> QED BY <1>2, <1>3

LEMMA ViewType ==
    ASSUME NEW listed, NEW reg \in [Hosts -> Entry], NEW current
    PROVE  reconcile(listed, reg, current) \in [Hosts -> Row]
<1>1. ASSUME NEW h \in Hosts
      PROVE  [state |-> state_of(h \in listed, reg[h]), caps |-> reg[h].caps,
              stale |-> reg[h].known /\ reg[h].applied # current] \in Row
  <2>1. reg[h] \in Entry /\ reg[h].caps \in BOOLEAN
    BY EntryFields
  <2>2. (h \in listed) \in BOOLEAN
    OBVIOUS
  <2>3. state_of(h \in listed, reg[h]) \in HostState \cup {"Unlisted"}
    BY <2>1, <2>2, RowOf
  <2> QED BY <2>1, <2>3 DEF Row
<1> QED BY <1>1 DEF reconcile

---------------------------------------------------------------------------
(* Type correctness.                                                       *)

LEMMA ReconcileType ==
    ASSUME ControllerTypeOK, reconcile_now, registry' \in [Hosts -> Entry]
    PROVE  /\ fleet' \in [Hosts -> Row]
           /\ host_list' \in [Hosts -> (HostState \cup {"Unlisted"}) \X BOOLEAN]
<1>1. fleet' \in [Hosts -> Row]
  BY ViewType DEF reconcile_now
<1>2. Drawn(fleet') \in [Hosts -> (HostState \cup {"Unlisted"}) \X BOOLEAN]
  BY <1>1 DEF Drawn, Row
<1> QED BY <1>1, <1>2 DEF reconcile_now, ControllerTypeOK

LEMMA TakeType ==
    ASSUME TransportTypeOK, NEW kind, take(kind)
    PROVE  /\ TransportTypeOK'
           /\ Head(posted) \in Message
           /\ Head(posted).kind = kind
  BY DEF take, TransportTypeOK

LEMMA MessageFields ==
    ASSUME NEW m \in Message
    PROVE  /\ m.host \in Hosts
           /\ m.kind = "announce" => m.paused \in BOOLEAN
           /\ m.kind = "report" => m.revision \in Revisions
  BY DEF Message

LEMMA ControllerStepType ==
    ASSUME TransportTypeOK, ControllerTypeOK, ControllerStep
    PROVE  TransportTypeOK' /\ ControllerTypeOK'
<1> USE DEF ControllerTypeOK
<1>1. CASE on_announce
  <2>1. /\ TransportTypeOK'
        /\ Head(posted).host \in Hosts
        /\ Head(posted).paused \in BOOLEAN
    BY <1>1, TakeType, MessageFields DEF on_announce
  <2>2. registry' \in [Hosts -> Entry]
    BY <1>1, <2>1, RegistryOperators DEF on_announce
  <2> QED BY <1>1, <2>1, <2>2, ReconcileType DEF on_announce, lists
<1>2. CASE on_report
  <2>1. /\ TransportTypeOK'
        /\ Head(posted).host \in Hosts
        /\ Head(posted).revision \in Revisions
    BY <1>2, TakeType, MessageFields DEF on_report
  <2>2. registry' \in [Hosts -> Entry]
    BY <1>2, <2>1, RegistryOperators DEF on_report
  <2> QED BY <1>2, <2>1, <2>2, ReconcileType DEF on_report, lists
<1>3. CASE on_client_lost
  <2>1. TransportTypeOK' /\ Head(posted).host \in Hosts
    BY <1>3, TakeType, MessageFields DEF on_client_lost
  <2>2. registry' \in [Hosts -> Entry]
    BY <1>3, <2>1, RegistryOperators DEF on_client_lost
  <2> QED BY <1>3, <2>1, <2>2, ReconcileType DEF on_client_lost, lists
<1>4. CASE apply_coalesced
  <2>1. registry' \in [Hosts -> Entry]
    BY <1>4, RegistryOperators DEF apply_coalesced
  <2> QED BY <1>4, <2>1 DEF apply_coalesced, lists, TransportTypeOK
<1>5. CASE reconcile_timer
  BY <1>5, ReconcileType DEF reconcile_timer, lists, transport, TransportTypeOK
<1>6. ASSUME NEW h \in Hosts, lease_passes(h)
      PROVE  TransportTypeOK' /\ ControllerTypeOK'
  <2>1. [registry[h] EXCEPT !.fresh = FALSE] \in Entry
    BY <1>6, RegistryOperators DEF lease_passes
  <2> QED BY <1>6, <2>1 DEF lease_passes, lists, transport, TransportTypeOK
<1>7. ASSUME NEW hosts \in SUBSET Hosts, change_expected(hosts)
      PROVE  TransportTypeOK' /\ ControllerTypeOK'
  BY <1>7, ReconcileType DEF change_expected, SaveAndReconcile, transport, TransportTypeOK
<1>8. ASSUME NEW assigned \in SUBSET Hosts, publish(assigned)
      PROVE  TransportTypeOK' /\ ControllerTypeOK'
  <2>1. published' \in Bundle
    BY <1>8, MaxRevisionAssumption DEF publish, Bundle, Revisions
  <2> QED
    BY <1>8, <2>1, ReconcileType DEF publish, SaveAndReconcile, transport, TransportTypeOK
<1>10. CASE close_box
  BY <1>10, ReconcileType DEF close_box, transport, TransportTypeOK
<1>9. \A h \in Hosts : expected \cup {h} \in SUBSET Hosts /\ expected \ {h} \in SUBSET Hosts
  OBVIOUS
<1> QED
  BY <1>1, <1>2, <1>3, <1>4, <1>5, <1>6, <1>7, <1>8, <1>9, <1>10
  DEF ControllerStep, set_expected_hosts, add_expected_host, remove_expected_host

LEMMA WorkerStepType ==
    ASSUME TransportTypeOK, WorkerTypeOK, NEW h \in Hosts,
           WorkerStep(h, 1 .. published.revision), published \in Bundle
    PROVE  TransportTypeOK' /\ WorkerTypeOK'
<1> USE DEF WorkerTypeOK, worker
<1>1. ASSUME NEW s \in 0 .. MaxSession, NEW paused \in BOOLEAN,
             receive_announce(<<h, s>>, paused)
      PROVE  TransportTypeOK'
  <2>1. LossOf(<<h, s>>) \subseteq Message
    BY DEF LossOf, Message
  <2>2. <<h, s>> \in Writer
    BY DEF Writer
  <2>3. receiving' \subseteq Message
    BY <1>1 DEF receive_announce, Message
  <2>4. losing' \subseteq Message
    BY <1>1, <2>1 DEF receive_announce, TransportTypeOK
  <2> QED BY <1>1, <2>2, <2>3, <2>4 DEF receive_announce, TransportTypeOK
<1>2. ASSUME NEW revision \in Revisions, receive_report(h, revision)
      PROVE  TransportTypeOK'
  BY <1>2 DEF receive_report, post, TransportTypeOK, Message
<1>3. CASE announce(h)
  BY <1>1, <1>3 DEF announce
<1>4. CASE sample_resources(h)
  BY <1>4 DEF sample_resources, receive_sample, TransportTypeOK
<1>5. CASE evaluate_compliance(h)
  BY <1>2, <1>5 DEF evaluate_compliance
<1>6. CASE set_reporting_paused(h)
  BY <1>6 DEF set_reporting_paused, transport, TransportTypeOK
<1>7. ASSUME NEW revision \in 1 .. published.revision, on_bundle(h, revision)
      PROVE  TransportTypeOK' /\ WorkerTypeOK'
  <2>1. revision \in Revisions
    BY MaxRevisionAssumption DEF Bundle, Revisions
  <2> QED BY <1>2, <1>7, <2>1 DEF on_bundle, transport, TransportTypeOK
<1>8. CASE start(h)
  <2>1. session[h] \in 0 .. MaxSession /\ session'[h] = session[h] + 1
    BY <1>8 DEF start
  <2>2. session[h] < MaxSession
    BY <1>8 DEF start
  <2>3. session'[h] \in 0 .. MaxSession
    BY <2>1, <2>2, MaxSessionAssumption
  <2> QED BY <1>1, <1>8, <2>3 DEF start
<1>9. CASE stop(h)
  BY <1>9, MaxRevisionAssumption DEF stop, transport, TransportTypeOK, Revisions
<1> QED BY <1>3, <1>4, <1>5, <1>6, <1>7, <1>8, <1>9 DEF WorkerStep

(* The steps of Fast DDS and of its callbacks. *)
Callback ==
    \/ post_announce
    \/ post_lost
    \/ \E w \in Writer : lose_lease(w)
    \/ \E h \in Hosts : regain(h)

LEMMA CallbackType ==
    ASSUME TransportTypeOK, WorkerTypeOK, Callback
    PROVE  TransportTypeOK'
<1>1. CASE post_announce
  BY <1>1 DEF post_announce, post, TransportTypeOK
<1>2. CASE post_lost
  BY <1>2 DEF post_lost, post, TransportTypeOK
<1>3. ASSUME NEW w \in Writer, lose_lease(w)
      PROVE  TransportTypeOK'
  <2>1. LossOf(w) \subseteq Message
    BY DEF LossOf, Message, Writer
  <2> QED BY <1>3, <2>1 DEF lose_lease, TransportTypeOK
<1>4. ASSUME NEW h \in Hosts, regain(h)
      PROVE  TransportTypeOK'
  BY <1>4 DEF regain, regain_lease, TransportTypeOK, WorkerTypeOK, Writer
<1> QED BY <1>1, <1>2, <1>3, <1>4 DEF Callback

(* Every variable keeps its type, for any hosts and bounds. *)
THEOREM FleetTypeCorrect == Spec => []TypeOK
<1>1. Init => TypeOK
  <2> SUFFICES ASSUME Init PROVE TypeOK
    OBVIOUS
  <2>1. 0 \in Revisions /\ published.revision \in Revisions
    BY MaxRevisionAssumption DEF Init, ControllerInit, Bundle, Revisions
  <2>2. TransportTypeOK
    BY DEF Init, TransportInit, TransportTypeOK
  <2>3. registry \in [Hosts -> Entry]
    BY DEF Init, ControllerInit, Entry
  <2>4. fleet \in [Hosts -> Row]
    BY <2>3, ViewType DEF Init, ControllerInit
  <2>5. host_list \in [Hosts -> (HostState \cup {"Unlisted"}) \X BOOLEAN]
    BY <2>4 DEF Init, ControllerInit, Drawn, Row
  <2>6. ControllerTypeOK
    BY <2>3, <2>4, <2>5 DEF Init, ControllerInit, ControllerTypeOK
  <2>7. 0 \in 0 .. MaxSession /\ 0 .. published.revision \subseteq Revisions
    BY <2>1, MaxRevisionAssumption, MaxSessionAssumption DEF Revisions
  <2>8. WorkerTypeOK
    BY <2>7 DEF Init, WorkerInit, WorkerTypeOK
  <2> QED BY <2>2, <2>6, <2>8 DEF TypeOK
<1>2. TypeOK /\ [Next]_vars => TypeOK'
  <2> SUFFICES ASSUME TypeOK, [Next]_vars PROVE TypeOK'
    OBVIOUS
  <2> USE DEF TypeOK
  <2>1. CASE ControllerStep /\ UNCHANGED worker
    BY <2>1, ControllerStepType DEF worker, WorkerTypeOK
  <2>2. ASSUME NEW h \in Hosts,
               WorkerStep(h, 1 .. published.revision) /\ UNCHANGED controller
        PROVE  TypeOK'
    <3>1. published \in Bundle
      BY DEF ControllerTypeOK
    <3>2. TransportTypeOK' /\ WorkerTypeOK'
      BY <2>2, <3>1, WorkerStepType
    <3> QED BY <2>2, <3>2 DEF controller, ControllerTypeOK
  <2>3. CASE Callback /\ UNCHANGED <<controller, worker>>
    <3>1. TransportTypeOK'
      BY <2>3, CallbackType
    <3> QED BY <2>3, <3>1 DEF controller, worker, ControllerTypeOK, WorkerTypeOK
  <2>4. CASE UNCHANGED vars
    BY <2>4 DEF vars, transport, controller, worker,
                TransportTypeOK, ControllerTypeOK, WorkerTypeOK
  <2> QED BY <2>1, <2>2, <2>3, <2>4 DEF Next, Callback
<1> QED BY <1>1, <1>2, PTL DEF Spec

---------------------------------------------------------------------------
(* The view.  FleetInv is inductive: the drawn list follows the view, the  *)
(* rows follow the lists unless a box is open, and a host that is drawn as *)
(* seen still has its entry, which is taken away only by a handler that    *)
(* draws the view anew.                                                    *)
SeenIsKnown == \A h \in Hosts : fleet[h].state \in Seen => registry[h].known

FleetInv == HostListIsCurrent /\ RowsMatchLists /\ SeenIsKnown

LEMMA ReconcileGivesInv ==
    ASSUME HostListIsCurrent, reconcile_now, fleet \in [Hosts -> Row],
           registry' \in [Hosts -> Entry], expected' \subseteq Hosts
    PROVE  FleetInv'
<1>1. fleet' = reconcile(Effective', registry', published'.revision)
  BY DEF reconcile_now, Effective
<1>2. \A h \in Hosts : fleet'[h].state = state_of(h \in Effective', registry'[h])
  BY <1>1 DEF reconcile
<1>3. RowsMatchLists'
  <2>1. ASSUME NEW h \in Hosts
        PROVE  h \in Effective' <=>
                  fleet'[h].state \in {"Missing", "Offline", "Online", "Paused"}
    <3>1. registry'[h] \in Entry
      OBVIOUS
    <3> QED BY <1>2, <3>1, RowInView
  <2> QED BY <2>1 DEF RowsMatchLists
<1>4. SeenIsKnown'
  <2>1. ASSUME NEW h \in Hosts, fleet'[h].state \in Seen
        PROVE  registry'[h].known
    <3>1. registry'[h] \in Entry
      OBVIOUS
    <3> QED BY <1>2, <2>1, <3>1, RowInView
  <2> QED BY <2>1 DEF SeenIsKnown
<1>5. HostListIsCurrent'
  <2>1. CASE states_changed(fleet, fleet')
    BY <2>1 DEF reconcile_now, HostListIsCurrent
  <2>2. CASE ~states_changed(fleet, fleet')
    <3>1. Drawn(fleet') = Drawn(fleet)
      BY <2>2 DEF states_changed, Drawn
    <3> QED BY <2>2, <3>1 DEF reconcile_now, HostListIsCurrent
  <2> QED BY <2>1, <2>2
<1> QED BY <1>3, <1>4, <1>5 DEF FleetInv

(* What a step of the server leaves of the registry: only the loss of a    *)
(* host that is not listed takes anything away.                            *)
LEMMA ListedEntriesStay ==
    ASSUME TypeOK, ControllerStep, NEW h \in Hosts, on_client_lost => h \in expected
    PROVE  /\ registry[h].known => registry'[h].known
           /\ registry[h].caps => registry'[h].caps
<1> USE DEF TypeOK, ControllerTypeOK
<1>0. registry[h] \in Entry
  OBVIOUS
<1>1. CASE on_announce
  <2>1. Head(posted).host \in Hosts /\ Head(posted).paused \in BOOLEAN
    BY <1>1, TakeType, MessageFields DEF on_announce
  <2> QED BY <1>0, <1>1, <2>1, RegistryKeeps DEF on_announce
<1>2. CASE on_report
  <2>1. Head(posted).host \in Hosts /\ Head(posted).revision \in Revisions
    BY <1>2, TakeType, MessageFields DEF on_report
  <2> QED BY <1>0, <1>2, <2>1, RegistryKeeps DEF on_report
<1>3. CASE on_client_lost
  BY <1>0, <1>3 DEF on_client_lost
<1>4. CASE apply_coalesced
  BY <1>0, <1>4, RegistryKeeps DEF apply_coalesced
<1>5. ASSUME NEW g \in Hosts, lease_passes(g)
      PROVE  /\ registry[h].known => registry'[h].known
             /\ registry[h].caps => registry'[h].caps
  BY <1>0, <1>5, RegistryKeeps DEF lease_passes
<1> QED
  BY <1>1, <1>2, <1>3, <1>4, <1>5
  DEF ControllerStep, reconcile_timer, set_expected_hosts, add_expected_host,
      remove_expected_host, change_expected, publish, close_box

(* FleetInv holds of every behaviour. *)
THEOREM FleetInvariant == Spec => []FleetInv
<1>1. Init => FleetInv
  <2> SUFFICES ASSUME Init PROVE FleetInv
    OBVIOUS
  <2>1. /\ registry \in [Hosts -> Entry]
        /\ \A h \in Hosts : fleet[h].state = state_of(h \in Effective, registry[h])
    BY DEF Init, ControllerInit, Entry, reconcile, Effective
  <2>2. RowsMatchLists
    <3>1. ASSUME NEW h \in Hosts
          PROVE  h \in Effective <=>
                    fleet[h].state \in {"Missing", "Offline", "Online", "Paused"}
      <4>1. registry[h] \in Entry
        BY <2>1
      <4> QED BY <2>1, <4>1, RowInView
    <3> QED BY <3>1 DEF RowsMatchLists
  <2>3. SeenIsKnown
    <3>1. ASSUME NEW h \in Hosts, fleet[h].state \in Seen
          PROVE  registry[h].known
      <4>1. registry[h] \in Entry
        BY <2>1
      <4> QED BY <2>1, <3>1, <4>1, RowInView
    <3> QED BY <3>1 DEF SeenIsKnown
  <2> QED BY <2>2, <2>3 DEF Init, ControllerInit, FleetInv, HostListIsCurrent
<1>2. TypeOK /\ TypeOK' /\ FleetInv /\ [Next]_vars => FleetInv'
  <2> SUFFICES ASSUME TypeOK, TypeOK', FleetInv, [Next]_vars PROVE FleetInv'
    OBVIOUS
  <2>1. ASSUME reconcile_now PROVE FleetInv'
    BY <2>1, ReconcileGivesInv DEF FleetInv, TypeOK, ControllerTypeOK
  <2>2. ASSUME ControllerStep, ~on_client_lost, UNCHANGED <<fleet, host_list>>,
               box_open' \/ UNCHANGED lists
        PROVE  FleetInv'
    <3>1. SeenIsKnown'
      BY <2>2, ListedEntriesStay DEF FleetInv, SeenIsKnown
    <3>2. RowsMatchLists'
      BY <2>2 DEF FleetInv, RowsMatchLists, Effective, lists
    <3> QED BY <2>2, <3>1, <3>2 DEF FleetInv, HostListIsCurrent
  <2>3. ASSUME UNCHANGED controller PROVE FleetInv'
    BY <2>3 DEF controller, FleetInv, HostListIsCurrent, RowsMatchLists,
       SeenIsKnown, Effective
  <2>4. CASE ControllerStep
    <3>1. CASE reconcile_now
      BY <2>1, <3>1
    <3>2. CASE ~reconcile_now
      <4>1. ~on_client_lost
        BY <3>2 DEF on_client_lost
      <4>2. UNCHANGED <<fleet, host_list>> /\ (box_open' \/ UNCHANGED lists)
        BY <2>4, <3>2
        DEF ControllerStep, on_announce, on_report, on_client_lost, apply_coalesced,
            reconcile_timer, lease_passes, set_expected_hosts, add_expected_host,
            remove_expected_host, change_expected, publish, SaveAndReconcile, close_box
      <4> QED BY <2>2, <2>4, <4>1, <4>2
    <3> QED BY <3>1, <3>2
  <2> QED BY <2>3, <2>4 DEF Next, vars
<1> QED BY <1>1, <1>2, FleetTypeCorrect, PTL DEF Spec

(* At every moment between two handlers, unless the box of an edit that    *)
(* was not saved is open, an expected host has a row, and only a host that *)
(* nobody expects reads Unexpected or is left out.                         *)
THEOREM RowsAlwaysMatchLists == Spec => []RowsMatchLists
  BY FleetInvariant, PTL DEF FleetInv

(* What the Scripts tab drew at the last fleet_changed() is what the view  *)
(* says now.                                                               *)
THEOREM HostListAlwaysCurrent == Spec => []HostListIsCurrent
  BY FleetInvariant, PTL DEF FleetInv

(* A host the operator listed, once drawn as seen, is drawn as seen from   *)
(* then on in the same run of the server, and keeps what was learned of    *)
(* it.                                                                     *)
THEOREM ListedHostsNeverForgotten == Spec => ListedHostsAreRemembered
<1> DEFINE Remembered ==
        \A h \in expected \cap expected' :
            /\ fleet[h].state \in Seen => fleet'[h].state \in Seen
            /\ registry[h].known => registry'[h].known
            /\ registry[h].caps => registry'[h].caps
<1>1. TypeOK /\ TypeOK' /\ FleetInv /\ FleetInv' /\ [Next]_vars => [Remembered]_vars
  <2> SUFFICES ASSUME TypeOK, TypeOK', FleetInv, FleetInv', [Next]_vars
               PROVE  [Remembered]_vars
    OBVIOUS
  <2>1. CASE ControllerStep
    <3>1. ASSUME NEW h \in expected \cap expected'
          PROVE  /\ registry[h].known => registry'[h].known
                 /\ registry[h].caps => registry'[h].caps
      <4>1. h \in Hosts
        BY DEF TypeOK, ControllerTypeOK
      <4> QED BY <2>1, <4>1, ListedEntriesStay
    <3>2. ASSUME NEW h \in expected \cap expected', fleet[h].state \in Seen
          PROVE  fleet'[h].state \in Seen
      <4>1. registry'[h].known
        BY <3>1, <3>2 DEF FleetInv, SeenIsKnown, TypeOK, ControllerTypeOK
      <4>2. CASE UNCHANGED fleet
        BY <3>2, <4>2
      <4>3. CASE reconcile_now
        <5>1. h \in Hosts /\ registry'[h] \in Entry
          BY DEF TypeOK, ControllerTypeOK
        <5>2. fleet'[h].state = state_of(h \in Effective', registry'[h])
          BY <4>3, <5>1 DEF reconcile_now, reconcile, Effective
        <5> QED BY <4>1, <5>1, <5>2, RowInView
      <4> QED
        BY <2>1, <4>2, <4>3
        DEF ControllerStep, on_announce, on_report, on_client_lost, apply_coalesced,
            reconcile_timer, lease_passes, set_expected_hosts, add_expected_host,
            remove_expected_host, change_expected, publish, SaveAndReconcile, close_box
    <3> QED BY <3>1, <3>2
  <2>2. CASE UNCHANGED controller
    BY <2>2 DEF controller
  <2> QED BY <2>1, <2>2 DEF Next, vars
<1> QED
  BY <1>1, FleetTypeCorrect, FleetInvariant, PTL DEF Spec, ListedHostsAreRemembered
===========================================================================
