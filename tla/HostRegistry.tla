--------------------------- MODULE HostRegistry ---------------------------
(***************************************************************************)
(* What the server remembers of a client, and the row it draws from it:    *)
(* libs/core/src/client_registry.cpp and libs/core/src/fleet.cpp.          *)
(*                                                                         *)
(* The clock is abstracted to the one thing reconcile() asks of it: an     *)
(* entry is fresh while its last_seen is within the liveliness lease.      *)
(* Capabilities are abstracted to whether the server holds the ones the    *)
(* client announced (TRUE) or the empty set of a new entry (FALSE).  The   *)
(* address an operator typed is left out: nothing is decided by it.        *)
(***************************************************************************)
EXTENDS Naturals

CONSTANTS Hosts, MaxRevision

ASSUME MaxRevisionAssumption == MaxRevision \in Nat

Revisions == 0 .. MaxRevision

(* No entry: what try_emplace() would default-construct. *)
Absent == [known |-> FALSE, fresh |-> FALSE, caps |-> FALSE,
           paused |-> FALSE, applied |-> 0]

Known == [known : {TRUE}, fresh : BOOLEAN, caps : BOOLEAN,
          paused : BOOLEAN, applied : Revisions]

Entry == Known \cup {Absent}

(* last_seen is always the server's own clock, so it only moves forward. *)
touch(e) == [e EXCEPT !.known = TRUE, !.fresh = TRUE]

(* A slip: only the announce that makes the entry is read for capabilities. *)
AnnounceCapsOnce(e, paused) ==
    [touch(e) EXCEPT !.caps = e.caps \/ ~e.known, !.paused = paused]

record_announce(e, paused) == [touch(e) EXCEPT !.caps = TRUE, !.paused = paused]

record_sample(e) == touch(e)

record_report(e, revision) == [touch(e) EXCEPT !.applied = revision]

(* A slip: the entry is only hidden. *)
LostIsHidden(e) == [e EXCEPT !.known = FALSE]

mark_lost(e) == Absent

---------------------------------------------------------------------------
HostState == {"Missing", "Offline", "Unexpected", "Online", "Paused"}

(* A row of the fleet view; Unlisted is a host that has no row. *)
Row == [state : HostState \cup {"Unlisted"}, caps : BOOLEAN, stale : BOOLEAN]

(* A slip: a pause is believed for ever. *)
PauseOutlivesLease(listed, e) ==
    CASE ~listed /\ ~e.known           -> "Unlisted"
      [] ~listed /\ e.known            -> "Unexpected"
      [] listed /\ ~e.known            -> "Missing"
      [] listed /\ e.known /\ e.paused -> "Paused"
      [] listed /\ e.known /\ ~e.paused /\ ~e.fresh -> "Offline"
      [] listed /\ e.known /\ ~e.paused /\ e.fresh  -> "Online"

(* An unexpected host is not asked about its lease, and Offline wins over  *)
(* Paused.                                                                 *)
state_of(listed, e) ==
    CASE ~listed /\ ~e.known           -> "Unlisted"
      [] ~listed /\ e.known            -> "Unexpected"
      [] listed /\ ~e.known            -> "Missing"
      [] listed /\ e.known /\ ~e.fresh -> "Offline"
      [] listed /\ e.known /\ e.fresh /\ e.paused  -> "Paused"
      [] listed /\ e.known /\ e.fresh /\ ~e.paused -> "Online"

(* The order of the rows follows from their states and host ids, and the   *)
(* counts from the rows, so the view is the function from host to row.     *)
reconcile(listed, registry, current) ==
    [h \in Hosts |->
        [state |-> state_of(h \in listed, registry[h]),
         caps  |-> registry[h].caps,
         stale |-> registry[h].known /\ registry[h].applied # current]]

(* What the Scripts tab draws of a row. *)
Drawn(view) == [h \in Hosts |-> <<view[h].state, view[h].caps>>]

(* A slip: comparing the states only. *)
OnlyStatesChanged(before, after) == \E h \in Hosts : before[h].state # after[h].state

states_changed(before, after) ==
    \E h \in Hosts : \/ before[h].state # after[h].state
                    \/ before[h].caps # after[h].caps
===========================================================================
