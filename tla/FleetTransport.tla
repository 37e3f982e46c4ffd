-------------------------- MODULE FleetTransport --------------------------
(***************************************************************************)
(* The way from the clients to the server's GUI thread: the reader         *)
(* callbacks of DdsServerTransport, the queue of functors they post to     *)
(* ServerController, and the coalescer that holds resource samples.        *)
(*                                                                         *)
(* Data is received on one Fast DDS thread and lost leases are noticed on  *)
(* another.  Each callback changes live_hosts_ under a lock, releases it   *)
(* and posts its functor afterwards, so that the two can overtake each     *)
(* other: a callback that has released the lock and not yet posted is in   *)
(* receiving or losing.                                                    *)
(***************************************************************************)
EXTENDS HostRegistry, Sequences

CONSTANTS
    MaxSession,  \* bound: how many processes of one client there are
    MaxPosted    \* bound: functors waiting in the server's event queue

ASSUME MaxSessionAssumption == MaxSession \in Nat

(* A process of a client is one writer of announces, with one handle. *)
Writer == Hosts \X (0 .. MaxSession)

Message ==
         [kind : {"announce"}, host : Hosts, paused : BOOLEAN]
    \cup [kind : {"report"}, host : Hosts, revision : Revisions]
    \cup [kind : {"lost"}, host : Hosts]

VARIABLES
    alive,       \* writers whose liveliness Fast DDS believes in
    live_hosts,  \* live_hosts_: handles that have announced
    receiving,   \* the announce callback between its lock and its post, if any
    losing,      \* the lost-lease callback between its lock and its post, if any
    posted,      \* functors queued for the GUI thread
    pending      \* SampleCoalescer::pending_, by host

transport == <<alive, live_hosts, receiving, losing, posted, pending>>

TransportTypeOK ==
    /\ alive \subseteq Writer
    /\ live_hosts \subseteq Writer
    /\ receiving \subseteq Message
    /\ losing \subseteq Message
    /\ posted \in Seq(Message)
    /\ pending \subseteq Hosts

TransportInit ==
    /\ alive = {}
    /\ live_hosts = {}
    /\ receiving = {}
    /\ losing = {}
    /\ posted = <<>>
    /\ pending = {}

HasRoom == Len(posted) < MaxPosted

post(m) == HasRoom /\ posted' = Append(posted, m)

(* What the callback of a lost lease finds: only a handle that has         *)
(* announced since it was last lost can be put to a host; for any other    *)
(* the callback returns.                                                   *)
LossOf(w) == IF w \in live_hosts THEN {[kind |-> "lost", host |-> w[1]]} ELSE {}

(* An announce of writer w arrives: its liveliness is asserted, and the    *)
(* callback learns whose handle it is.  The lease may be lost between the  *)
(* two, on the other thread; then nothing takes the handle out again       *)
(* before the next loss, and the writer may never have another.            *)
receive_announce(w, paused) ==
    /\ receiving = {}
    /\ receiving' = {[kind |-> "announce", host |-> w[1], paused |-> paused]}
    /\ live_hosts' = live_hosts \cup {w}
    /\ \/ alive' = alive \cup {w} /\ UNCHANGED losing
       \/ /\ losing = {}
          /\ alive' = alive \ {w}
          /\ losing' = LossOf(w)
    /\ UNCHANGED <<posted, pending>>

post_announce ==
    /\ \E m \in receiving : post(m)
    /\ receiving' = {}
    /\ UNCHANGED <<alive, live_hosts, losing, pending>>

(* Reports share the receiving thread with announces. *)
receive_report(h, revision) ==
    /\ receiving = {}
    /\ post([kind |-> "report", host |-> h, revision |-> revision])
    /\ UNCHANGED <<alive, live_hosts, receiving, losing, pending>>

(* push(): the newest sample of a host replaces the one that waits. *)
receive_sample(h) ==
    /\ pending' = pending \cup {h}
    /\ UNCHANGED <<alive, live_hosts, receiving, losing, posted>>

(* The lease of w runs out. *)
lose_lease(w) ==
    /\ w \in alive
    /\ losing = {}
    /\ alive' = alive \ {w}
    /\ live_hosts' = live_hosts \ {w}
    /\ losing' = LossOf(w)
    /\ UNCHANGED <<receiving, posted, pending>>

post_lost ==
    /\ \E m \in losing : post(m)
    /\ losing' = {}
    /\ UNCHANGED <<alive, live_hosts, receiving, pending>>

(* A writer thought dead is heard again, by a heartbeat: a positive change *)
(* of the alive count, which the callback ignores.                         *)
regain_lease(w) ==
    /\ w \notin alive
    /\ alive' = alive \cup {w}
    /\ UNCHANGED <<live_hosts, receiving, losing, posted, pending>>
===========================================================================
