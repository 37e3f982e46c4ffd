--------------------------- MODULE BundleReceiver ---------------------------
(***************************************************************************)
(* How a bundle reaches the rules a client evaluates: the reader's         *)
(* listener and the handler registration of DdsClientTransport, the queue  *)
(* of MonitorWorker and its on_bundle().                                   *)
(*                                                                         *)
(* The listener runs on a Fast DDS thread, the registration on the worker  *)
(* thread.  Each takes what it needs under a lock and posts to the         *)
(* worker's queue after releasing it, so that the two can overtake.        *)
(***************************************************************************)
EXTENDS BundlePublisher, Sequences

CONSTANTS
    Clients,
    Unreadable,  \* contents a client of an older build cannot parse
    MaxQueue     \* bound on the functors waiting for the worker

ASSUME UnreadableAssumption == Unreadable \subseteq Contents \ {Empty}

VARIABLES
    phase,       \* "down", "up" with no handler yet, "starting" or "started"
    untaken,     \* clients whose reader has not taken the sample on offer
    retained,    \* retained_bundle_
    replaying,   \* what on_bundle() copied and has still to hand on
    delivering,  \* what the listener has still to hand on
    queue,       \* functors posted to the worker
    held         \* bundle_

receiver == <<phase, untaken, retained, replaying, delivering, queue, held>>

ReceiverTypeOK ==
    /\ phase \in [Clients -> {"down", "up", "starting", "started"}]
    /\ untaken \subseteq Clients
    /\ retained \in [Clients -> OptionalBundle]
    /\ replaying \in [Clients -> OptionalBundle]
    /\ delivering \in [Clients -> OptionalBundle]
    /\ queue \in [Clients -> Seq(Bundle)]
    /\ held \in [Clients -> Bundle]

ReceiverInit ==
    /\ phase = [c \in Clients |-> "down"]
    /\ untaken = {}
    /\ retained = [c \in Clients |-> {}]
    /\ replaying = [c \in Clients |-> {}]
    /\ delivering = [c \in Clients |-> {}]
    /\ queue = [c \in Clients |-> <<>>]
    /\ held = [c \in Clients |-> Blank]

HasRoom(c) == Len(queue[c]) < MaxQueue

(* A new process: its reader will be matched with the writer. *)
construct(c) ==
    /\ phase[c] = "down"
    /\ phase' = [phase EXCEPT ![c] = "up"]
    /\ untaken' = untaken \cup {c}
    /\ UNCHANGED <<retained, replaying, delivering, queue, held>>

(* The process ends and forgets everything. *)
destroy(c) ==
    /\ phase[c] # "down"
    /\ phase' = [phase EXCEPT ![c] = "down"]
    /\ untaken' = untaken \ {c}
    /\ retained' = [retained EXCEPT ![c] = {}]
    /\ replaying' = [replaying EXCEPT ![c] = {}]
    /\ delivering' = [delivering EXCEPT ![c] = {}]
    /\ queue' = [queue EXCEPT ![c] = <<>>]
    /\ held' = [held EXCEPT ![c] = Blank]

(* The locked half of on_bundle(handler), called from MonitorWorker::start. *)
register_handler(c) ==
    /\ phase[c] = "up"
    /\ phase' = [phase EXCEPT ![c] = "starting"]
    /\ replaying' = [replaying EXCEPT ![c] = retained[c]]
    /\ UNCHANGED <<untaken, retained, delivering, queue, held>>

(* Its other half: the copy, if there is one, is posted like a delivery.   *)
(* The worker reads its queue only after start() has returned.             *)
replay_retained(c) ==
    /\ phase[c] = "starting"
    /\ phase' = [phase EXCEPT ![c] = "started"]
    /\ \/ /\ replaying[c] = {}
          /\ UNCHANGED queue
       \/ \E b \in replaying[c] :
             /\ HasRoom(c)
             /\ queue' = [queue EXCEPT ![c] = Append(@, b)]
    /\ replaying' = [replaying EXCEPT ![c] = {}]
    /\ UNCHANGED <<untaken, retained, delivering, held>>

(* A slip: what was retained before is kept as well. *)
RetainEvery(c) ==
    /\ c \in untaken
    /\ \E b \in offered : retained' = [retained EXCEPT ![c] = @ \cup {b}]
    /\ untaken' = untaken \ {c}
    /\ UNCHANGED <<phase, replaying, delivering, queue, held>>

(* The locked half of handle_bundle(). *)
handle_bundle(c) ==
    /\ phase[c] # "down"
    /\ c \in untaken
    /\ delivering[c] = {}
    /\ \E b \in offered :
          /\ retained' = [retained EXCEPT ![c] = {b}]
          /\ delivering' = IF phase[c] = "up" THEN delivering
                           ELSE [delivering EXCEPT ![c] = {b}]
    /\ untaken' = untaken \ {c}
    /\ UNCHANGED <<phase, replaying, queue, held>>

(* Its other half. *)
post_bundle(c) ==
    /\ \E b \in delivering[c] :
          /\ HasRoom(c)
          /\ queue' = [queue EXCEPT ![c] = Append(@, b)]
    /\ delivering' = [delivering EXCEPT ![c] = {}]
    /\ UNCHANGED <<phase, untaken, retained, replaying, held>>

Readable(b) == b.content \notin Unreadable

(* Slips: the revision is noted before the parse; a client that missed a   *)
(* revision waits for it.                                                  *)
NoteBeforeParse(c, b) ==
    held' = [held EXCEPT ![c] = IF b.revision # @.revision /\ Readable(b) THEN b
                                ELSE [@ EXCEPT !.revision = b.revision]]
ApplyInSequence(c, b) ==
    held' = IF b.revision = held[c].revision + 1 /\ Readable(b)
            THEN [held EXCEPT ![c] = b] ELSE held

(* What on_bundle() makes of bundle b: one it has by revision is not       *)
(* looked at, and one it cannot parse is discarded.                        *)
Apply(c, b) ==
    held' = IF b.revision # held[c].revision /\ Readable(b)
            THEN [held EXCEPT ![c] = b] ELSE held

on_bundle(c) ==
    /\ phase[c] = "started"
    /\ queue[c] # <<>>
    /\ Apply(c, Head(queue[c]))
    /\ queue' = [queue EXCEPT ![c] = Tail(@)]
    /\ UNCHANGED <<phase, untaken, retained, replaying, delivering>>

ReceiverStep(c) ==
    \/ construct(c)
    \/ destroy(c)
    \/ register_handler(c)
    \/ replay_retained(c)
    \/ handle_bundle(c)
    \/ post_bundle(c)

(* bundle_writer_->write(): every reader has something to take, and what  *)
(* it had not taken of an earlier sample is replaced.                      *)
offer == untaken' = IF offered' = {} THEN {} ELSE {c \in Clients : phase[c] # "down"}
============================================================================
