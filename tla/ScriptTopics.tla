--------------------------- MODULE ScriptTopics ---------------------------
(***************************************************************************)
(* The two script topics between the server and the clients: ScriptCommand *)
(* and ScriptResult, both RELIABLE, VOLATILE and KEEP_LAST.  A command is  *)
(* one sample that every matched client receives, whoever it names, so     *)
(* inbox[h] is what is on its way to client h, the hop through the worker  *)
(* thread's event queue included; results is what is on its way to the     *)
(* server.  Sets, not queues: samples of a writer that was replaced by a   *)
(* restart have no order with its successor's, and nothing below relies on *)
(* the order within one writer.                                            *)
(*                                                                         *)
(* A sample in flight can be lost: the reader was not matched yet, or the  *)
(* history depth was exceeded.  With Redelivery it can also be delivered   *)
(* again within one session of its reader, the case monitor_worker.hpp     *)
(* keeps executed_ for.                                                    *)
(***************************************************************************)
EXTENDS ScriptRunState

CONSTANT Redelivery

ASSUME RedeliveryAssumption == Redelivery \in BOOLEAN

VARIABLES inbox, results

topics == <<inbox, results>>

Command == [host : Hosts, run : Runs]

Result == [host : Hosts, run : Runs, status : ScriptStatus]

TopicsTypeOK ==
    /\ inbox \in [Hosts -> SUBSET Command]
    /\ results \subseteq Result

TopicsInit ==
    /\ inbox = [h \in Hosts |-> {}]
    /\ results = {}

(* What is left of a set of samples once m has been handed over. *)
LeftAfter(samples, m) ==
    IF Redelivery THEN {samples, samples \ {m}} ELSE {samples \ {m}}

publish_script_command(cmds) ==
    inbox' = [h \in Hosts |-> inbox[h] \cup cmds]

take_script_command(h, cmd) ==
    \E left \in LeftAfter(inbox[h], cmd) : inbox' = [inbox EXCEPT ![h] = left]

LoseCommand(h) ==
    /\ \E cmd \in inbox[h] : inbox' = [inbox EXCEPT ![h] = @ \ {cmd}]
    /\ UNCHANGED results

LoseResult ==
    /\ \E m \in results : results' = results \ {m}
    /\ UNCHANGED inbox
===========================================================================
