---------------------------- MODULE ServerConfig ----------------------------
(***************************************************************************)
(* The three configuration files of the server: expected_hosts.json,       *)
(* bundle.json and scripts.json (apps/server/server_controller.cpp).  An   *)
(* edit changes the memory, then rewrites the whole file in place, then    *)
(* tells the tabs.  Unlike a run's record, a file is truncated first, so   *)
(* that a server that ends, or a disk that is full, tears it.  load_config *)
(* reads what it finds: what a file cannot give is empty in memory, and    *)
(* the next edit writes the file from that memory.                         *)
(*                                                                         *)
(* Of Qt: QFile buffers a write, hands it to the system when the buffer is *)
(* full or the file is closed, and nothing hears of a failure at the close.*)
(***************************************************************************)
EXTENDS Integers, FiniteSets

CONSTANT Items     \* hosts, rules or roots: what the files hold sets of

Files == {"expected_hosts", "bundle", "scripts"}

(* What a file may hold; scripts.json has one root, or none. *)
Contents(f) == {S \in SUBSET Items : f = "scripts" => Cardinality(S) <= 1}

Absent == [is |-> "absent"]
Torn == [is |-> "torn"]
Holding(S) == [is |-> "whole", holds |-> S]

VARIABLES
    file,      \* the three files
    memory,    \* expected_, published_ and script_share_root_
    shown,     \* what the tabs show of them
    saving,    \* the file that a handler edits and saves, or "none"
    step,      \* how far it is
    intended,  \* history: what each was last edited to, over restarts
    told,      \* history: those a config_error was about since that edit
    excused    \* history: those whose save was cut off before it began, or that a
               \* start found and could not open, since that edit

vars == <<file, memory, shown, saving, step, intended, told, excused>>

Init ==
    /\ file = [f \in Files |-> Absent]
    /\ memory = [f \in Files |-> {}]
    /\ shown = [f \in Files |-> {}]
    /\ saving = "none" /\ step = "idle"
    /\ intended = [f \in Files |-> {}]
    /\ told = {} /\ excused = {}

-----------------------------------------------------------------------------
(* One host is added or removed; a publication or a root replaces what was *)
(* there; what changes nothing returns early.                              *)
is_edit(f, S) ==
    /\ S # memory[f]
    /\ f = "expected_hosts" =>
          \E h \in Items : S \in {memory[f] \cup {h}, memory[f] \ {h}}

edit(f, S) ==
    /\ step = "idle" /\ is_edit(f, S)
    /\ memory' = [memory EXCEPT ![f] = S]
    /\ saving' = f /\ step' = "save"
    /\ intended' = [intended EXCEPT ![f] = S]
    /\ told' = told \ {f} /\ excused' = excused \ {f}
    /\ UNCHANGED <<file, shown>>

open ==
    /\ step = "save"
    /\ file' = [file EXCEPT ![saving] = Torn]
    /\ step' = "opened"
    /\ UNCHANGED <<memory, shown, saving, intended, told, excused>>

(* A slip: the failure leaves the handler. *)
OpenThrows ==
    /\ step = "save"
    /\ told' = told \cup {saving}
    /\ step' = "idle"
    /\ UNCHANGED <<file, memory, shown, saving, intended, excused>>

open_fails ==
    /\ step = "save"
    /\ told' = told \cup {saving}
    /\ step' = "tell"
    /\ UNCHANGED <<file, memory, shown, saving, intended, excused>>

written == memory[saving]

write_and_close ==
    /\ step = "opened"
    /\ file' = [file EXCEPT ![saving] = Holding(written)]
    /\ step' = "tell"
    /\ UNCHANGED <<memory, shown, saving, intended, told, excused>>

write_is_short ==
    /\ step = "opened"
    /\ told' = told \cup {saving}
    /\ step' = "tell"
    /\ UNCHANGED <<file, memory, shown, saving, intended, excused>>

(* The buffer took the text, and does not reach the disk. *)
close_fails ==
    /\ step = "opened"
    /\ step' = "tell"
    /\ UNCHANGED <<file, memory, shown, saving, intended, told, excused>>

(* expected_hosts_changed, published_changed, script_share_root_changed. *)
announce ==
    /\ step = "tell"
    /\ shown' = [shown EXCEPT ![saving] = memory[saving]]
    /\ saving' = "none" /\ step' = "idle"
    /\ UNCHANGED <<file, memory, intended, told, excused>>

-----------------------------------------------------------------------------
(* A slip: a file that cannot be parsed ends load_config(). *)
LoadUntilTorn(f, opened) ==
    IF f \in opened /\ file[f].is = "whole" /\ (\A g \in opened : file[g] # Torn)
    THEN file[f].holds ELSE {}

loaded(f, opened) == IF f \in opened /\ file[f].is = "whole" THEN file[f].holds ELSE {}

(* A slip: nothing is announced while load_config() runs. *)
ShowNothing(f, opened) == {}

(* The tabs are built empty before start(), and told of what was parsed; *)
(* an empty root is not announced.                                       *)
shown_at_start(f, opened) == loaded(f, opened)

errors_at_start(opened) == {f \in opened : file[f] = Torn}

(* The process ends, within a save or not, and starts: load_config().  The *)
(* files that are there and not in opened refuse to open.                  *)
start_again(opened) ==
    /\ \A f \in opened : file[f] # Absent
    /\ memory' = [f \in Files |-> loaded(f, opened)]
    /\ shown' = [f \in Files |-> shown_at_start(f, opened)]
    /\ told' = told \cup errors_at_start(opened)
    /\ excused' = excused \cup {f \in Files \ opened : file[f] # Absent}
                          \cup {f \in Files : step = "save" /\ f = saving}
    /\ saving' = "none" /\ step' = "idle"
    /\ UNCHANGED <<file, intended>>

Next ==
    \/ \E f \in Files : \E S \in Contents(f) : edit(f, S)
    \/ open \/ open_fails \/ write_and_close \/ write_is_short \/ close_fails \/ announce
    \/ \E opened \in SUBSET Files : start_again(opened)

Spec == Init /\ [][Next]_vars

-----------------------------------------------------------------------------
(* Every variable has its type, and a handler is at work on a file. *)
TypeOK ==
    /\ \A f \in Files :
          /\ file[f] \in {Absent, Torn} \cup {Holding(S) : S \in Contents(f)}
          /\ {memory[f], shown[f], intended[f]} \subseteq Contents(f)
    /\ step \in {"idle", "save", "opened", "tell"}
    /\ IF step = "idle" THEN saving = "none" ELSE saving \in Files
    /\ told \subseteq Files /\ excused \subseteq Files

(* Between two handlers the tabs show what the server acts on: after an    *)
(* edit whether or not it could be saved, and after a start, although the  *)
(* tabs are built before load_config() runs.                               *)
ShownIsMemory == step = "idle" => shown = memory

(* What an operator last set is what the server has, over any number of    *)
(* restarts, or a config_error was about that file: no failed save, torn   *)
(* file or damaged neighbour loses an edit in silence.  Two cases are left *)
(* out: the server ended before the save began, and a start could not open *)
(* the file, which ALossIsTold is about.                                   *)
AnEditIsKeptOrAnswered ==
    step = "idle" =>
        \A f \in Files : memory[f] = intended[f] \/ f \in told \cup excused

(* Broken by the code: load_config() says nothing of expected hosts or a   *)
(* bundle that are there and cannot be opened, although its failure        *)
(* handling is what the saving mirrors (server_controller.hpp).  The next  *)
(* edit writes what is left over the file.                                 *)
ALossIsTold ==
    step = "idle" =>
        \A f \in {"expected_hosts", "bundle"} :
            file[f] = Holding(intended[f]) => memory[f] = intended[f] \/ f \in told

(* Broken by the code: a failed write is said to emit config_error         *)
(* (server_controller.hpp); a write that fails at the close is not heard.  *)
FailedWriteIsTold ==
    step = "tell" => file[saving] = Holding(memory[saving]) \/ saving \in told

(* Broken by the code: a corrupt configuration is said to refuse to        *)
(* publish (section 14 of the design).  The error is shown, the bundle is  *)
(* empty in memory, and the next edit is published and written over it.    *)
CorruptRefusesToPublish ==
    [][file["bundle"] = Torn /\ "bundle" \in told /\ memory["bundle"] # intended["bundle"]
          => saving' # "bundle"]_vars
=============================================================================
