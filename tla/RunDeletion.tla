---------------------------- MODULE RunDeletion ----------------------------
(***************************************************************************)
(* What happens to script runs while a box "Configuration error" is open.  *)
(*                                                                         *)
(* config_error() is connected to QMessageBox::warning(), which runs an    *)
(* event loop of its own until the operator closes the box: the handler    *)
(* that emitted it waits in the middle, and results and deadlines are      *)
(* handled meanwhile.  The operator can do nothing else, for the box is    *)
(* modal.  A handler that runs inside may emit config_error() in turn, and *)
(* so the boxes are a stack.                                               *)
(*                                                                         *)
(* A run has one target.  ServerRuns has the rest of these handlers.       *)
(***************************************************************************)
EXTENDS Naturals, SequencesExt

CONSTANT MaxRun   \* bound on the runs issued; they are numbered as issued

MaxRunAssumption == MaxRun \in Nat

Runs == 1 .. MaxRun

Finished == {"refused", "unanswered", "answered"}
Absent == "absent"

VARIABLES
    issued,       \* how many runs were issued
    script_runs,  \* script_runs_: the state of each run's target
    saved_runs,   \* saved_runs_
    disk,         \* the files of runs/
    boxes,        \* the handlers that wait for a box, the inmost last
    failed,       \* history: runs whose last save failed
    gone          \* history: runs deleted, file and all, alone or by their date

vars == <<issued, script_runs, saved_runs, disk, boxes, failed, gone>>

(* Where a handler waits: the runs it has still to delete, the one it      *)
(* could not, and all it will forget.                                      *)
Box ==
    [handler : {"persist", "delete_one", "delete_before"},
     left : SUBSET Runs, stuck : SUBSET Runs, doomed : SUBSET Runs]

Init ==
    /\ issued = 0
    /\ script_runs = [r \in Runs |-> Absent]
    /\ saved_runs = {}
    /\ disk = [r \in Runs |-> Absent]
    /\ boxes = <<>>
    /\ failed = {}
    /\ gone = [r \in Runs |-> "no"]

Open(handler, left, stuck, doomed) ==
    Append(boxes, [handler |-> handler, left |-> left, stuck |-> stuck, doomed |-> doomed])

-----------------------------------------------------------------------------
(* save_run() works, or it does not and a box opens. *)
Save(r, state) ==
    \/ /\ disk' = [disk EXCEPT ![r] = state]
       /\ saved_runs' = saved_runs \cup {r}
       /\ failed' = failed \ {r}
       /\ UNCHANGED boxes
    \/ /\ boxes' = Open("persist", {}, {}, {})
       /\ failed' = failed \cup {r}
       /\ UNCHANGED <<disk, saved_runs>>

NotSaved == UNCHANGED <<disk, saved_runs, failed, boxes>>

(* Slips: a run that still waits is saved; a save counts although it       *)
(* failed; a saved run is not saved again.                                 *)
PersistAlways(r, state) == Save(r, state)
CountFailedSaves(r, state) ==
    \/ state \notin Finished /\ NotSaved
    \/ state \in Finished /\ Save(r, state) /\ saved_runs' = saved_runs \cup {r}
    \/ /\ state \in Finished
       /\ saved_runs' = saved_runs \cup {r}
       /\ UNCHANGED <<disk, failed, boxes>>
PersistOnce(r, state) ==
    \/ (state \notin Finished \/ r \in saved_runs) /\ NotSaved
    \/ state \in Finished /\ r \notin saved_runs /\ Save(r, state)

persist_run_if_finished(r, state) ==
    \/ state \notin Finished /\ NotSaved
    \/ state \in Finished /\ Save(r, state)

Becomes(r, state) ==
    /\ script_runs' = [script_runs EXCEPT ![r] = state]
    /\ persist_run_if_finished(r, state)

(* The operator starts a run: it is sent, or refused at once. *)
start_script_run ==
    /\ boxes = <<>> /\ issued < MaxRun
    /\ issued' = issued + 1
    /\ \E state \in {"waiting", "refused"} : Becomes(issued', state)
    /\ UNCHANGED gone

(* Results and deadlines come at any time, boxes or not. *)
on_script_result(r) ==
    /\ script_runs[r] \in {"waiting", "unanswered"}
    /\ Becomes(r, "answered")
    /\ UNCHANGED <<issued, gone>>

(* A slip: a deadline speaks for every target. *)
DeadlineForAll(r) ==
    /\ script_runs[r] \in {"waiting", "answered"}
    /\ Becomes(r, "unanswered")
    /\ UNCHANGED <<issued, gone>>

on_run_deadline(r) ==
    /\ script_runs[r] = "waiting"
    /\ Becomes(r, "unanswered")
    /\ UNCHANGED <<issued, gone>>

-----------------------------------------------------------------------------
Forget(doomed) == script_runs' = [r \in Runs |-> IF r \in doomed THEN Absent ELSE script_runs[r]]
OnDisk == {r \in Runs : disk[r] # Absent}
Removed(removed) == disk' = [r \in Runs |-> IF r \in removed THEN Absent ELSE disk[r]]
Note(removed, how) == gone' = [r \in Runs |-> IF r \in removed THEN how ELSE gone[r]]

(* A slip: the run stays in the list, without its file. *)
DeleteFileOnly(r) ==
    /\ boxes = <<>> /\ script_runs[r] # Absent
    /\ Removed({r}) /\ Note({r}, "alone")
    /\ saved_runs' = saved_runs \ {r}
    /\ UNCHANGED <<issued, script_runs, boxes, failed>>

(* The file is removed or was never there, or the disk refuses and a box   *)
(* opens before the run is forgotten.                                      *)
delete_script_run(r) ==
    /\ boxes = <<>> /\ script_runs[r] # Absent
    /\ \/ /\ Removed({r}) /\ Note({r}, "alone")
          /\ Forget({r}) /\ saved_runs' = saved_runs \ {r}
          /\ UNCHANGED boxes
       \/ /\ r \in saved_runs \cap OnDisk
          /\ boxes' = Open("delete_one", {}, {r}, {r})
          /\ UNCHANGED <<script_runs, saved_runs, disk, gone>>
    /\ UNCHANGED <<issued, failed>>

(* The loop of delete_script_runs_before() over the runs that are left,    *)
(* up to the first that the disk refuses to remove, or to the end.         *)
DeleteLoop(left, saved, doomed, opened) ==
    \E refused \in SUBSET (left \cap OnDisk) :
        LET stops == refused \cap saved
            done == {r \in left : \A s \in stops : r < s}
        IN /\ Removed(done \ refused) /\ Note(done \ refused, "before")
           /\ saved_runs' = saved \ done
           /\ IF stops = {}
              THEN Forget(doomed) /\ boxes' = opened
              ELSE /\ boxes' = Append(opened, [handler |-> "delete_before", left |-> left \ (done \cup {Min(stops)}),
                                               stuck |-> {Min(stops)}, doomed |-> doomed])
                   /\ UNCHANGED script_runs

delete_script_runs_before(cutoff) ==
    LET doomed == {r \in Runs : r < cutoff /\ script_runs[r] # Absent}
    IN /\ boxes = <<>>
       /\ DeleteLoop(doomed, saved_runs, doomed, <<>>)
       /\ UNCHANGED <<issued, failed>>

(* The operator closes the inmost box, and its handler goes on. *)
close_box ==
    /\ boxes # <<>>
    /\ LET box == Last(boxes)
           saved == saved_runs \ box.stuck
           outer == Front(boxes)
       IN \/ /\ box.handler = "persist"
             /\ boxes' = outer
             /\ UNCHANGED <<script_runs, saved_runs, disk, gone>>
          \/ /\ box.handler = "delete_one"
             /\ Forget(box.doomed) /\ saved_runs' = saved /\ boxes' = outer
             /\ UNCHANGED <<disk, gone>>
          \/ /\ box.handler = "delete_before"
             /\ DeleteLoop(box.left, saved, box.doomed, outer)
    /\ UNCHANGED <<issued, failed>>

(* The server ends, boxes or not, and starts again. *)
restart ==
    /\ script_runs' = disk
    /\ saved_runs' = OnDisk
    /\ boxes' = <<>>
    /\ failed' = {}
    /\ UNCHANGED <<issued, disk, gone>>

Next ==
    \/ start_script_run \/ close_box \/ restart
    \/ \E r \in Runs : on_script_result(r) \/ on_run_deadline(r) \/ delete_script_run(r)
    \/ \E cutoff \in 2 .. issued + 1 : delete_script_runs_before(cutoff)

Spec == Init /\ [][Next]_vars

-----------------------------------------------------------------------------
(* Every variable has its type; what is on disk is finished. *)
TypeOK ==
    /\ issued \in 0 .. MaxRun
    /\ script_runs \in [Runs -> Finished \cup {"waiting", Absent}]
    /\ saved_runs \subseteq Runs
    /\ disk \in [Runs -> Finished \cup {Absent}]
    /\ boxes \in Seq(Box)
    /\ failed \subseteq Runs
    /\ gone \in [Runs -> {"no", "alone", "before"}]

(* saved_runs_ speaks of files that are there, by which it decides whether *)
(* a failed removal is an error (server_controller.cpp:570).               *)
SavedHaveFiles == saved_runs \subseteq OnDisk

(* A run that was deleted by itself, with its file, does not come back,    *)
(* whatever arrived for it or was handled inside other handlers.           *)
DeletedAloneIsGone == \A r \in Runs : gone[r] = "alone" => disk[r] = Absent

(* A finished run is on disk as it is in memory, unless its last save      *)
(* failed, which a box has said, or its deletion is under way: a save      *)
(* that fails, waits, and is overtaken by a later one loses nothing.       *)
RecordsKeepUp ==
    boxes = <<>> => \A r \in Runs \ failed :
        script_runs[r] \in Finished => disk[r] = script_runs[r]

(* An answer that is on disk is not replaced by another record. *)
AnswersKept == [][\A r \in Runs : disk[r] = "answered" => disk'[r] \in {"answered", Absent}]_vars

(* Broken by the code: a run deleted by its date does not come back        *)
(* (server_controller.hpp, "removes exactly the runs asked for").  It is   *)
(* forgotten only after the loop: if the box of a later run opens in       *)
(* between, its answer or deadline writes its file again.                  *)
DeletedBeforeIsGone == \A r \in Runs : gone[r] = "before" => disk[r] = Absent
=============================================================================
