---------------------------- MODULE ServerRuns ----------------------------
(***************************************************************************)
(* The script runs of ServerController: apps/server/server_controller.cpp  *)
(* and the files apps/server/run_store.cpp keeps of them.                  *)
(*                                                                         *)
(* A handler runs to its end on the GUI thread, so it is one action, up to *)
(* a config_error(): FleetWindow answers that with QMessageBox::warning(), *)
(* which runs an event loop of its own, and results and deadlines are      *)
(* handled before the handler goes on.  A deletion goes on after such a    *)
(* box, so it is an action for each stretch between its boxes.  The        *)
(* handlers that save a run do nothing after theirs, and an open box only  *)
(* keeps the operator away: those boxes are left out here (RunDeletion has *)
(* the whole stack).                                                       *)
(*                                                                         *)
(* The fleet view a dispatch consults is an input here: any set of hosts   *)
(* may be the ones fleet_ shows Online with the Scripts capability.  The   *)
(* deadline may pass at any moment after the dispatch, because the client  *)
(* that would answer in time may be held up for longer than the margin.    *)
(***************************************************************************)
EXTENDS ScriptTopics

VARIABLES
    script_runs,  \* script_runs_, by run id
    saved_runs,   \* saved_runs_
    disk,         \* <config_dir>/runs/<run_id>.json
    deadlines,    \* run ids whose single-shot timer is armed
    issued,       \* run ids make_run_id() has drawn
    unsaved,      \* history: runs whose latest save was answered by config_error
    deletion,     \* the deletion that waits for its box to be closed
    gone,         \* history: runs deleted for good (see Forget)
    sent          \* history: the commands ever published

server ==
    <<script_runs, saved_runs, disk, deadlines, issued, unsaved, deletion, gone, sent>>

(* The runs it has still to remove, the one whose file it could not, and   *)
(* all that it will forget.                                                *)
Deletion == [left : SUBSET Runs, stuck : SUBSET Runs, doomed : SUBSET Runs]

NoDeletion == [left |-> {}, stuck |-> {}, doomed |-> {}]

ServerTypeOK ==
    /\ script_runs \in [Runs -> Run \cup {NoRun}]
    /\ saved_runs \subseteq Runs
    /\ disk \in [Runs -> Run \cup {NoRun}]
    /\ deadlines \subseteq Runs
    /\ issued \subseteq Runs
    /\ unsaved \subseteq Runs
    /\ deletion \in Deletion
    /\ gone \subseteq Runs
    /\ sent \subseteq Command

ServerInit ==
    /\ script_runs = [r \in Runs |-> NoRun]
    /\ saved_runs = {}
    /\ disk = [r \in Runs |-> NoRun]
    /\ deadlines = {}
    /\ issued = {}
    /\ unsaved = {}
    /\ deletion = NoDeletion
    /\ gone = {}
    /\ sent = {}

Listed == {r \in Runs : script_runs[r] # NoRun}

OnDisk == {r \in Runs : disk[r] # NoRun}

(* save_run() is a write to a temporary and a rename: the file is the new  *)
(* record or it is what it was.                                            *)
save_run(r, run) ==
    \/ /\ disk' = [disk EXCEPT ![r] = run]
       /\ saved_runs' = saved_runs \cup {r}
       /\ unsaved' = unsaved \ {r}
    \/ /\ unsaved' = unsaved \cup {r}
       /\ UNCHANGED <<disk, saved_runs>>

(* Slips: saving on every result, and saving a run only once. *)
PersistAlways(r, run) == save_run(r, run)
PersistOnce(r, run) ==
    \/ is_finished(run) /\ r \notin saved_runs /\ save_run(r, run)
    \/ ~is_finished(run) /\ UNCHANGED <<disk, saved_runs, unsaved>>
    \/ r \in saved_runs /\ UNCHANGED <<disk, saved_runs, unsaved>>

persist_run_if_finished(r, run) ==
    \/ is_finished(run) /\ save_run(r, run)
    \/ ~is_finished(run) /\ UNCHANGED <<disk, saved_runs, unsaved>>

(* The targets as the dispatch loop leaves them: a host that is not Online *)
(* or not enrolled in the cached fleet_ is refused and sent nothing.       *)
DispatchedRun(targets, ready) ==
    [h \in Hosts |-> IF h \notin targets THEN Untargeted
                     ELSE IF h \in ready THEN "Dispatched" ELSE "Refused"]

(* A slip: a refused target is sent the command all the same. *)
DispatchToRefused(r, targets, ready) ==
    LET run == DispatchedRun(targets, ready)
        cmds == [host : targets, run : {r}]
    IN  /\ deletion = NoDeletion
        /\ r \notin issued
        /\ issued' = issued \cup {r}
        /\ script_runs' = [script_runs EXCEPT ![r] = run]
        /\ publish_script_command(cmds)
        /\ sent' = sent \cup cmds
        /\ deadlines' = IF Waiting(run) = {} THEN deadlines ELSE deadlines \cup {r}
        /\ persist_run_if_finished(r, run)
        /\ UNCHANGED <<results, deletion, gone>>

start_script_run(r, targets, ready) ==
    LET run == DispatchedRun(targets, ready)
        cmds == [host : Waiting(run), run : {r}]
    IN  /\ deletion = NoDeletion
        /\ r \notin issued
        /\ issued' = issued \cup {r}
        /\ script_runs' = [script_runs EXCEPT ![r] = run]
        /\ publish_script_command(cmds)
        /\ sent' = sent \cup cmds
        /\ deadlines' = IF Waiting(run) = {} THEN deadlines ELSE deadlines \cup {r}
        /\ persist_run_if_finished(r, run)
        /\ UNCHANGED <<results, deletion, gone>>

(* A result moves a target only while its answer is still owed, or was     *)
(* given up on.                                                            *)
Accepts(m) ==
    /\ m.run \in Listed
    /\ script_runs[m.run][m.host] \in {"Dispatched", "NoResponse"}

TakeResult(m) == \E left \in LeftAfter(results, m) : results' = left

on_script_result(m) ==
    /\ TakeResult(m)
    /\ \/ /\ Accepts(m)
          /\ LET run == apply_result(script_runs[m.run], m.host, m.status)
             IN  /\ script_runs' = [script_runs EXCEPT ![m.run] = run]
                 /\ persist_run_if_finished(m.run, run)
       \/ /\ ~Accepts(m)
          /\ UNCHANGED <<script_runs, disk, saved_runs, unsaved>>
    /\ UNCHANGED <<inbox, deadlines, issued, deletion, gone, sent>>

(* The single-shot timer of run r. *)
on_run_deadline(r) ==
    /\ r \in deadlines
    /\ deadlines' = deadlines \ {r}
    /\ \/ /\ r \in Listed
          /\ Waiting(script_runs[r]) # {}
          /\ LET run == apply_deadline(script_runs[r])
             IN  /\ script_runs' = [script_runs EXCEPT ![r] = run]
                 /\ persist_run_if_finished(r, run)
       \/ /\ r \in Listed => Waiting(script_runs[r]) = {}
          /\ UNCHANGED <<script_runs, disk, saved_runs, unsaved>>
    /\ UNCHANGED <<topics, issued, deletion, gone, sent>>

(* The runs of doomed leave the list.  They are deleted for good if the    *)
(* operator was told of no failure; if a box came up, those without a file *)
(* are: another may have been saved again behind the box.                  *)
Forget(doomed) ==
    /\ script_runs' = [r \in Runs |-> IF r \in doomed THEN NoRun ELSE script_runs[r]]
    /\ gone' = gone \cup IF deletion = NoDeletion THEN doomed
                         ELSE {r \in doomed : disk'[r] = NoRun}
    /\ deletion' = NoDeletion

Remove(removed) == disk' = [r \in Runs |-> IF r \in removed THEN NoRun ELSE disk[r]]

(* The files that cannot be removed and that saved_runs_ does not know:    *)
(* nobody is told of them.  remove() can only fail on a file that is there.*)
Unnoticed(removing, saved) == SUBSET ((removing \cap OnDisk) \ saved)

(* The rest of the loop finds no file that it has to speak of, or it stops *)
(* with a box at the file of r, the files of some others being removed.    *)
FinishDeletion(left, saved, doomed) ==
    /\ \E quiet \in Unnoticed(left, saved) : Remove(left \ quiet)
    /\ saved_runs' = saved \ left
    /\ Forget(doomed)

StopDeletion(left, saved, doomed) ==
    \E r \in left \cap OnDisk \cap saved : \E done \in SUBSET (left \ {r}) :
        /\ \E quiet \in Unnoticed(done, saved) : Remove(done \ quiet)
        /\ saved_runs' = saved \ done
        /\ deletion' = [left |-> left \ (done \cup {r}), stuck |-> {r}, doomed |-> doomed]
        /\ UNCHANGED <<script_runs, gone>>

Delete(left, saved, doomed) ==
    /\ FinishDeletion(left, saved, doomed) \/ StopDeletion(left, saved, doomed)
    /\ UNCHANGED <<topics, deadlines, issued, unsaved, sent>>

delete_script_run(r) ==
    /\ deletion = NoDeletion
    /\ r \in Listed
    /\ Delete({r}, saved_runs, {r})

(* doomed is the runs issued before the chosen day; the clock that stamped *)
(* them may have been set back, so any of the runs can be among them, in   *)
(* any order.                                                              *)
delete_script_runs_before(doomed) ==
    /\ deletion = NoDeletion
    /\ doomed \subseteq Listed
    /\ Delete(doomed, saved_runs, doomed)

(* The operator closes the box, and the deletion that opened it goes on:   *)
(* with the next run, or, where one run was asked for, to its end.         *)
close_box ==
    /\ deletion # NoDeletion
    /\ Delete(deletion.left, saved_runs \ deletion.stuck, deletion.doomed)

(* A slip: the loaded runs are not entered in saved_runs_. *)
RestartForgetsSaved ==
    /\ script_runs' = disk
    /\ saved_runs' = {}
    /\ deadlines' = {}
    /\ results' = {}
    /\ unsaved' = {}
    /\ deletion' = NoDeletion
    /\ UNCHANGED <<inbox, disk, issued, gone, sent>>

(* A crash or a stop, then start() and load_config(): what is on disk is   *)
(* what there is, no timer is armed for it, and the new volatile reader    *)
(* gets no result sent to the old one.                                     *)
RestartServer ==
    /\ script_runs' = disk
    /\ saved_runs' = OnDisk
    /\ deadlines' = {}
    /\ results' = {}
    /\ unsaved' = {}
    /\ deletion' = NoDeletion
    /\ UNCHANGED <<inbox, disk, issued, gone, sent>>

ServerStep ==
    \/ \E r \in Runs, targets \in (SUBSET Hosts) \ {{}}, ready \in SUBSET Hosts :
          start_script_run(r, targets, ready)
    \/ \E m \in results : on_script_result(m)
    \/ \E r \in deadlines : on_run_deadline(r)
    \/ \E r \in Runs : delete_script_run(r)
    \/ \E doomed \in SUBSET Runs : delete_script_runs_before(doomed)
    \/ close_box
    \/ RestartServer
===========================================================================
