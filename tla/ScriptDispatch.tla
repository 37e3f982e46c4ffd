-------------------------- MODULE ScriptDispatch --------------------------
(***************************************************************************)
(* Remote script execution end to end: the server's runs, the two topics   *)
(* and the clients that execute, with every interleaving of their steps,   *)
(* restarts on either side, lost and redelivered samples, and failing      *)
(* writes to the runs directory.                                           *)
(***************************************************************************)
EXTENDS ServerRuns, ScriptClient, FiniteSets, TLC

vars == <<topics, server, client>>

Init == TopicsInit /\ ServerInit /\ ClientInit

Next ==
    \/ ServerStep /\ UNCHANGED client
    \/ \E h \in Hosts : ClientStep(h) /\ UNCHANGED server
    \/ \E h \in Hosts : RestartClient(h) /\ UNCHANGED server
    \/ \E h \in Hosts : LoseCommand(h) /\ UNCHANGED <<server, client>>
    \/ LoseResult /\ UNCHANGED <<server, client>>

Spec == Init /\ [][Next]_vars

(* For TLC, runs are interchangeable where no PROPERTY is checked. *)
RunSymmetry == Permutations(Runs)

(***************************************************************************)
(* Fairness.  A single-shot timer fires while the server's event loop      *)
(* runs.  The runner kills a script at its timeout, so a script thread     *)
(* ends, and the worker's event loop delivers what it posted.  Nothing is  *)
(* assumed of the network, of the operator or of restarts.                 *)
(***************************************************************************)
Deadline(r) == on_run_deadline(r) /\ UNCHANGED client

JobStep(h) ==
    /\ \/ \E job \in jobs[h], status \in RunnerStatus : FinishScript(h, job, status)
       \/ \E job \in jobs[h] : publish_script_outcome(h, job)
    /\ UNCHANGED server

Fairness ==
    /\ \A r \in Runs : WF_vars(Deadline(r))
    /\ \A h \in Hosts : WF_vars(JobStep(h))

FairSpec == Spec /\ Fairness

---------------------------------------------------------------------------
(* The runs directory, seen as the record AuditTrail speaks of.            *)
Audit == INSTANCE AuditTrail WITH record <- disk, erased <- gone

(* Every variable has the type its component gives it. *)
TypeOK == TopicsTypeOK /\ ServerTypeOK /\ ClientTypeOK

(* A run is started at most once on a machine: executed_ stops a sample    *)
(* redelivered within a session, and volatile durability stops it across a *)
(* restart (monitor_worker.cpp:304, messages.hpp:53).                      *)
AtMostOnce == \A h \in Hosts, r \in Runs : starts[h][r] <= 1

(* Only a machine the dispatch published the command for ever starts the   *)
(* script, though every client receives every command: a host that was not *)
(* ticked, or was refused at dispatch, runs nothing.                       *)
OnlyTargetsRun ==
    \A h \in Hosts, r \in Runs :
        starts[h][r] > 0 => [host |-> h, run |-> r] \in sent

(* A target that reads Completed, in the run view or in the file on disk,  *)
(* names a machine where the script's shell ran to an exit code of 0; one  *)
(* that reads Failed, a machine whose client took the command and gave the *)
(* script to its runner, which may not have been able to start it          *)
(* (script_run.cpp:50, an Error reads as Failed).                          *)
OutcomeIsOfItsMachine ==
    \A r \in Runs, h \in Hosts :
        \A run \in {script_runs[r], disk[r]} \ {NoRun} :
            /\ run[h] = "Completed" => r \in succeeded[h]
            /\ run[h] = "Failed" => starts[h][r] > 0

(* A target that reads Refused names a machine that never starts the run.  *)
(* This needs a network that delivers a command once: see                  *)
(* monitor_worker.cpp:310, which lets a refused run through later.         *)
RefusedNeverStarted ==
    \A r \in Runs, h \in Hosts :
        \A run \in {script_runs[r], disk[r]} \ {NoRun} :
            run[h] = "Refused" => starts[h][r] = 0

(* running_ is set exactly while a script thread is alive or its outcome   *)
(* is waiting, and there is one of them at most: a new command never makes *)
(* the worker thread, which carries the announce, wait in join() for a     *)
(* script that is still running (monitor_worker.cpp:317-326).              *)
OneScriptAtATime ==
    \A h \in Hosts :
        /\ running[h] <=> jobs[h] # {}
        /\ \A i, j \in jobs[h] : i = j

(* Every run with a target still waiting has its deadline armed, so no run *)
(* is left open for ever: not after a deletion, not after a restart.       *)
WaitingRunHasDeadline ==
    \A r \in Listed : Waiting(script_runs[r]) # {} => r \in deadlines

(* The history on disk agrees with the one on screen: a finished run whose *)
(* latest save did not end in config_error is on disk as it is shown, a    *)
(* run still waiting has no file, and saved_runs_ knows which are there.   *)
(* The runs of a deletion that waits for its box are half way out.         *)
HistoryMatchesDisk ==
    /\ \A r \in Listed \ deletion.doomed :
          /\ is_finished(script_runs[r]) /\ r \notin unsaved => r \in OnDisk
          /\ r \in saved_runs <=> r \in OnDisk
    /\ \A r \in Listed :
          /\ r \in OnDisk \ unsaved => disk[r] = script_runs[r]
          /\ ~is_finished(script_runs[r]) => r \notin OnDisk

(* A run the operator deleted, with no config_error to say that something  *)
(* failed, stays deleted: late results, deadlines and restarts do not      *)
(* revive it.  Where a box did come up, so does every run that had no file *)
(* when the deletion ended; one that was answered behind the box may have  *)
(* a file again, and returns (RunDeletion, DeletedBeforeIsGone).           *)
DeletedStaysDeleted == gone \cap (Listed \cup OnDisk) = {}

(* The bookkeeping the invariants above rest on, between the two sides.    *)
(* A command on its way was published for a run that was issued; a client  *)
(* that could be handed a command again still remembers starting it; a job *)
(* and an outcome on its way belong to a script that was started, and a    *)
(* success to a shell that ran.                                            *)
ClientBookkeeping ==
    /\ \A h \in Hosts : inbox[h] \subseteq sent
    /\ \A cmd \in sent : cmd.run \in issued
    /\ \A h \in Hosts : \A cmd \in inbox[h] :
          cmd.host = h /\ starts[h][cmd.run] > 0 => cmd.run \in executed[h]
    /\ \A h \in Hosts : \A job \in jobs[h] :
          /\ starts[h][job.run] > 0
          /\ job.status = "Completed" => job.run \in succeeded[h]
    /\ \A m \in results :
          /\ m.status # "Refused" => starts[m.host][m.run] > 0
          /\ m.status = "Completed" => m.run \in succeeded[m.host]

(* And on the server: only finished runs have a file, what is listed or    *)
(* stored or deleted was issued, and what is on screen is what is on disk  *)
(* or a correction of it; what a deletion has left to remove it will       *)
(* forget, and did not see go.                                             *)
ServerBookkeeping ==
    /\ \A r \in OnDisk : is_finished(disk[r])
    /\ Listed \cup OnDisk \cup gone \subseteq issued
    /\ saved_runs \subseteq OnDisk
    /\ \A r \in Listed \cap OnDisk : Audit!Corrects(disk[r], script_runs[r])
    /\ deletion.left \cup deletion.stuck \subseteq deletion.doomed
    /\ deletion.doomed \subseteq Listed

(* An answer, once shown, is never taken back while its run is listed, not *)
(* even by a restart, unless the operator was told it could not be saved.  *)
AnswersAreFinal ==
    [][\A r \in Listed \ unsaved, h \in Hosts :
          /\ script_runs'[r] # NoRun
          /\ script_runs[r][h] \in Answered
          => script_runs'[r][h] = script_runs[r][h]]_vars

(* The files of the runs directory keep the promise of AuditTrail, the     *)
(* runs deleted for good being those whose record is erased.               *)
AuditTrailKept == Audit!AuditSpec

(* Every target that was sent the script stops waiting: it is answered,    *)
(* given up on at the deadline, or its run is deleted or forgotten.        *)
EveryTargetSettles ==
    \A r \in Runs, h \in Hosts :
        (r \in Listed /\ h \in Waiting(script_runs[r]))
            ~> ~(r \in Listed /\ h \in Waiting(script_runs[r]))

(* A machine that runs a script becomes free for another one. *)
ClientBecomesFree == \A h \in Hosts : running[h] ~> ~running[h]
===========================================================================
