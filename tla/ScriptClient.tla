--------------------------- MODULE ScriptClient ---------------------------
(***************************************************************************)
(* The script side of the monitoring client, one MonitorWorker per host:   *)
(* apps/client/monitor_worker.cpp.                                         *)
(*                                                                         *)
(* Two threads take part on each host.  The worker thread handles the      *)
(* command and publishes the result; a script thread runs the body and     *)
(* posts its outcome back to the worker's event queue.  jobs[h] holds that *)
(* second thread: a job whose status is "Running" is a live script thread, *)
(* any other is the outcome waiting in the worker's queue.                 *)
(*                                                                         *)
(* A restart covers a crash and an orderly stop alike: the destructor      *)
(* joins the script thread, but the outcome that thread posted dies with   *)
(* the event queue.                                                        *)
(***************************************************************************)
EXTENDS ScriptTopics

VARIABLES
    can_run,   \* allow_scripts_ and a runner_, both fixed when a client starts
    executed,  \* executed_
    running,   \* running_
    jobs,      \* the script thread, or the outcome it posted
    starts,    \* history: how often each run was given to a script thread, to 2
    succeeded  \* history: the runs whose shell ran to an exit code of 0

client == <<can_run, executed, running, jobs, starts, succeeded>>

Job == [run : Runs, status : RunnerStatus \cup {"Running"}]

ClientTypeOK ==
    /\ can_run \in [Hosts -> BOOLEAN]
    /\ executed \in [Hosts -> SUBSET Runs]
    /\ running \in [Hosts -> BOOLEAN]
    /\ jobs \in [Hosts -> SUBSET Job]
    /\ starts \in [Hosts -> [Runs -> 0..2]]
    /\ succeeded \in [Hosts -> SUBSET Runs]

ClientInit ==
    /\ can_run \in [Hosts -> BOOLEAN]
    /\ executed = [h \in Hosts |-> {}]
    /\ running = [h \in Hosts |-> FALSE]
    /\ jobs = [h \in Hosts |-> {}]
    /\ starts = [h \in Hosts |-> [r \in Runs |-> 0]]
    /\ succeeded = [h \in Hosts |-> {}]

Running(h) == {j \in jobs[h] : j.status = "Running"}

(* refuse_script(): the result goes out from the worker thread at once. *)
refuse_script(h, cmd) ==
    results' = results \cup {[host |-> h, run |-> cmd.run, status |-> "Refused"]}

(***************************************************************************)
(* on_script_command(): one action for each way through it.                *)
(***************************************************************************)
IgnoreForeign(h, cmd) ==
    /\ cmd.host # h
    /\ take_script_command(h, cmd)
    /\ UNCHANGED <<results, client>>

RefuseNotEnrolled(h, cmd) ==
    /\ cmd.host = h
    /\ ~can_run[h]
    /\ take_script_command(h, cmd)
    /\ refuse_script(h, cmd)
    /\ UNCHANGED client

IgnoreRepeat(h, cmd) ==
    /\ cmd.host = h
    /\ can_run[h]
    /\ cmd.run \in executed[h]
    /\ take_script_command(h, cmd)
    /\ UNCHANGED <<results, client>>

(* A slip: the busy path clears the flag it found set. *)
RefuseBusyClearsRunning(h, cmd) ==
    /\ cmd.host = h
    /\ can_run[h]
    /\ cmd.run \notin executed[h]
    /\ running[h]
    /\ take_script_command(h, cmd)
    /\ refuse_script(h, cmd)
    /\ running' = [running EXCEPT ![h] = FALSE]
    /\ UNCHANGED <<can_run, executed, jobs, starts, succeeded>>

(* running_.exchange(true) found it set; the id inserted just before is    *)
(* erased again, so executed_ ends as it began.                            *)
RefuseBusy(h, cmd) ==
    /\ cmd.host = h
    /\ can_run[h]
    /\ cmd.run \notin executed[h]
    /\ running[h]
    /\ take_script_command(h, cmd)
    /\ refuse_script(h, cmd)
    /\ UNCHANGED client

(* A slip: the command is run without asking whom it names. *)
StartScriptForAnyHost(h, cmd) ==
    /\ can_run[h]
    /\ cmd.run \notin executed[h]
    /\ ~running[h]
    /\ take_script_command(h, cmd)
    /\ executed' = [executed EXCEPT ![h] = @ \cup {cmd.run}]
    /\ running' = [running EXCEPT ![h] = TRUE]
    /\ jobs' = [jobs EXCEPT ![h] = @ \cup {[run |-> cmd.run, status |-> "Running"]}]
    /\ starts' = [starts EXCEPT ![h][cmd.run] = IF @ < 2 THEN @ + 1 ELSE @]
    /\ UNCHANGED <<results, can_run, succeeded>>

(* The worker thread waits in join() while a script thread is alive, which *)
(* is the conjunct on Running(h).                                          *)
StartScript(h, cmd) ==
    /\ cmd.host = h
    /\ can_run[h]
    /\ cmd.run \notin executed[h]
    /\ ~running[h]
    /\ Running(h) = {}
    /\ take_script_command(h, cmd)
    /\ executed' = [executed EXCEPT ![h] = @ \cup {cmd.run}]
    /\ running' = [running EXCEPT ![h] = TRUE]
    /\ jobs' = [jobs EXCEPT ![h] = @ \cup {[run |-> cmd.run, status |-> "Running"]}]
    /\ starts' = [starts EXCEPT ![h][cmd.run] = IF @ < 2 THEN @ + 1 ELSE @]
    /\ UNCHANGED <<results, can_run, succeeded>>

(* The script thread's body: run() returns or throws, and the outcome is   *)
(* posted to the worker thread.  Completed is of a shell that exited with  *)
(* 0.  Of any other the shell may have run or not: it could not be         *)
(* started, was killed, failed, or could not be waited for.                *)
FinishScript(h, job, status) ==
    /\ job \in Running(h)
    /\ jobs' = [jobs EXCEPT ![h] =
                   (@ \ {job}) \cup {[run |-> job.run, status |-> status]}]
    /\ succeeded' = IF status = "Completed"
                    THEN [succeeded EXCEPT ![h] = @ \cup {job.run}] ELSE succeeded
    /\ UNCHANGED <<topics, can_run, executed, running, starts>>

(* A slip: the flag is not cleared once the result is out. *)
PublishKeepsRunning(h, job) ==
    /\ job \in jobs[h] \ Running(h)
    /\ results' = results \cup {[host |-> h, run |-> job.run, status |-> job.status]}
    /\ jobs' = [jobs EXCEPT ![h] = @ \ {job}]
    /\ UNCHANGED <<inbox, can_run, executed, running, starts, succeeded>>

(* The functor the script thread posted, run by the worker thread. *)
publish_script_outcome(h, job) ==
    /\ job \in jobs[h] \ Running(h)
    /\ results' = results \cup {[host |-> h, run |-> job.run, status |-> job.status]}
    /\ jobs' = [jobs EXCEPT ![h] = @ \ {job}]
    /\ running' = [running EXCEPT ![h] = FALSE]
    /\ UNCHANGED <<inbox, can_run, executed, starts, succeeded>>

(* A slip: TransientLocal commands, replayed to the new process. *)
RestartWithReplay(h) ==
    /\ \E enrolled \in BOOLEAN : can_run' = [can_run EXCEPT ![h] = enrolled]
    /\ executed' = [executed EXCEPT ![h] = {}]
    /\ running' = [running EXCEPT ![h] = FALSE]
    /\ jobs' = [jobs EXCEPT ![h] = {}]
    /\ UNCHANGED <<topics, starts, succeeded>>

(* A new process: nothing the old one knew survives it, its volatile       *)
(* reader gets nothing sent to the old one, and the operator may have      *)
(* changed the enrolment.  Samples its old writer left unacknowledged may  *)
(* be lost, which LoseResult covers.                                       *)
RestartClient(h) ==
    /\ \E enrolled \in BOOLEAN : can_run' = [can_run EXCEPT ![h] = enrolled]
    /\ executed' = [executed EXCEPT ![h] = {}]
    /\ running' = [running EXCEPT ![h] = FALSE]
    /\ jobs' = [jobs EXCEPT ![h] = {}]
    /\ inbox' = [inbox EXCEPT ![h] = {}]
    /\ UNCHANGED <<results, starts, succeeded>>

on_script_command(h, cmd) ==
    \/ IgnoreForeign(h, cmd)
    \/ RefuseNotEnrolled(h, cmd)
    \/ IgnoreRepeat(h, cmd)
    \/ RefuseBusy(h, cmd)
    \/ StartScript(h, cmd)

ClientStep(h) ==
    \/ \E cmd \in inbox[h] : on_script_command(h, cmd)
    \/ \E job \in jobs[h], status \in RunnerStatus : FinishScript(h, job, status)
    \/ \E job \in jobs[h] : publish_script_outcome(h, job)
===========================================================================
