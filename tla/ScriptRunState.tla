-------------------------- MODULE ScriptRunState --------------------------
(***************************************************************************)
(* One script run as the server holds it: apps/server/script_run.hpp and   *)
(* script_run.cpp.  A run is a function from hosts to the state of that    *)
(* host's target; a host the run does not target maps to Untargeted.  The  *)
(* output, the exit code and the reason text a target carries are left     *)
(* out: no rule below reads them.                                          *)
(***************************************************************************)
EXTENDS Naturals

CONSTANTS
    Hosts,  \* the lab machines, by host_id
    Runs,   \* the run ids make_run_id() can draw
    NoRun   \* stands for "no such run": not in script_runs_, no file on disk

(* lm::core::ScriptStatus: what a client says of one run. *)
ScriptStatus == {"Completed", "Failed", "Refused", "Error"}

(* The outcomes the runner thread can bring back. *)
RunnerStatus == {"Completed", "Failed", "Error"}

TargetState ==
    {"Pending", "Dispatched", "Completed", "Failed", "Refused", "NoResponse"}

Untargeted == "Untargeted"

Run == [Hosts -> TargetState \cup {Untargeted}]

(* NoRun is not a run: absence is never mistaken for a run's record. *)
ASSUME NoRunAssumption == NoRun \notin Run

Answered == {"Completed", "Failed", "Refused"}

(* Slips the state mapping could have: Error kept as it is; an Error       *)
(* falling through to Completed; a refusal falling through to Failed.      *)
StateForKeepsError(status) == status
StateForErrorCompletes(status) == IF status = "Error" THEN "Completed" ELSE status
StateForRefusalFails(status) ==
    IF status \in {"Error", "Refused"} THEN "Failed" ELSE status

(* Error reads as Failed on the server. *)
state_for(status) == IF status = "Error" THEN "Failed" ELSE status

apply_result(run, host, status) == [run EXCEPT ![host] = state_for(status)]

(* A slip: the deadline closes every target, answered or not. *)
DeadlineForEveryTarget(run) ==
    [h \in Hosts |-> IF run[h] \in TargetState THEN "NoResponse" ELSE run[h]]

apply_deadline(run) ==
    [h \in Hosts |-> IF run[h] = "Dispatched" THEN "NoResponse" ELSE run[h]]

(* The targets tally() counts as dispatched: those still owed an answer. *)
Waiting(run) == {h \in Hosts : run[h] = "Dispatched"}

is_finished(run) == \A h \in Hosts : run[h] \notin {"Pending", "Dispatched"}

FinishedRun == {run \in Run : is_finished(run)}
===========================================================================
