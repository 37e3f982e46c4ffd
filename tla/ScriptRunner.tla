---------------------------- MODULE ScriptRunner ----------------------------
(***************************************************************************)
(* WindowsScriptRunner::run(): one script, its shell, the processes that   *)
(* the shell starts, the two output pipes, the threads that drain them,    *)
(* and the timeout.                                                        *)
(*                                                                         *)
(* The processes that the shell started are one, descendant, that inherits *)
(* the pipes and can outlive the shell.  Output is a sequence of chunks: a *)
(* line of text, or an LM-RESULT line that says ok or not.                 *)
(***************************************************************************)
EXTENDS Naturals, Sequences, SequencesExt

CONSTANTS
    Jobs,       \* whether a run can be put in a job object: a set of BOOLEANs
    PipeSize,   \* chunks that a pipe holds
    StreamCap,  \* kMaxStreamBytes, in chunks
    Attempts,   \* rounds of cancel_and_join, 50 in the code
    MaxWrites   \* bound on the chunks that the shell and its descendant write

RunnerAssumption ==
    /\ Jobs \subseteq BOOLEAN
    /\ PipeSize \in Nat /\ StreamCap \in Nat /\ Attempts \in Nat /\ MaxWrites \in Nat

Streams == {"out", "err"}
Verdict == {"ok", "failed"}
Chunk == {"text"} \cup Verdict

VARIABLES
    at,          \* how far run() is
    file,        \* the temporary script is on disk
    own_ends,    \* our copies of the write ends are open
    tree_kill,   \* tree_kill
    shell,       \* "none", "suspended", "alive", "dead"
    descendant,  \* "none", "alive", "dead"
    writes,      \* chunks written so far
    said,        \* history: the last verdict that the shell wrote, if any
    exited,      \* history: the code that the shell exited with itself; "unwatched" if
                 \* run() could not wait for it to exit, and "no" before
    pipe,        \* what is in each pipe
    reader,      \* each drain thread: "none", "between" two reads, "reading", "ended"
    cancels,     \* rounds of cancel_and_join left
    text,        \* outcome.stdout_text and outcome.stderr_text
    outcome      \* the rest of the outcome

script == <<shell, descendant, writes, said, exited>>
drains == <<pipe, reader, text>>
vars == <<at, file, own_ends, tree_kill, script, drains, cancels, outcome>>

Joining == {"out", "err"}
Place ==
    {"begin", "file", "pipes", "spawned", "closed", "drained", "waiting", "waited",
     "out", "err", "joined", "failed", "returned"}

Codes == {"zero", "nonzero"}

Outcome ==
    [started : BOOLEAN, timed_out : BOOLEAN, exit_code : Codes,
     reported : {"none"} \cup Verdict]

ControlOK ==
    /\ at \in Place
    /\ file \in BOOLEAN
    /\ own_ends \in BOOLEAN
    /\ tree_kill \in BOOLEAN
    /\ shell \in {"none", "suspended", "alive", "dead"}
    /\ descendant \in {"none", "alive", "dead"}
    /\ writes \in 0 .. MaxWrites
    /\ said \in {"none"} \cup Verdict
    /\ exited \in {"no", "unwatched"} \cup Codes
    /\ reader \in [Streams -> {"none", "between", "reading", "ended"}]
    /\ cancels \in 0 .. Attempts
    /\ outcome \in Outcome

BuffersOK ==
    \A s \in Streams : /\ pipe[s] \in Seq(Chunk) /\ Len(pipe[s]) <= PipeSize
                       /\ text[s] \in Seq(Chunk) /\ Len(text[s]) <= StreamCap

(* Every variable has its type; no pipe and no text is longer than it may be. *)
TypeOK == ControlOK /\ BuffersOK

Init ==
    /\ at = "begin"
    /\ file = FALSE
    /\ own_ends = FALSE
    /\ tree_kill = FALSE
    /\ shell = "none"
    /\ descendant = "none"
    /\ writes = 0
    /\ said = "none"
    /\ exited = "no"
    /\ pipe = [s \in Streams |-> <<>>]
    /\ reader = [s \in Streams |-> "none"]
    /\ cancels = Attempts
    /\ text = [s \in Streams |-> <<>>]
    /\ outcome = [started |-> TRUE, timed_out |-> FALSE, exit_code |-> "zero",
                  reported |-> "none"]

(***************************************************************************)
(* Up to the start of the shell every step can fail, and run() then        *)
(* returns could_not_start() through the destructors.                      *)
(***************************************************************************)
could_not_start ==
    /\ at' = "failed"
    /\ outcome' = [outcome EXCEPT !.started = FALSE, !.exit_code = "nonzero"]
    /\ UNCHANGED <<file, own_ends, tree_kill, script, drains, cancels>>

write_temp_script ==
    /\ at = "begin"
    /\ \/ could_not_start
       \/ /\ at' = "file"
          /\ file' = TRUE
          /\ UNCHANGED <<own_ends, tree_kill, script, drains, cancels, outcome>>

create_pipes ==
    /\ at = "file"
    /\ \/ could_not_start
       \/ /\ at' = "pipes"
          /\ own_ends' = TRUE
          /\ UNCHANGED <<file, tree_kill, script, drains, cancels, outcome>>

(* The shell is created suspended, in the job if there is one that can     *)
(* kill a tree and that takes it.                                          *)
create_process ==
    /\ at = "pipes"
    /\ \/ could_not_start
       \/ /\ at' = "spawned"
          /\ shell' = "suspended"
          /\ tree_kill' \in Jobs
          /\ UNCHANGED <<file, own_ends, descendant, writes, said, exited, drains, cancels,
                         outcome>>

close_own_ends ==
    /\ at = "spawned"
    /\ at' = "closed"
    /\ own_ends' = FALSE
    /\ UNCHANGED <<file, tree_kill, script, drains, cancels, outcome>>

start_drains ==
    /\ at = "closed"
    /\ at' = "drained"
    /\ reader' = [s \in Streams |-> "between"]
    /\ UNCHANGED <<file, own_ends, tree_kill, script, pipe, text, cancels, outcome>>

(* ResumeThread can fail: the shell then stays suspended.                  *)
resume ==
    /\ at = "drained"
    /\ at' = "waiting"
    /\ shell' \in {"alive", "suspended"}
    /\ UNCHANGED <<file, own_ends, tree_kill, descendant, writes, said, exited, drains,
                   cancels, outcome>>

(***************************************************************************)
(* WaitForSingleObject on the shell, and what is made of its answer.       *)
(***************************************************************************)
(* TerminateProcess, on the shell alone; the job does it for a tree.       *)
Terminate ==
    IF tree_kill THEN UNCHANGED shell ELSE shell' = "dead"

(* A slip: what is read is the exit code of a process that was killed.     *)
TimeoutReadsExitCode ==
    /\ at = "waiting"
    /\ shell # "dead"
    /\ outcome' = [outcome EXCEPT !.exit_code = "zero"]
    /\ Terminate
    /\ at' = "waited"
    /\ UNCHANGED <<file, own_ends, tree_kill, descendant, writes, said, exited, drains, cancels>>

(* A slip: the wait has no limit. *)
WaitForExit ==
    /\ at = "waiting"
    /\ shell = "dead"
    /\ at' = "waited"
    /\ UNCHANGED <<file, own_ends, tree_kill, script, drains, cancels, outcome>>

wait_timeout ==
    /\ at = "waiting"
    /\ shell # "dead"
    /\ outcome' = [outcome EXCEPT !.timed_out = TRUE, !.exit_code = "nonzero"]
    /\ Terminate
    /\ at' = "waited"
    /\ UNCHANGED <<file, own_ends, tree_kill, descendant, writes, said, exited, drains, cancels>>

(* GetExitCodeProcess can fail; that counts as a failed run.               *)
wait_exited ==
    /\ at = "waiting"
    /\ shell = "dead"
    /\ \E code \in {exited, "nonzero"} :
          outcome' = [outcome EXCEPT !.exit_code = code]
    /\ at' = "waited"
    /\ UNCHANGED <<file, own_ends, tree_kill, script, drains, cancels>>

(* The wait fails: the shell is killed as well, whether it ever ran or not. *)
wait_failed ==
    /\ at = "waiting"
    /\ outcome' = [outcome EXCEPT !.exit_code = "nonzero"]
    /\ exited' = IF exited = "no" THEN "unwatched" ELSE exited
    /\ Terminate
    /\ at' = "waited"
    /\ UNCHANGED <<file, own_ends, tree_kill, descendant, writes, said, drains, cancels>>

(* job.reset(): KILL_ON_JOB_CLOSE ends all that is left of the tree.       *)
close_job ==
    /\ at = "waited"
    /\ at' = "out"
    /\ IF tree_kill
       THEN /\ shell' = "dead"
            /\ descendant' = IF descendant = "alive" THEN "dead" ELSE descendant
       ELSE UNCHANGED <<shell, descendant>>
    /\ UNCHANGED <<file, own_ends, tree_kill, writes, said, exited, drains, cancels, outcome>>

(***************************************************************************)
(* The joins: of the reader of stdout, then of the reader of stderr.       *)
(***************************************************************************)
join ==
    /\ at \in Joining
    /\ reader[at] = "ended"
    /\ at' = IF at = "out" THEN "err" ELSE "joined"
    /\ cancels' = Attempts
    /\ UNCHANGED <<file, own_ends, tree_kill, script, drains, outcome>>

(* A slip: one round too many. *)
CancelOnceMore ==
    /\ at \in Joining
    /\ ~tree_kill
    /\ reader[at] # "ended"
    /\ cancels' = cancels - 1
    /\ UNCHANGED <<at, file, own_ends, tree_kill, script, drains, outcome>>

(* One round of cancel_and_join: a pending read ends with an error, a      *)
(* reader between two reads does not notice.                               *)
cancel_io ==
    /\ at \in Joining
    /\ ~tree_kill
    /\ cancels > 0
    /\ reader[at] # "ended"
    /\ reader' = IF reader[at] = "reading" /\ pipe[at] = <<>>
                 THEN [reader EXCEPT ![at] = "ended"] ELSE reader
    /\ cancels' = cancels - 1
    /\ UNCHANGED <<at, file, own_ends, tree_kill, script, pipe, text, outcome>>

(* parse_reported_result(): the last of them wins. *)
parse_reported_result(output) ==
    LET verdicts == {i \in DOMAIN output : output[i] \in Verdict}
    IN  IF verdicts = {} THEN "none" ELSE output[Max(verdicts)]

(* A slip: the first verdict is taken. *)
FirstVerdict ==
    /\ at = "joined"
    /\ at' = "returned"
    /\ file' = FALSE
    /\ LET verdicts == SelectSeq(text["out"], LAMBDA chunk : chunk \in Verdict)
       IN  outcome' = [outcome EXCEPT !.reported =
                          IF verdicts = <<>> THEN "none" ELSE Head(verdicts)]
    /\ UNCHANGED <<own_ends, tree_kill, script, drains, cancels>>

return ==
    /\ at = "joined"
    /\ at' = "returned"
    /\ file' = FALSE
    /\ outcome' = [outcome EXCEPT !.reported = parse_reported_result(text["out"])]
    /\ UNCHANGED <<own_ends, tree_kill, script, drains, cancels>>

(* A slip: the guard of the temporary file is made after the pipes. *)
ReturnLeavesFile ==
    /\ at = "failed"
    /\ at' = "returned"
    /\ own_ends' = FALSE
    /\ UNCHANGED <<file, tree_kill, script, drains, cancels, outcome>>

(* The destructors: the pipes, the job, the temporary file.                *)
return_not_started ==
    /\ at = "failed"
    /\ at' = "returned"
    /\ file' = FALSE
    /\ own_ends' = FALSE
    /\ UNCHANGED <<tree_kill, script, drains, cancels, outcome>>

Runner ==
    \/ write_temp_script
    \/ create_pipes
    \/ create_process
    \/ close_own_ends
    \/ start_drains
    \/ resume
    \/ wait_timeout
    \/ wait_exited
    \/ close_job
    \/ join
    \/ cancel_io
    \/ return
    \/ return_not_started

(***************************************************************************)
(* The drain threads.                                                      *)
(***************************************************************************)
WriteEndOpen == own_ends \/ shell \in {"suspended", "alive"} \/ descendant = "alive"

(* What is over the cap is read and dropped. *)
append_capped(s, chunk) ==
    text' = IF Len(text[s]) < StreamCap THEN [text EXCEPT ![s] = Append(@, chunk)] ELSE text

enter_read(s) ==
    /\ reader[s] = "between"
    /\ reader' = [reader EXCEPT ![s] = "reading"]
    /\ UNCHANGED <<pipe, text>>

read_chunk(s) ==
    /\ reader[s] = "reading"
    /\ pipe[s] # <<>>
    /\ append_capped(s, Head(pipe[s]))
    /\ pipe' = [pipe EXCEPT ![s] = Tail(@)]
    /\ reader' = [reader EXCEPT ![s] = "between"]

(* ReadFile fails when the pipe is empty and every write end is closed.    *)
read_end(s) ==
    /\ reader[s] = "reading"
    /\ pipe[s] = <<>>
    /\ ~WriteEndOpen
    /\ reader' = [reader EXCEPT ![s] = "ended"]
    /\ UNCHANGED <<pipe, text>>

drain_pipe(s) == enter_read(s) \/ read_chunk(s) \/ read_end(s)

(***************************************************************************)
(* The script, which is whatever somebody wrote.                           *)
(***************************************************************************)
Write(s, chunk) ==
    /\ Len(pipe[s]) < PipeSize
    /\ pipe' = [pipe EXCEPT ![s] = Append(@, chunk)]

shell_writes ==
    /\ shell = "alive"
    /\ writes < MaxWrites
    /\ writes' = writes + 1
    /\ \/ Write("err", "text") /\ UNCHANGED said
       \/ \E chunk \in Chunk :
             /\ Write("out", chunk)
             /\ said' = IF chunk \in Verdict THEN chunk ELSE said
    /\ UNCHANGED <<shell, descendant, exited, reader, text>>

shell_starts_process ==
    /\ shell = "alive"
    /\ descendant = "none"
    /\ descendant' = "alive"
    /\ UNCHANGED <<shell, writes, said, exited, drains>>

shell_exits ==
    /\ shell = "alive"
    /\ shell' = "dead"
    /\ exited' \in Codes
    /\ UNCHANGED <<descendant, writes, said, drains>>

descendant_writes ==
    /\ descendant = "alive"
    /\ writes < MaxWrites
    /\ writes' = writes + 1
    /\ \E s \in Streams : Write(s, "text")
    /\ UNCHANGED <<shell, descendant, said, exited, reader, text>>

descendant_exits ==
    /\ descendant = "alive"
    /\ descendant' = "dead"
    /\ UNCHANGED <<shell, writes, said, exited, drains>>

Script ==
    \/ shell_writes
    \/ shell_starts_process
    \/ shell_exits
    \/ descendant_writes
    \/ descendant_exits

Drain(s) ==
    drain_pipe(s) /\ UNCHANGED <<at, file, own_ends, tree_kill, script, cancels, outcome>>

Returned == at = "returned"

Next ==
    \/ Runner
    \/ wait_failed
    \/ \E s \in Streams : Drain(s)
    \/ Script /\ UNCHANGED <<at, file, own_ends, tree_kill, cancels, outcome>>
    \/ Returned /\ UNCHANGED vars

Spec == Init /\ [][Next]_vars

(* The runner and its drain threads go on; the timeout comes.  Nothing is  *)
(* assumed of the script: it may never write, exit or leave.               *)
Fairness ==
    /\ WF_vars(Runner)
    /\ \A s \in Streams : WF_vars(Drain(s))

FairSpec == Spec /\ Fairness

---------------------------------------------------------------------------
(* ScriptOutcome::status(). *)
status ==
    IF ~outcome.started \/ outcome.timed_out THEN "Error"
    ELSE IF outcome.exit_code # "zero" \/ outcome.reported = "failed" THEN "Failed"
    ELSE "Completed"

(* Completed is said only of a script that ended by itself with code 0.    *)
(* Failed is said of one that ended by itself, and of one that run() could *)
(* not wait for: it is dead by now, but may never have run.  What was not  *)
(* started, or was killed for its time, is an Error, whatever its output   *)
(* and the exit code that the runner picked (script.cpp:71).               *)
StatusIsTrue ==
    Returned => /\ status = "Completed" => exited = "zero"
                /\ status = "Failed" => exited # "no" /\ shell = "dead"
                /\ shell = "none" \/ outcome.timed_out => status = "Error"

(* What script.cpp:71 says of the code of a killed run, that it is not     *)
(* reported as a verdict which the script reached.                         *)
FailedRanToItsEnd == Returned /\ status = "Failed" => exited \in Codes

(* The verdict that the script wrote last is the one in the outcome, when  *)
(* the script ended by itself: no output is lost between a pipe, a reader  *)
(* and the closing of the job (the design: the client parses the last such *)
(* line if present).                                                       *)
VerdictIsKept ==
    Returned /\ exited \in Codes => outcome.reported = said

(* When the run is over nothing of it is left: no temporary script, no     *)
(* shell, and in a job no process that the script started either           *)
(* (script_runner_windows.cpp:459).                                        *)
NothingOutlives ==
    Returned => /\ ~file
                /\ ~own_ends
                /\ shell \in {"none", "dead"} \/ outcome.timed_out
                /\ tree_kill => shell = "dead" /\ descendant # "alive"

(* Every run returns, whatever the script does: it prompts, fills both     *)
(* pipes, never exits, or leaves a process behind that holds the pipes     *)
(* open.                                                                   *)
RunReturns == <>Returned
============================================================================
