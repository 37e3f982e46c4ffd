------------------------------ MODULE RunStore ------------------------------
(***************************************************************************)
(* The runs directory, below the level of ServerRuns: save_run() writes a  *)
(* temporary file beside <run_id>.json and renames it (QSaveFile), the     *)
(* server may end between any two steps, the disk may refuse any of them,  *)
(* files may be damaged by others, and load_runs() reads what it finds at  *)
(* the next start.  ServerRuns takes a save as one step that succeeds or   *)
(* changes nothing; this module is why it may.                             *)
(*                                                                         *)
(* Of Qt: commit() renames atomically, and a temporary's name does not end *)
(* in .json.                                                               *)
(***************************************************************************)
EXTENDS Integers, FiniteSets, SequencesExt

CONSTANTS
    Runs,       \* run ids, in the order of their file names
    Versions,   \* what a run's record says, its time of issue left out
    NotUtf8,    \* those with output that is not UTF-8
    Times,      \* when a run may be issued, in ticks
    Tick,       \* ticks in a second
    Day         \* seconds in a day

RunsAssumption == Runs \subseteq Nat /\ NotUtf8 \subseteq Versions
TimeAssumption == Times \subseteq Nat /\ Tick \in Nat \ {0} /\ Day \in Nat \ {0}

Run == [run_id : Runs, version : Versions, issued_at : Times]
Document == [run_id : Runs, version : Versions, issued_at : Nat]

NoFile == [is |-> "absent"]
Damaged == [is |-> "damaged"]
File(d) == [is |-> "document", holds |-> d]
NoRun == [run_id |-> -1]

VARIABLES
    dir,       \* the files named <run_id>.json
    temporary, \* the temporaries that were left behind, by run id
    saving,    \* the run that save_run() is writing, or NoRun
    step,      \* how far it is
    saved,     \* history: the run that was last renamed to each file, or NoRun
    runs,      \* what load_runs() returned
    errors     \* and the files it complained of

vars == <<dir, temporary, saving, step, saved, runs, errors>>

Init ==
    /\ dir = [r \in Runs |-> NoFile]
    /\ temporary = {}
    /\ saving = NoRun /\ step = "idle"
    /\ saved = [r \in Runs |-> NoRun]
    /\ runs = {} /\ errors = {}

-----------------------------------------------------------------------------
(* A slip: seconds are rounded. *)
RoundedJson(run) == [run EXCEPT !.issued_at = (@ + Tick \div 2) \div Tick]

(* A record keeps whole seconds of its time of issue. *)
run_to_json(run) == [run EXCEPT !.issued_at = @ \div Tick]
run_from_json(document) == [document EXCEPT !.issued_at = @ * Tick]

(* A slip: the name is cut, and runs share it. *)
CutName(run_id) == CHOOSE r \in Runs : TRUE

run_file_path(run_id) == run_id

(* A slip: the file itself is opened and truncated. *)
OpenInPlace(run) ==
    /\ step = "idle"
    /\ step' = "opened" /\ saving' = run
    /\ dir' = [dir EXCEPT ![run.run_id] = Damaged]
    /\ UNCHANGED <<temporary, saved, runs, errors>>

(* save_run(): the directory and the temporary can be made. *)
open(run) ==
    /\ step = "idle"
    /\ step' = "opened" /\ saving' = run
    /\ temporary' = temporary \cup {run.run_id}
    /\ UNCHANGED <<dir, saved, runs, errors>>

write ==
    /\ step = "opened" /\ saving.version \notin NotUtf8
    /\ step' = "written"
    /\ UNCHANGED <<dir, temporary, saving, saved, runs, errors>>

(* dump() throws at a string that is not UTF-8, and only main() catches    *)
(* it, outside the event loop: the server ends.                            *)
dump_throws ==
    /\ step = "opened" /\ saving.version \in NotUtf8
    /\ step' = "ended"
    /\ temporary' \in {temporary, temporary \ {saving.run_id}}
    /\ UNCHANGED <<dir, saving, saved, runs, errors>>

commit ==
    /\ step = "written"
    /\ dir' = [dir EXCEPT ![run_file_path(saving.run_id)] = File(run_to_json(saving))]
    /\ saved' = [saved EXCEPT ![saving.run_id] = saving]
    /\ temporary' = temporary \ {saving.run_id}
    /\ step' = "idle" /\ saving' = NoRun
    /\ UNCHANGED <<runs, errors>>

(* Any of the three is refused; the temporary goes with the QSaveFile. *)
save_fails ==
    /\ step \in {"opened", "written"}
    /\ temporary' = temporary \ {saving.run_id}
    /\ step' = "idle" /\ saving' = NoRun
    /\ UNCHANGED <<dir, saved, runs, errors>>

delete_run(r) ==
    /\ step = "idle" /\ dir[r] # NoFile
    /\ dir' = [dir EXCEPT ![r] = NoFile]
    /\ saved' = [saved EXCEPT ![r] = NoRun]
    /\ UNCHANGED <<temporary, saving, step, runs, errors>>

(* Somebody else truncates or edits a file. *)
damage(r) ==
    /\ step = "idle" /\ dir[r].is = "document"
    /\ dir' = [dir EXCEPT ![r] = Damaged]
    /\ UNCHANGED <<temporary, saving, step, saved, runs, errors>>

(* A slip: a file that cannot be read ends the loop. *)
LoadUntilError ==
    LET readable(r) == \A q \in Runs : q <= r => dir[q].is # "damaged"
    IN {run_from_json(dir[r].holds) : r \in {q \in Runs : dir[q].is = "document" /\ readable(q)}}

load_runs == {run_from_json(dir[r].holds) : r \in {q \in Runs : dir[q].is = "document"}}

(* The process ends, in the middle of a save or not, and starts again. *)
restart ==
    /\ step' = "idle" /\ saving' = NoRun
    /\ runs' = load_runs
    /\ errors' = {r \in Runs : dir[r].is = "damaged"}
    /\ UNCHANGED <<dir, temporary, saved>>

Next ==
    \/ \E run \in Run : open(run)
    \/ write \/ dump_throws \/ commit \/ save_fails \/ restart
    \/ \E r \in Runs : delete_run(r) \/ damage(r)

Spec == Init /\ [][Next]_vars

-----------------------------------------------------------------------------
(* Every variable has its type; a file holds the run it is named after. *)
TypeOK ==
    /\ \A r \in Runs :
          \/ dir[r] \in {NoFile, Damaged}
          \/ dir[r].is = "document" /\ dir[r].holds \in Document /\ dir[r].holds.run_id = r
    /\ temporary \subseteq Runs
    /\ saving \in Run \cup {NoRun} /\ step \in {"idle", "opened", "written", "ended"}
    /\ saved \in [Runs -> Run \cup {NoRun}]
    /\ errors \subseteq Runs

Loaded(r) == {run \in runs : run.run_id = r}

(* What a start loads is what was saved, for every file that nobody        *)
(* damaged: a save that was cut off or refused at any step has left the    *)
(* record before it whole, and a damaged file costs itself only and is     *)
(* named in an error.                                                      *)
LoadsWhatWasSaved ==
    [][restart => \A r \in Runs :
          IF dir[r] = Damaged THEN r \in errors'
          ELSE IF saved[r] = NoRun THEN Loaded(r)' = {}
          ELSE \E run \in runs' : /\ run.run_id = r /\ run.version = saved[r].version
                                  /\ Loaded(r)' = {run}]_vars

(* Nothing that save_run() does damages a record, whenever it is cut off   *)
(* (its comment: an old file intact rather than a truncated one).          *)
SavingDamagesNothing ==
    [][\A r \in Runs : dir[r] # Damaged /\ dir'[r] = Damaged => step = "idle" /\ saving' = NoRun]_vars

(* A record that is loaded again belongs to the day it was issued on, by   *)
(* which the history deletes: the seconds that are kept round down.        *)
DayOf(time) == time \div (Tick * Day)
DayIsKept ==
    \A r \in Runs : dir[r].is = "document" =>
        DayOf(run_from_json(dir[r].holds).issued_at) = DayOf(saved[r].issued_at)

(* Broken by the code: save_run() answers, with false and an error when it *)
(* fails (run_store.hpp).  Output that is not UTF-8 ends the server, at    *)
(* the save and in the middle of the handler that asked for it.            *)
EverySaveReturns == step # "ended"
=============================================================================
