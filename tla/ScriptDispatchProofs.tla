----------------------- MODULE ScriptDispatchProofs -----------------------
(***************************************************************************)
(* Proofs about ScriptDispatch, for every set of hosts and of runs and for *)
(* a network that redelivers or does not.                                  *)
(***************************************************************************)
EXTENDS ScriptDispatch, TLAPS

---------------------------------------------------------------------------
(* The operators of script_run.cpp keep a run a run.                       *)

LEMMA RunOperators ==
    ASSUME NEW run \in Run
    PROVE  /\ apply_deadline(run) \in Run
           /\ \A h \in Hosts, s \in ScriptStatus : apply_result(run, h, s) \in Run
  BY DEF apply_deadline, apply_result, state_for, Run, TargetState, ScriptStatus

LEMMA DispatchedRunIsRun ==
    ASSUME NEW targets \in SUBSET Hosts, NEW ready \in SUBSET Hosts
    PROVE  DispatchedRun(targets, ready) \in Run
  BY DEF DispatchedRun, Run, TargetState

LEMMA ListedIsRun ==
    ASSUME ServerTypeOK, NEW r \in Listed
    PROVE  r \in Runs /\ script_runs[r] \in Run
  BY DEF ServerTypeOK, Listed

LEMMA PersistType ==
    ASSUME ServerTypeOK, NEW r \in Runs, NEW run \in Run,
           persist_run_if_finished(r, run)
    PROVE  /\ disk' \in [Runs -> Run \cup {NoRun}]
           /\ saved_runs' \subseteq Runs
           /\ unsaved' \subseteq Runs
  BY DEF ServerTypeOK, persist_run_if_finished, save_run

LEMMA TakeCommandType ==
    ASSUME TopicsTypeOK, NEW h \in Hosts, NEW cmd \in Command,
           take_script_command(h, cmd)
    PROVE  /\ inbox' \in [Hosts -> SUBSET Command]
           /\ \A g \in Hosts : inbox'[g] \subseteq inbox[g]
  BY DEF TopicsTypeOK, take_script_command, LeftAfter

---------------------------------------------------------------------------
(* Type correctness.                                                       *)

LEMMA DeleteType ==
    ASSUME TopicsTypeOK, ServerTypeOK, NEW left \in SUBSET Runs, NEW saved \in SUBSET Runs,
           NEW doomed \in SUBSET Runs, Delete(left, saved, doomed)
    PROVE  TopicsTypeOK' /\ ServerTypeOK'
<1> USE DEF Delete, topics, ServerTypeOK, TopicsTypeOK
<1>1. CASE FinishDeletion(left, saved, doomed)
  BY <1>1 DEF FinishDeletion, Remove, Forget, NoDeletion, Deletion
<1>2. CASE StopDeletion(left, saved, doomed)
  <2>1. /\ disk' \in [Runs -> Run \cup {NoRun}]
        /\ saved_runs' \subseteq Runs
        /\ UNCHANGED <<script_runs, gone>>
    BY <1>2 DEF StopDeletion, Remove
  <2>2. deletion' \in Deletion
    BY <1>2 DEF StopDeletion, Deletion
  <2> QED BY <2>1, <2>2
<1> QED BY <1>1, <1>2

LEMMA ServerStepType ==
    ASSUME TopicsTypeOK, ServerTypeOK, ServerStep
    PROVE  TopicsTypeOK' /\ ServerTypeOK'
<1>1. ASSUME NEW r \in Runs, NEW targets \in (SUBSET Hosts) \ {{}},
             NEW ready \in SUBSET Hosts, start_script_run(r, targets, ready)
      PROVE  TopicsTypeOK' /\ ServerTypeOK'
  <2> DEFINE run == DispatchedRun(targets, ready)
             cmds == [host : Waiting(run), run : {r}]
  <2>1. run \in Run
    BY DispatchedRunIsRun
  <2>2. cmds \subseteq Command
    BY DEF Command, Waiting
  <2>3. TopicsTypeOK'
    BY <1>1, <2>2 DEF start_script_run, publish_script_command, TopicsTypeOK
  <2>4. ServerTypeOK'
    BY <1>1, <2>1, <2>2, PersistType DEF start_script_run, ServerTypeOK
  <2> QED BY <2>3, <2>4
<1>2. ASSUME NEW m \in results, on_script_result(m)
      PROVE  TopicsTypeOK' /\ ServerTypeOK'
  <2>1. TopicsTypeOK'
    BY <1>2 DEF on_script_result, TakeResult, LeftAfter, TopicsTypeOK
  <2>2. m \in Result
    BY DEF TopicsTypeOK
  <2>3. CASE Accepts(m)
    <3> DEFINE run == apply_result(script_runs[m.run], m.host, m.status)
    <3>1. m.run \in Runs /\ run \in Run
      BY <2>2, <2>3, ListedIsRun, RunOperators DEF Accepts, Result
    <3>2. ServerTypeOK'
      BY <1>2, <2>3, <3>1, PersistType DEF on_script_result, ServerTypeOK
    <3> QED BY <2>1, <3>2
  <2>4. CASE ~Accepts(m)
    BY <1>2, <2>1, <2>4 DEF on_script_result, ServerTypeOK
  <2> QED BY <2>3, <2>4
<1>3. ASSUME NEW r \in deadlines, on_run_deadline(r)
      PROVE  TopicsTypeOK' /\ ServerTypeOK'
  <2>1. r \in Runs
    BY DEF ServerTypeOK
  <2>2. TopicsTypeOK'
    BY <1>3 DEF on_run_deadline, topics, TopicsTypeOK
  <2>3. CASE r \in Listed /\ Waiting(script_runs[r]) # {}
    <3> DEFINE run == apply_deadline(script_runs[r])
    <3>1. run \in Run
      BY <2>3, ListedIsRun, RunOperators
    <3>2. ServerTypeOK'
      BY <1>3, <2>1, <2>3, <3>1, PersistType DEF on_run_deadline, ServerTypeOK
    <3> QED BY <2>2, <3>2
  <2>4. CASE ~(r \in Listed /\ Waiting(script_runs[r]) # {})
    BY <1>3, <2>2, <2>4 DEF on_run_deadline, ServerTypeOK
  <2> QED BY <2>3, <2>4
<1>4. ASSUME NEW left \in SUBSET Runs, NEW saved \in SUBSET Runs,
             NEW doomed \in SUBSET Runs, Delete(left, saved, doomed)
      PROVE  TopicsTypeOK' /\ ServerTypeOK'
  BY <1>4, DeleteType
<1>5. ASSUME RestartServer
      PROVE  TopicsTypeOK' /\ ServerTypeOK'
  BY <1>5 DEF RestartServer, OnDisk, NoDeletion, Deletion, TopicsTypeOK, ServerTypeOK
<1>6. CASE close_box
  BY <1>4, <1>6 DEF close_box, ServerTypeOK, Deletion
<1>7. ASSUME NEW r \in Runs, delete_script_run(r)
      PROVE  TopicsTypeOK' /\ ServerTypeOK'
  BY <1>4, <1>7 DEF delete_script_run, ServerTypeOK
<1>8. ASSUME NEW doomed \in SUBSET Runs, delete_script_runs_before(doomed)
      PROVE  TopicsTypeOK' /\ ServerTypeOK'
  BY <1>4, <1>8 DEF delete_script_runs_before, ServerTypeOK
<1> QED
  BY <1>1, <1>2, <1>3, <1>5, <1>6, <1>7, <1>8 DEF ServerStep

LEMMA ClientStepType ==
    ASSUME TopicsTypeOK, ClientTypeOK, NEW h \in Hosts,
           ClientStep(h) \/ RestartClient(h)
    PROVE  TopicsTypeOK' /\ ClientTypeOK'
<1> USE DEF ClientTypeOK, client
<1>1. ASSUME NEW cmd \in inbox[h], on_script_command(h, cmd)
      PROVE  TopicsTypeOK' /\ ClientTypeOK'
  <2>1. cmd \in Command /\ cmd.run \in Runs
    BY DEF TopicsTypeOK, Command
  <2>2. CASE IgnoreForeign(h, cmd) \/ IgnoreRepeat(h, cmd)
    BY <2>1, <2>2, TakeCommandType DEF IgnoreForeign, IgnoreRepeat, TopicsTypeOK
  <2>3. CASE RefuseNotEnrolled(h, cmd) \/ RefuseBusy(h, cmd)
    <3>1. [host |-> h, run |-> cmd.run, status |-> "Refused"] \in Result
      BY <2>1 DEF Result, ScriptStatus
    <3> QED
      BY <2>1, <2>3, <3>1, TakeCommandType
      DEF RefuseNotEnrolled, RefuseBusy, refuse_script, TopicsTypeOK
  <2>4. CASE StartScript(h, cmd)
    <3>1. [run |-> cmd.run, status |-> "Running"] \in Job
      BY <2>1 DEF Job
    <3>2. TopicsTypeOK' /\ succeeded' = succeeded
      BY <2>1, <2>4, TakeCommandType DEF StartScript, TopicsTypeOK
    <3>3. ClientTypeOK'
      BY <2>1, <2>4, <3>1, <3>2 DEF StartScript
    <3> QED BY <3>2, <3>3
  <2> QED BY <1>1, <2>2, <2>3, <2>4 DEF on_script_command
<1>2. ASSUME NEW job \in jobs[h], NEW status \in RunnerStatus,
             FinishScript(h, job, status)
      PROVE  TopicsTypeOK' /\ ClientTypeOK'
  <2>1. [run |-> job.run, status |-> status] \in Job
    BY DEF Job
  <2>2. job.run \in Runs
    BY DEF Job
  <2>3. jobs' \in [Hosts -> SUBSET Job] /\ TopicsTypeOK'
    BY <1>2, <2>1 DEF FinishScript, topics, TopicsTypeOK
  <2>4. succeeded' \in [Hosts -> SUBSET Runs]
    BY <1>2, <2>2 DEF FinishScript
  <2> QED BY <1>2, <2>3, <2>4 DEF FinishScript
<1>3. ASSUME NEW job \in jobs[h], publish_script_outcome(h, job)
      PROVE  TopicsTypeOK' /\ ClientTypeOK'
  <2>1. [host |-> h, run |-> job.run, status |-> job.status] \in Result
    BY <1>3 DEF publish_script_outcome, Running, Job, Result, RunnerStatus, ScriptStatus
  <2> QED BY <1>3, <2>1 DEF publish_script_outcome, TopicsTypeOK
<1>4. ASSUME RestartClient(h)
      PROVE  TopicsTypeOK' /\ ClientTypeOK'
  BY <1>4 DEF RestartClient, TopicsTypeOK
<1> QED BY <1>1, <1>2, <1>3, <1>4 DEF ClientStep

LEMMA LossType ==
    ASSUME TopicsTypeOK, (\E h \in Hosts : LoseCommand(h)) \/ LoseResult
    PROVE  TopicsTypeOK'
  BY DEF TopicsTypeOK, LoseCommand, LoseResult

LEMMA InitType == Init => TypeOK
  BY DEF Init, TopicsInit, ServerInit, ClientInit,
         TypeOK, TopicsTypeOK, ServerTypeOK, ClientTypeOK, NoDeletion, Deletion

LEMMA NextType == TypeOK /\ [Next]_vars => TypeOK'
<1> SUFFICES ASSUME TypeOK, [Next]_vars PROVE TypeOK'
  OBVIOUS
<1> USE DEF TypeOK
<1>1. CASE ServerStep /\ UNCHANGED client
  BY <1>1, ServerStepType DEF client, ClientTypeOK
<1>2. ASSUME NEW h \in Hosts, ClientStep(h) \/ RestartClient(h), UNCHANGED server
      PROVE  TypeOK'
  BY <1>2, ClientStepType DEF server, ServerTypeOK
<1>3. CASE ((\E h \in Hosts : LoseCommand(h)) \/ LoseResult) /\ UNCHANGED <<server, client>>
  BY <1>3, LossType DEF server, ServerTypeOK, client, ClientTypeOK
<1>4. CASE UNCHANGED vars
  BY <1>4 DEF vars, topics, TopicsTypeOK, server, ServerTypeOK, client, ClientTypeOK
<1> QED BY <1>1, <1>2, <1>3, <1>4 DEF Next

(* Every variable keeps its type, whatever the hosts and the runs. *)
THEOREM TypeCorrect == Spec => []TypeOK
  BY InitType, NextType, PTL DEF Spec

---------------------------------------------------------------------------
(* The server's records.  ServerBookkeeping is what makes the rest         *)
(* inductive: a restart loads what is on disk, so what is on disk must be  *)
(* finished, and a new run id must be new to the disk and to the deleted.  *)

ServerInv ==
    /\ WaitingRunHasDeadline
    /\ HistoryMatchesDisk
    /\ DeletedStaysDeleted
    /\ ServerBookkeeping

LEMMA FinishedIsNotWaiting ==
    ASSUME NEW run \in Run
    PROVE  is_finished(run) => Waiting(run) = {}
  BY DEF is_finished, Waiting

(* One run changes and is persisted if it is finished. *)
LEMMA PersistKeepsServerInv ==
    ASSUME TypeOK, ServerInv, NEW r \in Runs, NEW run \in Run,
           r \notin gone,
           r \in Listed \/ r \notin OnDisk,
           r \in OnDisk => is_finished(run) /\ Audit!Corrects(disk[r], run),
           script_runs' = [script_runs EXCEPT ![r] = run],
           persist_run_if_finished(r, run),
           \A q \in deadlines : q = r \/ q \in deadlines',
           Waiting(run) # {} => r \in deadlines',
           issued' = issued \cup {r},
           deletion' = deletion,
           gone' = gone
    PROVE  ServerInv'
<1> run # NoRun
  BY NoRunAssumption
<1>1. Listed' = Listed \cup {r} /\ script_runs'[r] = run
  BY DEF Listed, TypeOK, ServerTypeOK
<1>2. \A q \in Runs \ {r} :
         /\ script_runs'[q] = script_runs[q] /\ disk'[q] = disk[q]
         /\ q \in saved_runs' <=> q \in saved_runs
         /\ q \in unsaved' <=> q \in unsaved
  BY DEF persist_run_if_finished, save_run, TypeOK, ServerTypeOK
<1>3. \A q \in Runs \ {r} : q \in OnDisk' <=> q \in OnDisk
  BY <1>2 DEF OnDisk
<1>4. r \notin deletion.doomed => (r \in saved_runs <=> r \in OnDisk)
  BY DEF ServerInv, HistoryMatchesDisk, ServerBookkeeping
<1>5. \/ /\ is_finished(run) /\ disk'[r] = run
         /\ r \in saved_runs' /\ r \in OnDisk'
      \/ /\ disk'[r] = disk[r]
         /\ r \in OnDisk' <=> r \in OnDisk
         /\ r \in saved_runs' <=> r \in saved_runs
         /\ is_finished(run) => r \in unsaved'
  BY DEF persist_run_if_finished, save_run, TypeOK, ServerTypeOK, OnDisk
<1>6. WaitingRunHasDeadline'
  BY <1>1, <1>2 DEF ServerInv, WaitingRunHasDeadline, Listed, Waiting
<1>7. HistoryMatchesDisk'
  <2>1. ASSUME NEW q \in Listed'
        PROVE  /\ q \in OnDisk' /\ q \notin unsaved' => disk'[q] = script_runs'[q]
               /\ ~is_finished(script_runs'[q]) => q \notin OnDisk'
               /\ q \notin deletion.doomed =>
                     /\ is_finished(script_runs'[q]) /\ q \notin unsaved' => q \in OnDisk'
                     /\ q \in saved_runs' <=> q \in OnDisk'
    <3>1. CASE q = r
      BY <3>1, <1>1, <1>4, <1>5
    <3>2. CASE q # r
      BY <3>2, <1>1, <1>2, <1>3 DEF ServerInv, HistoryMatchesDisk, Listed
    <3> QED BY <3>1, <3>2
  <2> QED BY <2>1 DEF HistoryMatchesDisk, is_finished
<1>8. DeletedStaysDeleted'
  BY <1>1, <1>3 DEF ServerInv, DeletedStaysDeleted, OnDisk
<1>9. ServerBookkeeping'
  <2>1. \A q \in OnDisk' : is_finished(disk'[q])
    BY <1>2, <1>3, <1>5 DEF ServerInv, ServerBookkeeping, OnDisk
  <2>2. Listed' \cup OnDisk' \cup gone' \subseteq issued'
    BY <1>1, <1>3 DEF ServerInv, ServerBookkeeping, OnDisk
  <2>3. saved_runs' \subseteq OnDisk'
    BY <1>2, <1>3, <1>5, PersistType DEF ServerInv, ServerBookkeeping, TypeOK, OnDisk
  <2>4. \A q \in Listed' \cap OnDisk' : Audit!Corrects(disk'[q], script_runs'[q])
    <3>1. Audit!Corrects(run, run)
      BY DEF Audit!Corrects
    <3> QED BY <3>1, <1>1, <1>2, <1>3, <1>5 DEF ServerInv, ServerBookkeeping, Listed
  <2>5. /\ deletion.left \cup deletion.stuck \subseteq deletion.doomed
        /\ deletion.doomed \subseteq Listed'
    BY <1>1 DEF ServerInv, ServerBookkeeping
  <2> QED BY <2>1, <2>2, <2>3, <2>4, <2>5 DEF ServerBookkeeping, is_finished, Audit!Corrects
<1> QED BY <1>6, <1>7, <1>8, <1>9 DEF ServerInv

(* A stretch of a deletion, from its start or from the closing of a box.   *)
LEMMA DeleteKeepsServerInv ==
    ASSUME TypeOK, ServerInv, NEW doomed \in SUBSET Listed, NEW left \in SUBSET doomed,
           NEW stuck \in SUBSET doomed,
           Delete(left, saved_runs \ stuck, doomed),
           deletion.doomed \subseteq doomed,
           deletion = NoDeletion => left = doomed /\ stuck = {}
    PROVE  ServerInv'
<1>0. UNCHANGED <<deadlines, issued, unsaved>>
  BY DEF Delete
<1>1. CASE FinishDeletion(left, saved_runs \ stuck, doomed)
  <2>1. PICK quiet \in Unnoticed(left, saved_runs \ stuck) : Remove(left \ quiet)
    BY <1>1 DEF FinishDeletion
  <2>2. \A q \in Runs :
           /\ q \in doomed => script_runs'[q] = NoRun
           /\ q \notin doomed => script_runs'[q] = script_runs[q]
           /\ q \in left \ quiet => disk'[q] = NoRun
           /\ q \notin left \ quiet => disk'[q] = disk[q]
    BY <1>1, <2>1 DEF FinishDeletion, Forget, Remove
  <2>3. Listed' = Listed \ doomed
    BY <2>2 DEF Listed
  <2>4. OnDisk' = OnDisk \ (left \ quiet)
    BY <2>2 DEF OnDisk
  <2>5. /\ saved_runs' = (saved_runs \ stuck) \ left
        /\ deletion' = NoDeletion
        /\ gone' = gone \cup IF deletion = NoDeletion THEN doomed
                             ELSE {r \in doomed : disk'[r] = NoRun}
    BY <1>1 DEF FinishDeletion, Forget
  <2>6. ASSUME deletion = NoDeletion
        PROVE  quiet = {}
    BY <2>1, <2>6 DEF Unnoticed, ServerInv, HistoryMatchesDisk, NoDeletion
  <2>7. WaitingRunHasDeadline'
    BY <1>0, <2>2, <2>3 DEF ServerInv, WaitingRunHasDeadline, Listed, Waiting
  <2>8. HistoryMatchesDisk'
    BY <1>0, <2>2, <2>3, <2>4, <2>5
    DEF ServerInv, HistoryMatchesDisk, Listed, is_finished, NoDeletion
  <2>9. DeletedStaysDeleted'
    <3>1. ASSUME NEW r \in gone'
          PROVE  r \notin Listed' /\ r \notin OnDisk'
      <4>1. CASE r \in gone
        BY <2>3, <2>4, <4>1 DEF ServerInv, DeletedStaysDeleted
      <4>2. CASE r \in doomed /\ deletion = NoDeletion
        BY <2>3, <2>4, <2>6, <4>2
      <4>3. CASE r \in doomed /\ disk'[r] = NoRun
        BY <2>3, <4>3 DEF OnDisk
      <4> QED BY <2>5, <4>1, <4>2, <4>3
    <3> QED BY <3>1 DEF DeletedStaysDeleted
  <2>10. ServerBookkeeping'
    <3>1. \A q \in OnDisk' : is_finished(disk'[q])
      BY <2>2, <2>4 DEF ServerInv, ServerBookkeeping, OnDisk
    <3>2. Listed' \cup OnDisk' \cup gone' \subseteq issued'
      BY <1>0, <2>3, <2>4, <2>5 DEF ServerInv, ServerBookkeeping
    <3>3. saved_runs' \subseteq OnDisk'
      BY <2>4, <2>5 DEF ServerInv, ServerBookkeeping
    <3>4. \A q \in Listed' \cap OnDisk' : Audit!Corrects(disk'[q], script_runs'[q])
      BY <2>2, <2>3, <2>4 DEF ServerInv, ServerBookkeeping, Listed
    <3>5. /\ deletion'.left \cup deletion'.stuck \subseteq deletion'.doomed
          /\ deletion'.doomed \subseteq Listed'
      BY <2>5 DEF NoDeletion
    <3> QED BY <3>1, <3>2, <3>3, <3>4, <3>5 DEF ServerBookkeeping, is_finished, Audit!Corrects
  <2> QED BY <2>7, <2>8, <2>9, <2>10 DEF ServerInv
<1>2. CASE StopDeletion(left, saved_runs \ stuck, doomed)
  <2>1. PICK r \in left \cap OnDisk, done \in SUBSET left :
          /\ r \notin done
          /\ \E quiet \in Unnoticed(done, saved_runs \ stuck) : Remove(done \ quiet)
          /\ saved_runs' = (saved_runs \ stuck) \ done
          /\ deletion' = [left |-> left \ (done \cup {r}), stuck |-> {r}, doomed |-> doomed]
          /\ UNCHANGED <<script_runs, gone>>
    BY <1>2 DEF StopDeletion
  <2>2. PICK quiet \in Unnoticed(done, saved_runs \ stuck) : Remove(done \ quiet)
    BY <2>1
  <2>3. \A q \in Runs : /\ q \in done \ quiet => disk'[q] = NoRun
                        /\ q \notin done \ quiet => disk'[q] = disk[q]
    BY <2>2 DEF Remove
  <2>4. Listed' = Listed /\ script_runs' = script_runs /\ gone' = gone
    BY <2>1 DEF Listed
  <2>5. OnDisk' = OnDisk \ (done \ quiet)
    BY <2>3 DEF OnDisk
  <2>6. deletion'.doomed = doomed
    BY <2>1
  <2>7. WaitingRunHasDeadline'
    BY <1>0, <2>4 DEF ServerInv, WaitingRunHasDeadline, Listed, Waiting
  <2>8. HistoryMatchesDisk'
    <3>1. \A q \in Listed \ doomed :
             /\ q \in saved_runs' <=> q \in saved_runs
             /\ q \in OnDisk' <=> q \in OnDisk
      BY <2>1, <2>5
    <3>2. \A q \in Listed' :
             /\ q \in OnDisk' \ unsaved' => disk'[q] = script_runs'[q]
             /\ ~is_finished(script_runs'[q]) => q \notin OnDisk'
      BY <1>0, <2>3, <2>4, <2>5 DEF ServerInv, HistoryMatchesDisk, Listed
    <3>3. \A q \in Listed' \ doomed :
             /\ is_finished(script_runs'[q]) /\ q \notin unsaved' => q \in OnDisk'
             /\ q \in saved_runs' <=> q \in OnDisk'
      BY <1>0, <2>4, <3>1 DEF ServerInv, HistoryMatchesDisk
    <3> QED BY <2>6, <3>2, <3>3 DEF HistoryMatchesDisk, is_finished
  <2>9. DeletedStaysDeleted'
    BY <2>4, <2>5 DEF ServerInv, DeletedStaysDeleted
  <2>10. ServerBookkeeping'
    <3>1. \A q \in OnDisk' : is_finished(disk'[q])
      BY <2>3, <2>5 DEF ServerInv, ServerBookkeeping, OnDisk
    <3>2. Listed' \cup OnDisk' \cup gone' \subseteq issued'
      BY <1>0, <2>4, <2>5 DEF ServerInv, ServerBookkeeping
    <3>3. saved_runs' \subseteq OnDisk'
      BY <2>1, <2>5 DEF ServerInv, ServerBookkeeping
    <3>4. \A q \in Listed' \cap OnDisk' : Audit!Corrects(disk'[q], script_runs'[q])
      BY <2>3, <2>4, <2>5 DEF ServerInv, ServerBookkeeping, Listed
    <3>5. /\ deletion'.left \cup deletion'.stuck \subseteq deletion'.doomed
          /\ deletion'.doomed \subseteq Listed'
      BY <2>1, <2>4
    <3> QED BY <3>1, <3>2, <3>3, <3>4, <3>5 DEF ServerBookkeeping, is_finished, Audit!Corrects
  <2> QED BY <2>7, <2>8, <2>9, <2>10 DEF ServerInv
<1> QED BY <1>1, <1>2 DEF Delete

LEMMA RestartKeepsServerInv ==
    ASSUME TypeOK, ServerInv, RestartServer
    PROVE  ServerInv'
<1>1. /\ script_runs' = disk /\ disk' = disk
      /\ saved_runs' = OnDisk /\ Listed' = OnDisk /\ OnDisk' = OnDisk
      /\ issued' = issued /\ gone' = gone /\ deletion' = NoDeletion
  BY DEF RestartServer, Listed, OnDisk
<1>2. \A r \in OnDisk :
         /\ is_finished(disk[r])
         /\ Waiting(disk[r]) = {}
         /\ Audit!Corrects(disk[r], disk[r])
  BY FinishedIsNotWaiting
  DEF ServerInv, ServerBookkeeping, OnDisk, TypeOK, ServerTypeOK, Audit!Corrects
<1>3. WaitingRunHasDeadline' /\ HistoryMatchesDisk' /\ DeletedStaysDeleted'
  BY <1>1, <1>2
  DEF ServerInv, WaitingRunHasDeadline, HistoryMatchesDisk, DeletedStaysDeleted,
      Waiting, is_finished
<1>4. ServerBookkeeping'
  BY <1>1, <1>2 DEF ServerInv, ServerBookkeeping, is_finished, Audit!Corrects, NoDeletion
<1> QED BY <1>3, <1>4 DEF ServerInv

LEMMA ServerStepKeepsServerInv ==
    ASSUME TypeOK, ServerInv, ServerStep
    PROVE  ServerInv'
<1>1. ASSUME NEW r \in Runs, NEW targets \in (SUBSET Hosts) \ {{}},
             NEW ready \in SUBSET Hosts, start_script_run(r, targets, ready)
      PROVE  ServerInv'
  <2> DEFINE run == DispatchedRun(targets, ready)
  <2>1. run \in Run
    BY DispatchedRunIsRun
  <2>2. r \notin Listed /\ r \notin OnDisk /\ r \notin gone
    BY <1>1 DEF start_script_run, ServerInv, ServerBookkeeping
  <2>3. /\ script_runs' = [script_runs EXCEPT ![r] = run]
        /\ persist_run_if_finished(r, run)
        /\ deadlines' = IF Waiting(run) = {} THEN deadlines ELSE deadlines \cup {r}
        /\ issued' = issued \cup {r} /\ gone' = gone /\ deletion' = deletion
    BY <1>1 DEF start_script_run
  <2> QED BY <2>1, <2>2, <2>3, PersistKeepsServerInv
<1>2. ASSUME NEW m \in results, on_script_result(m)
      PROVE  ServerInv'
  <2>1. m.run \in Runs /\ m.host \in Hosts /\ m.status \in ScriptStatus
    BY DEF TypeOK, TopicsTypeOK, Result
  <2>2. CASE Accepts(m)
    <3> DEFINE r == m.run
               old == script_runs[r]
               run == apply_result(old, m.host, m.status)
    <3>1. r \in Listed /\ old \in Run /\ run \in Run
      BY <2>1, <2>2, ListedIsRun, RunOperators DEF Accepts, TypeOK
    <3>2. r \notin gone /\ r \in issued
      BY <3>1 DEF ServerInv, DeletedStaysDeleted, ServerBookkeeping
    <3>3. Waiting(run) # {} => r \in deadlines
      BY <2>1, <3>1 DEF ServerInv, WaitingRunHasDeadline, Waiting, apply_result,
                        state_for, ScriptStatus, Run
    <3>4. ASSUME r \in OnDisk
          PROVE  is_finished(run) /\ Audit!Corrects(disk[r], run)
      <4>1. is_finished(old) /\ Audit!Corrects(disk[r], old)
        BY <3>1, <3>4 DEF ServerInv, HistoryMatchesDisk, ServerBookkeeping
      <4>2. old[m.host] = "NoResponse"
        BY <2>1, <2>2, <4>1 DEF Accepts, is_finished
      <4>3. disk[r][m.host] = "NoResponse"
        BY <2>1, <4>1, <4>2 DEF Audit!Corrects, Answered, Audit!Answered
      <4>4. /\ run[m.host] \in Answered
            /\ \A h \in Hosts \ {m.host} : run[h] = old[h]
        BY <2>1, <3>1 DEF apply_result, state_for, ScriptStatus, Answered, Run
      <4> QED BY <2>1, <4>1, <4>3, <4>4
              DEF is_finished, Audit!Corrects, Answered, Audit!Answered
    <3>5. /\ script_runs' = [script_runs EXCEPT ![r] = run]
          /\ persist_run_if_finished(r, run)
          /\ UNCHANGED <<deadlines, issued, deletion, gone>>
      BY <1>2, <2>2 DEF on_script_result
    <3>6. issued' = issued \cup {r}
      BY <3>2, <3>5
    <3> QED BY <2>1, <3>1, <3>2, <3>3, <3>4, <3>5, <3>6, PersistKeepsServerInv
  <2>3. CASE ~Accepts(m)
    <3>1. UNCHANGED <<script_runs, disk, saved_runs, unsaved, deadlines, issued, deletion,
                      gone>>
      BY <1>2, <2>3 DEF on_script_result
    <3> QED BY <3>1
        DEF ServerInv, WaitingRunHasDeadline, HistoryMatchesDisk, DeletedStaysDeleted,
            ServerBookkeeping, Listed, OnDisk, Waiting, is_finished, Audit!Corrects
  <2> QED BY <2>2, <2>3
<1>3. ASSUME NEW r \in deadlines, on_run_deadline(r)
      PROVE  ServerInv'
  <2>1. r \in Runs
    BY DEF TypeOK, ServerTypeOK
  <2>2. CASE r \in Listed /\ Waiting(script_runs[r]) # {}
    <3> DEFINE old == script_runs[r]
               run == apply_deadline(old)
    <3>1. old \in Run /\ run \in Run
      BY <2>2, ListedIsRun, RunOperators DEF TypeOK
    <3>2. r \notin gone /\ r \in issued
      BY <2>2 DEF ServerInv, DeletedStaysDeleted, ServerBookkeeping
    <3>3. Waiting(run) = {}
      BY DEF Waiting, apply_deadline
    <3>4. r \notin OnDisk
      BY <2>2, <3>1, FinishedIsNotWaiting DEF ServerInv, HistoryMatchesDisk
    <3>5. /\ script_runs' = [script_runs EXCEPT ![r] = run]
          /\ persist_run_if_finished(r, run)
          /\ deadlines' = deadlines \ {r}
          /\ issued' = issued /\ gone' = gone /\ deletion' = deletion
      BY <1>3, <2>2 DEF on_run_deadline
    <3>6. issued' = issued \cup {r}
      BY <3>2, <3>5
    <3> QED BY <2>1, <3>1, <3>2, <3>3, <3>4, <3>5, <3>6, PersistKeepsServerInv
  <2>3. CASE ~(r \in Listed /\ Waiting(script_runs[r]) # {})
    <3>1. /\ UNCHANGED <<script_runs, disk, saved_runs, unsaved, issued, deletion, gone>>
          /\ deadlines' = deadlines \ {r}
      BY <1>3, <2>3 DEF on_run_deadline
    <3>2. WaitingRunHasDeadline'
      BY <2>3, <3>1 DEF ServerInv, WaitingRunHasDeadline, Listed, Waiting
    <3> QED BY <3>1, <3>2
        DEF ServerInv, HistoryMatchesDisk, DeletedStaysDeleted,
            ServerBookkeeping, Listed, OnDisk, is_finished, Audit!Corrects
  <2> QED BY <2>2, <2>3
<1>0. NoDeletion.doomed = {} /\ saved_runs \ {} = saved_runs
  BY DEF NoDeletion
<1>4. ASSUME NEW r \in Runs, delete_script_run(r)
      PROVE  ServerInv'
  BY <1>0, <1>4, DeleteKeepsServerInv DEF delete_script_run
<1>5. ASSUME NEW doomed \in SUBSET Runs, delete_script_runs_before(doomed)
      PROVE  ServerInv'
  BY <1>0, <1>5, DeleteKeepsServerInv DEF delete_script_runs_before
<1>6. CASE close_box
  BY <1>6, DeleteKeepsServerInv DEF close_box, ServerInv, ServerBookkeeping
<1> QED BY <1>1, <1>2, <1>3, <1>4, <1>5, <1>6, RestartKeepsServerInv DEF ServerStep

LEMMA InitServerInv == Init => ServerInv
<1> SUFFICES ASSUME Init PROVE ServerInv
  OBVIOUS
<1>1. Listed = {} /\ OnDisk = {} /\ gone = {} /\ saved_runs = {} /\ issued = {}
  BY DEF Init, ServerInit, Listed, OnDisk
<1> QED BY <1>1 DEF ServerInv, WaitingRunHasDeadline, HistoryMatchesDisk,
                    DeletedStaysDeleted, ServerBookkeeping, NoDeletion, Init, ServerInit

LEMMA NextServerInv == TypeOK /\ ServerInv /\ [Next]_vars => ServerInv'
<1> SUFFICES ASSUME TypeOK, ServerInv, [Next]_vars PROVE ServerInv'
  OBVIOUS
<1>1. CASE ServerStep
  BY <1>1, ServerStepKeepsServerInv
<1>2. CASE UNCHANGED server
  BY <1>2 DEF server, ServerInv, WaitingRunHasDeadline, HistoryMatchesDisk,
      DeletedStaysDeleted, ServerBookkeeping, Listed, OnDisk, Waiting, is_finished,
      Audit!Corrects
<1> QED BY <1>1, <1>2 DEF Next, vars

(* The four parts together, for every behaviour. *)
THEOREM ServerInvariant == Spec => []ServerInv
<1>1. TypeOK /\ ServerInv /\ [Next]_vars => (TypeOK /\ ServerInv)'
  BY NextType, NextServerInv
<1> QED BY <1>1, InitType, InitServerInv, PTL DEF Spec

---------------------------------------------------------------------------
(* The runs directory implements AuditTrail: every step of the system is   *)
(* a step of the trail or leaves it alone.                                 *)

LEMMA PersistIsAudited ==
    ASSUME TypeOK, ServerInv, NEW r \in Runs, NEW run \in Run,
           r \notin gone,
           r \in OnDisk => Audit!Corrects(disk[r], run),
           persist_run_if_finished(r, run),
           gone' = gone
    PROVE  [Audit!AuditNext]_<<disk, gone>>
<1>1. CASE is_finished(run) /\ disk' = [disk EXCEPT ![r] = run]
  <2>1. run \in Audit!FinishedRun
    BY <1>1 DEF Audit!FinishedRun, Audit!Run, Audit!is_finished, Run, is_finished,
                Audit!TargetState, TargetState, Audit!Untargeted, Untargeted
  <2>2. CASE r \in OnDisk
    <3>1. Audit!Correct(r)
      BY <1>1, <2>1, <2>2 DEF Audit!Correct, OnDisk
    <3> QED BY <3>1 DEF Audit!AuditNext
  <2>3. CASE r \notin OnDisk
    <3>1. Audit!Write(r)
      BY <1>1, <2>1, <2>3 DEF Audit!Write, OnDisk
    <3> QED BY <3>1 DEF Audit!AuditNext
  <2> QED BY <2>2, <2>3
<1>2. CASE UNCHANGED disk
  BY <1>2
<1> QED BY <1>1, <1>2 DEF persist_run_if_finished, save_run

LEMMA DeleteIsAudited ==
    ASSUME TypeOK, ServerInv, NEW doomed \in SUBSET Listed, NEW left \in SUBSET doomed,
           NEW stuck \in SUBSET doomed,
           Delete(left, saved_runs \ stuck, doomed),
           deletion = NoDeletion => left = doomed /\ stuck = {}
    PROVE  [Audit!AuditNext]_<<disk, gone>>
<1>0. doomed \in SUBSET Runs /\ {} \in SUBSET Runs
  BY DEF Listed
<1>1. CASE FinishDeletion(left, saved_runs \ stuck, doomed)
  <2> DEFINE forgotten == IF deletion = NoDeletion THEN doomed
                          ELSE {r \in doomed : disk'[r] = NoRun}
  <2>1. PICK quiet \in Unnoticed(left, saved_runs \ stuck) : Remove(left \ quiet)
    BY <1>1 DEF FinishDeletion
  <2>2. \A r \in left \ quiet : disk'[r] = NoRun
    BY <1>0, <2>1 DEF Remove
  <2>3. ASSUME deletion = NoDeletion
        PROVE  quiet = {}
    BY <2>1, <2>3 DEF Unnoticed, ServerInv, HistoryMatchesDisk, NoDeletion
  <2>4. \A r \in forgotten : disk'[r] = NoRun
    BY <2>2, <2>3
  <2>5. gone' = gone \cup forgotten
    BY <1>1 DEF FinishDeletion, Forget
  <2>6. Audit!Erase(left \ quiet, forgotten)
    BY <2>1, <2>4, <2>5 DEF Remove, Audit!Erase
  <2>7. left \ quiet \in SUBSET Runs /\ forgotten \in SUBSET Runs
    BY <1>0
  <2> QED BY <2>6, <2>7 DEF Audit!AuditNext
<1>2. CASE StopDeletion(left, saved_runs \ stuck, doomed)
  <2>1. PICK removed \in SUBSET left : Remove(removed) /\ gone' = gone
    BY <1>2 DEF StopDeletion
  <2>2. Audit!Erase(removed, {})
    BY <2>1 DEF Remove, Audit!Erase
  <2> QED BY <1>0, <2>2 DEF Audit!AuditNext
<1> QED BY <1>1, <1>2 DEF Delete

LEMMA NextIsAudited ==
    ASSUME TypeOK, ServerInv, [Next]_vars
    PROVE  [Audit!AuditNext]_<<disk, gone>>
<1>8. saved_runs \ {} = saved_runs
  OBVIOUS
<1>1. ASSUME NEW r \in Runs, NEW targets \in (SUBSET Hosts) \ {{}},
             NEW ready \in SUBSET Hosts, start_script_run(r, targets, ready)
      PROVE  [Audit!AuditNext]_<<disk, gone>>
  <2>1. DispatchedRun(targets, ready) \in Run
    BY DispatchedRunIsRun
  <2>2. r \notin OnDisk /\ r \notin gone
    BY <1>1 DEF start_script_run, ServerInv, ServerBookkeeping
  <2>3. /\ persist_run_if_finished(r, DispatchedRun(targets, ready))
        /\ gone' = gone
    BY <1>1 DEF start_script_run
  <2> QED BY <2>1, <2>2, <2>3, PersistIsAudited
<1>2. ASSUME NEW m \in results, on_script_result(m)
      PROVE  [Audit!AuditNext]_<<disk, gone>>
  <2>1. m.run \in Runs /\ m.host \in Hosts /\ m.status \in ScriptStatus
    BY DEF TypeOK, TopicsTypeOK, Result
  <2>2. CASE Accepts(m)
    <3> DEFINE r == m.run
               old == script_runs[r]
               run == apply_result(old, m.host, m.status)
    <3>1. r \in Listed /\ old \in Run /\ run \in Run
      BY <2>1, <2>2, ListedIsRun, RunOperators DEF Accepts, TypeOK
    <3>2. r \notin gone
      BY <3>1 DEF ServerInv, DeletedStaysDeleted
    <3>3. ASSUME r \in OnDisk
          PROVE  Audit!Corrects(disk[r], run)
      <4>1. is_finished(old) /\ Audit!Corrects(disk[r], old)
        BY <3>1, <3>3 DEF ServerInv, HistoryMatchesDisk, ServerBookkeeping
      <4>2. old[m.host] = "NoResponse"
        BY <2>1, <2>2, <4>1 DEF Accepts, is_finished
      <4>3. disk[r][m.host] = "NoResponse"
        BY <2>1, <4>1, <4>2 DEF Audit!Corrects, Audit!Answered
      <4>4. /\ run[m.host] \in Audit!Answered
            /\ \A h \in Hosts \ {m.host} : run[h] = old[h]
        BY <2>1, <3>1 DEF apply_result, state_for, ScriptStatus, Audit!Answered, Run
      <4> QED BY <2>1, <4>1, <4>3, <4>4 DEF Audit!Corrects
    <3>4. persist_run_if_finished(r, run) /\ gone' = gone
      BY <1>2, <2>2 DEF on_script_result
    <3> QED BY <2>1, <3>1, <3>2, <3>3, <3>4, PersistIsAudited
  <2>3. CASE ~Accepts(m)
    BY <1>2, <2>3 DEF on_script_result
  <2> QED BY <2>2, <2>3
<1>3. ASSUME NEW r \in deadlines, on_run_deadline(r)
      PROVE  [Audit!AuditNext]_<<disk, gone>>
  <2>1. r \in Runs
    BY DEF TypeOK, ServerTypeOK
  <2>2. CASE r \in Listed /\ Waiting(script_runs[r]) # {}
    <3>1. /\ script_runs[r] \in Run
          /\ apply_deadline(script_runs[r]) \in Run
      BY <2>2, ListedIsRun, RunOperators DEF TypeOK
    <3>2. r \notin gone /\ r \notin OnDisk
      BY <2>2, <3>1, FinishedIsNotWaiting
      DEF ServerInv, DeletedStaysDeleted, HistoryMatchesDisk
    <3>3. /\ persist_run_if_finished(r, apply_deadline(script_runs[r]))
          /\ gone' = gone
      BY <1>3, <2>2 DEF on_run_deadline
    <3> QED BY <2>1, <3>1, <3>2, <3>3, PersistIsAudited
  <2>3. CASE ~(r \in Listed /\ Waiting(script_runs[r]) # {})
    BY <1>3, <2>3 DEF on_run_deadline
  <2> QED BY <2>2, <2>3
<1>4. ASSUME NEW r \in Runs, delete_script_run(r)
      PROVE  [Audit!AuditNext]_<<disk, gone>>
  <2>1. {r} \in SUBSET Listed /\ deletion = NoDeletion /\ Delete({r}, saved_runs \ {}, {r})
    BY <1>4, <1>8 DEF delete_script_run
  <2>2. {r} \in SUBSET {r} /\ {} \in SUBSET {r}
    OBVIOUS
  <2> QED BY <2>1, <2>2, DeleteIsAudited
<1>5. ASSUME NEW doomed \in SUBSET Runs, delete_script_runs_before(doomed)
      PROVE  [Audit!AuditNext]_<<disk, gone>>
  <2>1. /\ doomed \in SUBSET Listed /\ deletion = NoDeletion
        /\ Delete(doomed, saved_runs \ {}, doomed)
    BY <1>5, <1>8 DEF delete_script_runs_before
  <2>2. doomed \in SUBSET doomed /\ {} \in SUBSET doomed
    OBVIOUS
  <2> QED BY <2>1, <2>2, DeleteIsAudited
<1>6. CASE RestartServer
  BY <1>6 DEF RestartServer
<1>7. CASE UNCHANGED server
  BY <1>7 DEF server
<1>9. CASE close_box
  BY <1>9, DeleteIsAudited DEF close_box, ServerInv, ServerBookkeeping
<1> QED BY <1>1, <1>2, <1>3, <1>4, <1>5, <1>6, <1>7, <1>9 DEF Next, vars, ServerStep

(* What the runs directory goes through is a behaviour of AuditTrail: a    *)
(* record is written whole and finished; corrected only where it said      *)
(* NoResponse; and never comes back once its run is deleted for good.      *)
THEOREM AuditTrailImplemented == Spec => AuditTrailKept
<1>1. Init => Audit!AuditInit
  BY DEF Init, ServerInit, Audit!AuditInit
<1>2. TypeOK /\ ServerInv /\ [Next]_vars => [Audit!AuditNext]_<<disk, gone>>
  BY NextIsAudited
<1> QED BY <1>1, <1>2, TypeCorrect, ServerInvariant, PTL
        DEF Spec, AuditTrailKept, Audit!AuditSpec

(* No run is left waiting without a timer to close it. *)
THEOREM WaitingRunsAreTimed == Spec => []WaitingRunHasDeadline
  BY ServerInvariant, PTL DEF ServerInv

(* What the history shows is what is on disk, short of a reported error. *)
THEOREM HistoryIsOnDisk == Spec => []HistoryMatchesDisk
  BY ServerInvariant, PTL DEF ServerInv

(* A run deleted without an error never comes back, nor one that had no    *)
(* file when its deletion ended.                                           *)
THEOREM DeletedRunsStayDeleted == Spec => []DeletedStaysDeleted
  BY ServerInvariant, PTL DEF ServerInv

(* Files hold finished runs only, what is listed, stored or deleted was    *)
(* issued, and what the screen shows of a stored run is its file or a      *)
(* correction of it (server_controller.cpp, what is saved and loaded).     *)
THEOREM ServerRecordsAgree == Spec => []ServerBookkeeping
  BY ServerInvariant, PTL DEF ServerInv

---------------------------------------------------------------------------
(* What runs where.  ClientBookkeeping carries the argument: a command     *)
(* still on its way to a client that already started the run is one the    *)
(* client remembers, so it will not start it again.                        *)

ClientInv ==
    /\ AtMostOnce
    /\ OnlyTargetsRun
    /\ OneScriptAtATime
    /\ OutcomeIsOfItsMachine
    /\ ClientBookkeeping

(* What a target of run r may say of a host. *)
Earned(r, run, h) ==
    /\ run[h] = "Completed" => r \in succeeded[h]
    /\ run[h] = "Failed" => starts[h][r] > 0

(* Records only change by an answer that is true of its machine. *)
LEMMA OutcomeKept ==
    ASSUME TypeOK, ClientInv, NEW r \in Runs, NEW run \in Run,
           \A h \in Hosts : Earned(r, run, h),
           script_runs' = [script_runs EXCEPT ![r] = run],
           persist_run_if_finished(r, run),
           starts' = starts, succeeded' = succeeded
    PROVE  OutcomeIsOfItsMachine'
<1>1. \A q \in Runs : /\ script_runs'[q] \in {script_runs[q], run}
                      /\ disk'[q] \in {disk[q], run}
                      /\ q # r => script_runs'[q] = script_runs[q] /\ disk'[q] = disk[q]
  BY DEF persist_run_if_finished, save_run, TypeOK, ServerTypeOK
<1> QED BY <1>1 DEF ClientInv, OutcomeIsOfItsMachine, Earned

LEMMA DeleteOnlyRemoves ==
    ASSUME TypeOK, NEW left, NEW saved, NEW doomed, Delete(left, saved, doomed), NEW r \in Runs
    PROVE  /\ script_runs'[r] \in {script_runs[r], NoRun}
           /\ disk'[r] \in {disk[r], NoRun}
  BY DEF Delete, FinishDeletion, StopDeletion, Forget, Remove, TypeOK, ServerTypeOK

LEMMA ServerStepKeepsClientInv ==
    ASSUME TypeOK, ClientInv, ServerStep, UNCHANGED client
    PROVE  ClientInv'
<1> USE DEF client
<1>0. OneScriptAtATime' /\ AtMostOnce'
  BY DEF ClientInv, OneScriptAtATime, AtMostOnce
<1>1. ASSUME NEW r \in Runs, NEW targets \in (SUBSET Hosts) \ {{}},
             NEW ready \in SUBSET Hosts, start_script_run(r, targets, ready)
      PROVE  ClientInv'
  <2> DEFINE run == DispatchedRun(targets, ready)
             cmds == [host : Waiting(run), run : {r}]
  <2>1. /\ run \in Run
        /\ \A h \in Hosts : run[h] \notin {"Completed", "Failed"}
    BY DispatchedRunIsRun DEF DispatchedRun, Untargeted
  <2>2. /\ script_runs' = [script_runs EXCEPT ![r] = run]
        /\ persist_run_if_finished(r, run)
        /\ inbox' = [h \in Hosts |-> inbox[h] \cup cmds]
        /\ sent' = sent \cup cmds
        /\ issued' = issued \cup {r} /\ r \notin issued
        /\ results' = results
    BY <1>1 DEF start_script_run, publish_script_command
  <2>3. ASSUME NEW h \in Hosts
        PROVE  starts[h][r] = 0
    <3>1. [host |-> h, run |-> r] \notin sent
      BY <2>2 DEF ClientInv, ClientBookkeeping
    <3>2. ~(starts[h][r] > 0)
      BY <3>1 DEF ClientInv, OnlyTargetsRun
    <3> QED BY <3>2 DEF TypeOK, ClientTypeOK
  <2>4. OutcomeIsOfItsMachine'
    BY <2>1, <2>2, OutcomeKept DEF Earned
  <2>5. OnlyTargetsRun'
    BY <2>2 DEF ClientInv, OnlyTargetsRun
  <2>6. ClientBookkeeping'
    <3>1. \A cmd \in cmds : cmd.run = r
      OBVIOUS
    <3> QED BY <2>2, <2>3, <3>1 DEF ClientInv, ClientBookkeeping, TypeOK, TopicsTypeOK
  <2> QED BY <1>0, <2>4, <2>5, <2>6 DEF ClientInv
<1>2. ASSUME NEW m \in results, on_script_result(m)
      PROVE  ClientInv'
  <2>1. m.run \in Runs /\ m.host \in Hosts /\ m.status \in ScriptStatus
    BY DEF TypeOK, TopicsTypeOK, Result
  <2>2. UNCHANGED <<inbox, sent, issued>> /\ results' \subseteq results
    BY <1>2 DEF on_script_result, TakeResult, LeftAfter
  <2>3. OnlyTargetsRun' /\ ClientBookkeeping'
    BY <2>2 DEF ClientInv, OnlyTargetsRun, ClientBookkeeping
  <2>4. CASE Accepts(m)
    <3> DEFINE old == script_runs[m.run]
               run == apply_result(old, m.host, m.status)
    <3>1. old \in Run /\ run \in Run /\ old # NoRun
      BY <2>1, <2>4, ListedIsRun, RunOperators DEF Accepts, TypeOK, Listed
    <3>2. \A h \in Hosts : Earned(m.run, run, h)
      <4>1. \A h \in Hosts : h # m.host => run[h] = old[h]
        BY <3>1 DEF apply_result, Run
      <4>2. run[m.host] = state_for(m.status)
        BY <2>1, <3>1 DEF apply_result, Run
      <4>3. /\ state_for(m.status) = "Failed" => m.status # "Refused"
            /\ state_for(m.status) = "Completed" => m.status = "Completed"
        BY DEF state_for
      <4> QED BY <2>1, <3>1, <4>1, <4>2, <4>3
              DEF ClientInv, OutcomeIsOfItsMachine, ClientBookkeeping, Earned
    <3>3. OutcomeIsOfItsMachine'
      BY <1>2, <2>1, <2>4, <3>1, <3>2, OutcomeKept DEF on_script_result
    <3> QED BY <1>0, <2>3, <3>3 DEF ClientInv
  <2>5. CASE ~Accepts(m)
    <3>1. OutcomeIsOfItsMachine'
      BY <1>2, <2>5 DEF on_script_result, ClientInv, OutcomeIsOfItsMachine
    <3> QED BY <1>0, <2>3, <3>1 DEF ClientInv
  <2> QED BY <2>4, <2>5
<1>3. ASSUME NEW r \in deadlines, on_run_deadline(r)
      PROVE  ClientInv'
  <2>1. r \in Runs
    BY DEF TypeOK, ServerTypeOK
  <2>2. UNCHANGED <<inbox, results, sent, issued>>
    BY <1>3 DEF on_run_deadline, topics
  <2>3. OnlyTargetsRun' /\ ClientBookkeeping'
    BY <2>2 DEF ClientInv, OnlyTargetsRun, ClientBookkeeping
  <2>4. CASE r \in Listed /\ Waiting(script_runs[r]) # {}
    <3> DEFINE run == apply_deadline(script_runs[r])
    <3>1. script_runs[r] \in Run /\ run \in Run /\ script_runs[r] # NoRun
      BY <2>4, ListedIsRun, RunOperators DEF TypeOK, Listed
    <3>2. \A h \in Hosts : Earned(r, run, h)
      BY <2>1, <3>1 DEF apply_deadline, ClientInv, OutcomeIsOfItsMachine, Earned
    <3>3. OutcomeIsOfItsMachine'
      BY <1>3, <2>1, <2>4, <3>1, <3>2, OutcomeKept DEF on_run_deadline
    <3> QED BY <1>0, <2>3, <3>3 DEF ClientInv
  <2>5. CASE ~(r \in Listed /\ Waiting(script_runs[r]) # {})
    <3>1. OutcomeIsOfItsMachine'
      BY <1>3, <2>5 DEF on_run_deadline, ClientInv, OutcomeIsOfItsMachine
    <3> QED BY <1>0, <2>3, <3>1 DEF ClientInv
  <2> QED BY <2>4, <2>5
<1>4. ASSUME NEW left, NEW saved, NEW doomed, Delete(left, saved, doomed)
      PROVE  ClientInv'
  <2>1. OutcomeIsOfItsMachine'
    BY <1>4, DeleteOnlyRemoves DEF ClientInv, OutcomeIsOfItsMachine
  <2>2. OnlyTargetsRun' /\ ClientBookkeeping'
    BY <1>4 DEF Delete, topics, ClientInv, OnlyTargetsRun, ClientBookkeeping
  <2> QED BY <1>0, <2>1, <2>2 DEF ClientInv
<1>5. CASE RestartServer
  <2>1. OutcomeIsOfItsMachine'
    BY <1>5 DEF RestartServer, ClientInv, OutcomeIsOfItsMachine
  <2>2. OnlyTargetsRun' /\ ClientBookkeeping'
    BY <1>5 DEF RestartServer, ClientInv, OnlyTargetsRun, ClientBookkeeping
  <2> QED BY <1>0, <2>1, <2>2 DEF ClientInv
<1> QED BY <1>1, <1>2, <1>3, <1>4, <1>5
        DEF ServerStep, delete_script_run, delete_script_runs_before, close_box

LEMMA ClientStepKeepsClientInv ==
    ASSUME TypeOK, ClientInv, NEW h \in Hosts,
           ClientStep(h) \/ RestartClient(h), UNCHANGED server
    PROVE  ClientInv'
<1> USE DEF server, client
<1>1. ASSUME NEW cmd \in inbox[h], on_script_command(h, cmd)
      PROVE  ClientInv'
  <2>1. cmd \in Command /\ cmd.run \in Runs /\ cmd.host \in Hosts
    BY DEF TypeOK, TopicsTypeOK, Command
  <2>2. \A g \in Hosts : inbox'[g] \subseteq inbox[g]
    BY <1>1, <2>1, TakeCommandType
    DEF TypeOK, on_script_command, IgnoreForeign, RefuseNotEnrolled, IgnoreRepeat,
        RefuseBusy, StartScript
  <2>3. CASE UNCHANGED client /\ \A m \in results' : m \in results \/ m.status = "Refused"
    <3>1. ClientBookkeeping'
      BY <2>2, <2>3 DEF ClientInv, ClientBookkeeping
    <3> QED BY <2>3, <3>1 DEF ClientInv, AtMostOnce, OnlyTargetsRun, OneScriptAtATime,
                              OutcomeIsOfItsMachine
  <2>4. CASE StartScript(h, cmd)
    <3> DEFINE r == cmd.run
    <3>1. /\ cmd.host = h /\ r \notin executed[h]
          /\ ~running[h]
          /\ executed' = [executed EXCEPT ![h] = @ \cup {r}]
          /\ running' = [running EXCEPT ![h] = TRUE]
          /\ jobs' = [jobs EXCEPT ![h] = @ \cup {[run |-> r, status |-> "Running"]}]
          /\ starts' = [starts EXCEPT ![h][r] = IF @ < 2 THEN @ + 1 ELSE @]
          /\ results' = results /\ succeeded' = succeeded
      BY <2>4 DEF StartScript
    <3>2. starts[h][r] = 0
      <4>1. ~(starts[h][r] > 0)
        BY <3>1 DEF ClientInv, ClientBookkeeping
      <4> QED BY <2>1, <4>1 DEF TypeOK, ClientTypeOK
    <3>3. /\ starts'[h][r] = 1
          /\ \A g \in Hosts, q \in Runs :
                g # h \/ q # r => starts'[g][q] = starts[g][q]
      BY <2>1, <3>1, <3>2 DEF TypeOK, ClientTypeOK
    <3>4. \A g \in Hosts, q \in Runs : starts[g][q] > 0 => starts'[g][q] > 0
      BY <3>2, <3>3
    <3>5. AtMostOnce'
      BY <3>3 DEF ClientInv, AtMostOnce
    <3>6. OnlyTargetsRun'
      <4>1. cmd \in sent /\ cmd = [host |-> h, run |-> r]
        BY <2>1, <3>1 DEF ClientInv, ClientBookkeeping, Command
      <4> QED BY <3>3, <4>1 DEF ClientInv, OnlyTargetsRun
    <3>7. OneScriptAtATime'
      <4>1. jobs[h] = {}
        BY <3>1 DEF ClientInv, OneScriptAtATime
      <4>2. jobs'[h] = {[run |-> r, status |-> "Running"]} /\ running'[h] = TRUE
        BY <3>1, <4>1 DEF TypeOK, ClientTypeOK
      <4>3. \A g \in Hosts : g # h => jobs'[g] = jobs[g] /\ running'[g] = running[g]
        BY <3>1 DEF TypeOK, ClientTypeOK
      <4>4. ASSUME NEW g \in Hosts
            PROVE  (running'[g] <=> jobs'[g] # {}) /\ \A i, j \in jobs'[g] : i = j
        <5>1. CASE g = h
          BY <4>2, <5>1
        <5>2. CASE g # h
          BY <4>3, <5>2 DEF ClientInv, OneScriptAtATime
        <5> QED BY <5>1, <5>2
      <4> QED BY <4>4 DEF OneScriptAtATime
    <3>8. OutcomeIsOfItsMachine'
      BY <3>1, <3>4 DEF ClientInv, OutcomeIsOfItsMachine
    <3>9. ClientBookkeeping'
      <4>1. (\A g \in Hosts : inbox'[g] \subseteq sent') /\ \A c \in sent' : c.run \in issued'
        BY <2>2 DEF ClientInv, ClientBookkeeping
      <4>2. ASSUME NEW g \in Hosts, NEW c \in inbox'[g], c.host = g, starts'[g][c.run] > 0
            PROVE  c.run \in executed'[g]
        <5>1. c \in inbox[g] /\ c.run \in Runs
          BY <2>2 DEF TypeOK, TopicsTypeOK, Command
        <5>2. CASE g = h /\ c.run = r
          BY <3>1, <5>2 DEF TypeOK, ClientTypeOK
        <5>3. CASE ~(g = h /\ c.run = r)
          <6>1. c.run \in executed[g]
            BY <3>3, <4>2, <5>1, <5>3 DEF ClientInv, ClientBookkeeping
          <6> QED BY <3>1, <6>1 DEF TypeOK, ClientTypeOK
        <5> QED BY <5>2, <5>3
      <4>3. ASSUME NEW g \in Hosts, NEW job \in jobs'[g]
            PROVE  /\ starts'[g][job.run] > 0
                   /\ job.status = "Completed" => job.run \in succeeded'[g]
        <5>1. CASE job \in jobs[g]
          BY <3>1, <3>4, <5>1 DEF ClientInv, ClientBookkeeping, TypeOK, ClientTypeOK, Job
        <5>2. CASE job \notin jobs[g]
          <6>1. g = h /\ job.run = r /\ job.status = "Running"
            BY <3>1, <5>2 DEF TypeOK, ClientTypeOK
          <6> QED BY <3>3, <6>1
        <5> QED BY <5>1, <5>2
      <4>4. \A m \in results' :
               /\ m.status # "Refused" => starts'[m.host][m.run] > 0
               /\ m.status = "Completed" => m.run \in succeeded'[m.host]
        BY <3>1, <3>4 DEF ClientInv, ClientBookkeeping, TypeOK, TopicsTypeOK, Result
      <4> QED BY <4>1, <4>2, <4>3, <4>4 DEF ClientBookkeeping
    <3> QED BY <3>5, <3>6, <3>7, <3>8, <3>9 DEF ClientInv
  <2>5. (IgnoreForeign(h, cmd) \/ RefuseNotEnrolled(h, cmd)
           \/ IgnoreRepeat(h, cmd) \/ RefuseBusy(h, cmd))
        => UNCHANGED client /\ \A m \in results' : m \in results \/ m.status = "Refused"
    BY DEF IgnoreForeign, RefuseNotEnrolled, IgnoreRepeat, RefuseBusy, refuse_script
  <2> QED BY <1>1, <2>3, <2>4, <2>5 DEF on_script_command
<1>2. ASSUME NEW job \in jobs[h], NEW status \in RunnerStatus,
             FinishScript(h, job, status)
      PROVE  ClientInv'
  <2>1. /\ jobs' = [jobs EXCEPT ![h] =
                       (@ \ {job}) \cup {[run |-> job.run, status |-> status]}]
        /\ UNCHANGED <<inbox, results, executed, running, starts>>
        /\ \A g \in Hosts : succeeded[g] \subseteq succeeded'[g]
        /\ status = "Completed" => job.run \in succeeded'[h]
    BY <1>2 DEF FinishScript, topics, TypeOK, ClientTypeOK
  <2>2. jobs[h] = {job}
    BY DEF ClientInv, OneScriptAtATime
  <2>3. jobs'[h] = {[run |-> job.run, status |-> status]}
    BY <2>1, <2>2 DEF TypeOK, ClientTypeOK
  <2>4. \A g \in Hosts : g # h => jobs'[g] = jobs[g]
    BY <2>1 DEF TypeOK, ClientTypeOK
  <2>5. OneScriptAtATime'
    <3>1. ASSUME NEW g \in Hosts
          PROVE  (running'[g] <=> jobs'[g] # {}) /\ \A i, j \in jobs'[g] : i = j
      <4>1. running[g] <=> jobs[g] # {}
        BY DEF ClientInv, OneScriptAtATime
      <4>2. running'[g] <=> running[g]
        BY <2>1
      <4>3. jobs'[g] # {} <=> jobs[g] # {}
        BY <2>2, <2>3, <2>4
      <4>4. \A i, j \in jobs'[g] : i = j
        BY <2>3, <2>4 DEF ClientInv, OneScriptAtATime
      <4> QED BY <4>1, <4>2, <4>3, <4>4
    <3> QED BY <3>1 DEF OneScriptAtATime
  <2>6. ClientBookkeeping'
    <3>1. \A g \in Hosts : \A j \in jobs'[g] :
             /\ starts'[g][j.run] > 0
             /\ j.status = "Completed" => j.run \in succeeded'[g]
      BY <2>1, <2>2, <2>3, <2>4 DEF ClientInv, ClientBookkeeping
    <3>2. \A m \in results' :
             /\ m.status # "Refused" => starts'[m.host][m.run] > 0
             /\ m.status = "Completed" => m.run \in succeeded'[m.host]
      BY <2>1 DEF ClientInv, ClientBookkeeping, TypeOK, TopicsTypeOK, Result
    <3> QED BY <2>1, <3>1, <3>2 DEF ClientInv, ClientBookkeeping
  <2> QED BY <2>1, <2>5, <2>6
          DEF ClientInv, AtMostOnce, OnlyTargetsRun, OutcomeIsOfItsMachine
<1>3. ASSUME NEW job \in jobs[h], publish_script_outcome(h, job)
      PROVE  ClientInv'
  <2>1. /\ results' = results \cup
                      {[host |-> h, run |-> job.run, status |-> job.status]}
        /\ jobs' = [jobs EXCEPT ![h] = @ \ {job}]
        /\ running' = [running EXCEPT ![h] = FALSE]
        /\ UNCHANGED <<inbox, executed, starts, succeeded>>
    BY <1>3 DEF publish_script_outcome
  <2>2. jobs[h] = {job}
    BY DEF ClientInv, OneScriptAtATime
  <2>3. jobs'[h] = {} /\ running'[h] = FALSE
    BY <2>1, <2>2 DEF TypeOK, ClientTypeOK
  <2>4. \A g \in Hosts : g # h => jobs'[g] = jobs[g] /\ running'[g] = running[g]
    BY <2>1 DEF TypeOK, ClientTypeOK
  <2>5. OneScriptAtATime'
    BY <2>3, <2>4 DEF ClientInv, OneScriptAtATime
  <2>6. ClientBookkeeping'
    BY <2>1, <2>2, <2>3, <2>4 DEF ClientInv, ClientBookkeeping
  <2> QED BY <2>1, <2>5, <2>6
          DEF ClientInv, AtMostOnce, OnlyTargetsRun, OutcomeIsOfItsMachine
<1>4. CASE RestartClient(h)
  <2>1. /\ inbox'[h] = {} /\ jobs'[h] = {} /\ running'[h] = FALSE
        /\ \A g \in Hosts : g # h => /\ inbox'[g] = inbox[g] /\ jobs'[g] = jobs[g]
                                     /\ running'[g] = running[g]
                                     /\ executed'[g] = executed[g]
        /\ UNCHANGED <<results, starts, succeeded>>
    BY <1>4 DEF RestartClient, TypeOK, TopicsTypeOK, ClientTypeOK
  <2>2. OneScriptAtATime'
    BY <2>1 DEF ClientInv, OneScriptAtATime
  <2>3. ClientBookkeeping'
    BY <2>1 DEF ClientInv, ClientBookkeeping
  <2> QED BY <2>1, <2>2, <2>3
          DEF ClientInv, AtMostOnce, OnlyTargetsRun, OutcomeIsOfItsMachine
<1> QED BY <1>1, <1>2, <1>3, <1>4 DEF ClientStep

LEMMA LossKeepsClientInv ==
    ASSUME TypeOK, ClientInv, UNCHANGED <<server, client>>,
           \A h \in Hosts : inbox'[h] \subseteq inbox[h],
           results' \subseteq results
    PROVE  ClientInv'
<1>1. ClientBookkeeping'
  BY DEF server, client, ClientInv, ClientBookkeeping
<1> QED BY <1>1 DEF server, client, ClientInv, AtMostOnce, OnlyTargetsRun,
                    OneScriptAtATime, OutcomeIsOfItsMachine

LEMMA InitClientInv == Init => ClientInv
<1> SUFFICES ASSUME Init PROVE ClientInv
  OBVIOUS
<1>1. /\ \A r \in Runs : script_runs[r] = NoRun /\ disk[r] = NoRun
      /\ \A h \in Hosts : /\ inbox[h] = {} /\ jobs[h] = {} /\ ~running[h]
                          /\ \A r \in Runs : starts[h][r] = 0
      /\ sent = {} /\ results = {}
  BY DEF Init, TopicsInit, ServerInit, ClientInit
<1> QED BY <1>1 DEF ClientInv, AtMostOnce, OnlyTargetsRun, OneScriptAtATime,
                    OutcomeIsOfItsMachine, ClientBookkeeping

LEMMA NextClientInv == TypeOK /\ ClientInv /\ [Next]_vars => ClientInv'
<1> SUFFICES ASSUME TypeOK, ClientInv, [Next]_vars PROVE ClientInv'
  OBVIOUS
<1>1. CASE ServerStep /\ UNCHANGED client
  BY <1>1, ServerStepKeepsClientInv
<1>2. ASSUME NEW h \in Hosts, ClientStep(h) \/ RestartClient(h), UNCHANGED server
      PROVE  ClientInv'
  BY <1>2, ClientStepKeepsClientInv
<1>3. ASSUME NEW h \in Hosts, LoseCommand(h), UNCHANGED <<server, client>>
      PROVE  ClientInv'
  <2>1. \A g \in Hosts : inbox'[g] \subseteq inbox[g]
    BY <1>3 DEF LoseCommand, TypeOK, TopicsTypeOK
  <2>2. results' \subseteq results
    BY <1>3 DEF LoseCommand
  <2> QED BY <1>3, <2>1, <2>2, LossKeepsClientInv
<1>4. CASE LoseResult /\ UNCHANGED <<server, client>>
  BY <1>4, LossKeepsClientInv DEF LoseResult
<1>5. CASE UNCHANGED vars
  BY <1>5, LossKeepsClientInv DEF vars, topics
<1> QED BY <1>1, <1>2, <1>3, <1>4, <1>5 DEF Next

(* The clients' invariants and the bookkeeping between the two sides, for  *)
(* every behaviour (monitor_worker.cpp:283, on_script_command).            *)
THEOREM ClientInvariant == Spec => []ClientInv
<1>1. TypeOK /\ ClientInv /\ [Next]_vars => (TypeOK /\ ClientInv)'
  BY NextType, NextClientInv
<1> QED BY <1>1, InitType, InitClientInv, PTL DEF Spec

(* No machine starts a run twice, redelivery and restarts included. *)
THEOREM RunsAtMostOnce == Spec => []AtMostOnce
  BY ClientInvariant, PTL DEF ClientInv

(* No machine runs a script it was not sent. *)
THEOREM OnlyTargetsEverRun == Spec => []OnlyTargetsRun
  BY ClientInvariant, PTL DEF ClientInv

(* Every record of an outcome is true of its machine: a success ran there, *)
(* a failure was handed to its runner.                                     *)
THEOREM OutcomesAreTrue == Spec => []OutcomeIsOfItsMachine
  BY ClientInvariant, PTL DEF ClientInv

(* One script at a time, and the worker never waits for a live one. *)
THEOREM RunsOneAtATime == Spec => []OneScriptAtATime
  BY ClientInvariant, PTL DEF ClientInv

(* A command that can still reach a client which started its run is one    *)
(* that client remembers (monitor_worker.cpp, executed_), and every script *)
(* that runs or reports was started.                                       *)
THEOREM ClientRecordsAgree == Spec => []ClientBookkeeping
  BY ClientInvariant, PTL DEF ClientInv

---------------------------------------------------------------------------
(* Answers are never taken back.                                           *)

FinalStep ==
    \A r \in Listed \ unsaved, h \in Hosts :
        /\ script_runs'[r] # NoRun
        /\ script_runs[r][h] \in Answered
        => script_runs'[r][h] = script_runs[r][h]

LEMMA NextIsFinal == TypeOK /\ ServerInv /\ [Next]_vars => FinalStep
<1> SUFFICES ASSUME TypeOK, ServerInv, [Next]_vars,
                    NEW r \in Listed \ unsaved, NEW h \in Hosts,
                    script_runs'[r] # NoRun, script_runs[r][h] \in Answered
             PROVE  script_runs'[r][h] = script_runs[r][h]
  BY DEF FinalStep
<1>0. r \in Runs /\ script_runs[r] \in Run
  BY ListedIsRun DEF TypeOK
<1>1. ASSUME NEW q \in Runs, NEW targets \in (SUBSET Hosts) \ {{}},
             NEW ready \in SUBSET Hosts, start_script_run(q, targets, ready)
      PROVE  script_runs'[r] = script_runs[r]
  <2>1. q # r
    BY <1>1 DEF start_script_run, ServerInv, ServerBookkeeping
  <2> QED BY <1>0, <1>1, <2>1 DEF start_script_run, TypeOK, ServerTypeOK
<1>2. ASSUME NEW m \in results, on_script_result(m)
      PROVE  script_runs'[r][h] = script_runs[r][h]
  <2>1. CASE Accepts(m)
    <3>1. script_runs' = [script_runs EXCEPT ![m.run] =
                            apply_result(script_runs[m.run], m.host, m.status)]
      BY <1>2, <2>1 DEF on_script_result
    <3>2. CASE m.run = r
      <4>1. m.host # h
        BY <2>1, <3>2 DEF Accepts, Answered
      <4> QED BY <1>0, <3>1, <3>2, <4>1 DEF apply_result, Run, TypeOK, ServerTypeOK
    <3>3. CASE m.run # r
      BY <1>0, <3>1, <3>3 DEF TypeOK, ServerTypeOK
    <3> QED BY <3>2, <3>3
  <2>2. CASE ~Accepts(m)
    BY <1>2, <2>2 DEF on_script_result
  <2> QED BY <2>1, <2>2
<1>3. ASSUME NEW q \in deadlines, on_run_deadline(q)
      PROVE  script_runs'[r][h] = script_runs[r][h]
  <2>1. \/ UNCHANGED script_runs
        \/ script_runs' = [script_runs EXCEPT ![q] = apply_deadline(script_runs[q])]
    BY <1>3 DEF on_run_deadline
  <2>2. apply_deadline(script_runs[r])[h] = script_runs[r][h]
    BY DEF apply_deadline, Answered
  <2> QED BY <1>0, <2>1, <2>2 DEF TypeOK, ServerTypeOK
<1>4. ASSUME NEW left, NEW saved, NEW doomed, Delete(left, saved, doomed)
      PROVE  script_runs'[r][h] = script_runs[r][h]
  BY <1>0, <1>4, DeleteOnlyRemoves
<1>5. CASE RestartServer
  <2>1. disk[r] # NoRun /\ script_runs'[r] = disk[r]
    BY <1>5 DEF RestartServer
  <2>2. disk[r] = script_runs[r]
    BY <1>0, <2>1 DEF ServerInv, HistoryMatchesDisk, OnDisk
  <2> QED BY <2>1, <2>2
<1>6. CASE UNCHANGED server
  BY <1>6 DEF server
<1> QED BY <1>1, <1>2, <1>3, <1>4, <1>5, <1>6
        DEF Next, vars, ServerStep, delete_script_run, delete_script_runs_before, close_box

(* An answer shown for a target stays, through late results, the deadline, *)
(* deletions of other runs and restarts.                                   *)
THEOREM AnswersStay == Spec => AnswersAreFinal
<1>1. TypeOK /\ ServerInv /\ [Next]_vars => [FinalStep]_vars
  BY NextIsFinal
<1> QED BY <1>1, TypeCorrect, ServerInvariant, PTL
        DEF Spec, AnswersAreFinal, FinalStep

---------------------------------------------------------------------------
(* Refusals are true, on a network that delivers each command once.        *)

(* Host h has not started run r and never will: no command is on its way.  *)
Declined(h, r) ==
    /\ starts[h][r] = 0
    /\ [host |-> h, run |-> r] \notin inbox[h]

RefusedInv ==
    /\ \A h \in Hosts, r \in Runs :
          starts[h][r] > 0 => [host |-> h, run |-> r] \notin inbox[h]
    /\ \A m \in results : m.run \in issued
    /\ \A m \in results : m.status = "Refused" => Declined(m.host, m.run)
    /\ \A r \in Runs, h \in Hosts :
          \A run \in {script_runs[r], disk[r]} \ {NoRun} :
              run[h] = "Refused" => Declined(h, r)

LEMMA RefusedServerStep ==
    ASSUME Redelivery = FALSE, TypeOK, ServerInv, ClientInv, RefusedInv,
           ServerStep, UNCHANGED client
    PROVE  RefusedInv'
<1> USE DEF client
<1>1. ASSUME NEW r \in Runs, NEW targets \in (SUBSET Hosts) \ {{}},
             NEW ready \in SUBSET Hosts, start_script_run(r, targets, ready)
      PROVE  RefusedInv'
  <2> DEFINE run == DispatchedRun(targets, ready)
             cmds == [host : Waiting(run), run : {r}]
  <2>1. /\ script_runs' = [script_runs EXCEPT ![r] = run]
        /\ persist_run_if_finished(r, run)
        /\ inbox' = [h \in Hosts |-> inbox[h] \cup cmds]
        /\ issued' = issued \cup {r} /\ r \notin issued
        /\ results' = results
    BY <1>1 DEF start_script_run, publish_script_command
  <2>2. ASSUME NEW h \in Hosts
        PROVE  starts[h][r] = 0 /\ [host |-> h, run |-> r] \notin inbox[h]
    <3>1. [host |-> h, run |-> r] \notin sent
      BY <2>1 DEF ClientInv, ClientBookkeeping
    <3>2. ~(starts[h][r] > 0) /\ [host |-> h, run |-> r] \notin inbox[h]
      BY <3>1 DEF ClientInv, ClientBookkeeping, OnlyTargetsRun
    <3> QED BY <3>2 DEF TypeOK, ClientTypeOK
  <2>3. \A h, g \in Hosts, q \in Runs :
           [host |-> h, run |-> q] \in inbox'[g]
              => [host |-> h, run |-> q] \in inbox[g]
                 \/ (q = r /\ run[h] = "Dispatched")
    BY <2>1 DEF Waiting
  <2>4. \A h \in Hosts, q \in Runs : q # r /\ Declined(h, q) => Declined(h, q)'
    BY <2>3 DEF Declined
  <2>5. \A h \in Hosts : run[h] = "Refused" => Declined(h, r)'
    BY <2>2, <2>3 DEF Declined
  <2>6. \A h \in Hosts, q \in Runs :
           starts'[h][q] > 0 => [host |-> h, run |-> q] \notin inbox'[h]
    BY <2>2, <2>3 DEF RefusedInv
  <2>7. \A m \in results' : /\ m.run \in issued'
                            /\ m.status = "Refused" => Declined(m.host, m.run)'
    BY <2>1, <2>4 DEF RefusedInv, TypeOK, TopicsTypeOK, Result
  <2>8. ASSUME NEW q \in Runs, NEW h \in Hosts,
               NEW rec \in {script_runs'[q], disk'[q]} \ {NoRun}, rec[h] = "Refused"
        PROVE  Declined(h, q)'
    <3>1. CASE q # r
      <4>1. script_runs'[q] = script_runs[q] /\ disk'[q] = disk[q]
        BY <2>1, <3>1 DEF persist_run_if_finished, save_run, TypeOK, ServerTypeOK
      <4> QED BY <2>4, <2>8, <3>1, <4>1 DEF RefusedInv
    <3>2. CASE q = r
      <4>1. disk[r] = NoRun
        BY <2>1 DEF ServerInv, ServerBookkeeping, OnDisk
      <4>2. rec = run
        BY <2>1, <3>2, <4>1 DEF persist_run_if_finished, save_run, TypeOK, ServerTypeOK
      <4> QED BY <2>5, <2>8, <3>2, <4>2
    <3> QED BY <3>1, <3>2
  <2>9. \A q \in Runs, h \in Hosts : \A rec \in {script_runs'[q], disk'[q]} \ {NoRun} :
           rec[h] = "Refused" => Declined(h, q)'
    BY <2>8
  <2> QED BY <2>6, <2>7, <2>9 DEF RefusedInv, Declined
<1>2. ASSUME NEW m \in results, on_script_result(m)
      PROVE  RefusedInv'
  <2>1. m.run \in Runs /\ m.host \in Hosts /\ m.status \in ScriptStatus
    BY DEF TypeOK, TopicsTypeOK, Result
  <2>2. UNCHANGED <<inbox, issued>> /\ results' \subseteq results
    BY <1>2 DEF on_script_result, TakeResult, LeftAfter
  <2>3. CASE Accepts(m)
    <3> DEFINE old == script_runs[m.run]
               run == apply_result(old, m.host, m.status)
    <3>1. old \in Run /\ old # NoRun
      BY <2>1, <2>3, ListedIsRun DEF Accepts, TypeOK, Listed
    <3>2. \A h \in Hosts : run[h] = "Refused" => Declined(h, m.run)
      <4>1. \A h \in Hosts : h # m.host => run[h] = old[h]
        BY <3>1 DEF apply_result, Run
      <4>2. run[m.host] = "Refused" => m.status = "Refused"
        BY <2>1, <3>1 DEF apply_result, state_for, Run
      <4> QED BY <2>1, <3>1, <4>1, <4>2 DEF RefusedInv
    <3>3. \A q \in Runs : /\ script_runs'[q] \in {script_runs[q], run}
                          /\ disk'[q] \in {disk[q], run}
                          /\ q # m.run => script_runs'[q] = script_runs[q] /\ disk'[q] = disk[q]
      BY <1>2, <2>1, <2>3
      DEF on_script_result, persist_run_if_finished, save_run, TypeOK, ServerTypeOK
    <3> QED BY <2>1, <2>2, <3>2, <3>3 DEF RefusedInv, Declined
  <2>4. CASE ~Accepts(m)
    BY <1>2, <2>2, <2>4 DEF on_script_result, RefusedInv, Declined
  <2> QED BY <2>3, <2>4
<1>3. ASSUME NEW r \in deadlines, on_run_deadline(r)
      PROVE  RefusedInv'
  <2>1. r \in Runs /\ UNCHANGED <<inbox, results, issued>>
    BY <1>3 DEF on_run_deadline, topics, TypeOK, ServerTypeOK
  <2>2. CASE r \in Listed /\ Waiting(script_runs[r]) # {}
    <3> DEFINE run == apply_deadline(script_runs[r])
    <3>1. \A h \in Hosts : run[h] = "Refused" => Declined(h, r)
      BY <2>1, <2>2 DEF apply_deadline, RefusedInv, Listed
    <3>2. \A q \in Runs : /\ script_runs'[q] \in {script_runs[q], run}
                          /\ disk'[q] \in {disk[q], run}
                          /\ q # r => script_runs'[q] = script_runs[q] /\ disk'[q] = disk[q]
      BY <1>3, <2>1, <2>2
      DEF on_run_deadline, persist_run_if_finished, save_run, TypeOK, ServerTypeOK
    <3> QED BY <2>1, <3>1, <3>2 DEF RefusedInv, Declined
  <2>3. CASE ~(r \in Listed /\ Waiting(script_runs[r]) # {})
    BY <1>3, <2>1, <2>3 DEF on_run_deadline, RefusedInv, Declined
  <2> QED BY <2>2, <2>3
<1>4. ASSUME NEW left, NEW saved, NEW doomed, Delete(left, saved, doomed)
      PROVE  RefusedInv'
  <2>1. UNCHANGED <<inbox, results, issued>>
    BY <1>4 DEF Delete, topics
  <2> QED BY <1>4, <2>1, DeleteOnlyRemoves DEF RefusedInv, Declined
<1>5. CASE RestartServer
  BY <1>5 DEF RestartServer, RefusedInv, Declined
<1> QED BY <1>1, <1>2, <1>3, <1>4, <1>5
        DEF ServerStep, delete_script_run, delete_script_runs_before, close_box

LEMMA RefusedClientStep ==
    ASSUME Redelivery = FALSE, TypeOK, ClientInv, RefusedInv, NEW h \in Hosts,
           ClientStep(h) \/ RestartClient(h), UNCHANGED server
    PROVE  RefusedInv'
<1> USE DEF server, client
<1>0. ASSUME \A g \in Hosts : inbox'[g] \subseteq inbox[g], UNCHANGED starts,
             \A m \in results' : /\ m.run \in issued
                                 /\ m.status = "Refused" => Declined(m.host, m.run)'
      PROVE  RefusedInv'
  <2>1. \A g \in Hosts, q \in Runs : Declined(g, q) => Declined(g, q)'
    BY <1>0 DEF Declined
  <2>2. \A g \in Hosts, q \in Runs :
           starts'[g][q] > 0 => [host |-> g, run |-> q] \notin inbox'[g]
    BY <1>0 DEF RefusedInv
  <2>3. \A q \in Runs, g \in Hosts :
           \A run \in {script_runs'[q], disk'[q]} \ {NoRun} :
               run[g] = "Refused" => Declined(g, q)'
    BY <2>1 DEF RefusedInv
  <2> QED BY <1>0, <2>2, <2>3 DEF RefusedInv
<1>1. ASSUME NEW cmd \in inbox[h], on_script_command(h, cmd)
      PROVE  RefusedInv'
  <2>1. cmd \in Command /\ cmd.run \in Runs /\ cmd.host \in Hosts
    BY DEF TypeOK, TopicsTypeOK, Command
  <2>2. inbox' = [inbox EXCEPT ![h] = @ \ {cmd}]
    BY <1>1 DEF on_script_command, IgnoreForeign, RefuseNotEnrolled, IgnoreRepeat,
                RefuseBusy, StartScript, take_script_command, LeftAfter
  <2>3. /\ \A g \in Hosts : inbox'[g] \subseteq inbox[g]
        /\ cmd \notin inbox'[h]
    BY <2>2 DEF TypeOK, TopicsTypeOK
  <2>4. CASE UNCHANGED <<results, starts>>
    <3>1. \A g \in Hosts, q \in Runs : Declined(g, q) => Declined(g, q)'
      BY <2>3, <2>4 DEF Declined
    <3> QED BY <1>0, <2>3, <2>4, <3>1 DEF RefusedInv, TypeOK, TopicsTypeOK, Result
  <2>5. CASE cmd.host = h /\ refuse_script(h, cmd) /\ UNCHANGED starts
    <3>1. cmd = [host |-> h, run |-> cmd.run]
      BY <2>1, <2>5 DEF Command
    <3>2. starts[h][cmd.run] = 0
      BY <2>1, <3>1 DEF RefusedInv, TypeOK, ClientTypeOK
    <3>3. Declined(h, cmd.run)'
      BY <2>3, <2>5, <3>1, <3>2 DEF Declined
    <3>4. cmd.run \in issued
      BY DEF ClientInv, ClientBookkeeping
    <3>5. \A g \in Hosts, q \in Runs : Declined(g, q) => Declined(g, q)'
      BY <2>3, <2>5 DEF Declined
    <3>6. ASSUME NEW m \in results'
          PROVE  m.run \in issued /\ (m.status = "Refused" => Declined(m.host, m.run)')
      <4>1. CASE m \in results
        BY <3>5, <4>1 DEF RefusedInv, TypeOK, TopicsTypeOK, Result
      <4>2. CASE m \notin results
        BY <2>5, <3>3, <3>4, <4>2 DEF refuse_script
      <4> QED BY <4>1, <4>2
    <3> QED BY <1>0, <2>3, <2>5, <3>6
  <2>6. CASE StartScript(h, cmd)
    <3>1. /\ cmd = [host |-> h, run |-> cmd.run]
          /\ results' = results
          /\ starts' = [starts EXCEPT ![h][cmd.run] = IF @ < 2 THEN @ + 1 ELSE @]
      BY <2>1, <2>6 DEF StartScript, Command
    <3>2. ~Declined(h, cmd.run)
      BY <3>1 DEF Declined
    <3>3. \A g \in Hosts, q \in Runs :
             g # h \/ q # cmd.run => starts'[g][q] = starts[g][q]
      BY <2>1, <3>1 DEF TypeOK, ClientTypeOK
    <3>4. \A g \in Hosts, q \in Runs : Declined(g, q) => Declined(g, q)'
      BY <2>3, <3>2, <3>3 DEF Declined
    <3>5. \A g \in Hosts, q \in Runs :
             starts'[g][q] > 0 => [host |-> g, run |-> q] \notin inbox'[g]
      BY <2>3, <3>1, <3>3 DEF RefusedInv
    <3> QED BY <3>1, <3>4, <3>5 DEF RefusedInv, TypeOK, TopicsTypeOK, Result
  <2> QED BY <1>1, <2>4, <2>5, <2>6
          DEF on_script_command, IgnoreForeign, RefuseNotEnrolled, IgnoreRepeat, RefuseBusy
<1>2. ASSUME NEW job \in jobs[h], NEW status \in RunnerStatus,
             FinishScript(h, job, status)
      PROVE  RefusedInv'
  BY <1>2 DEF FinishScript, topics, RefusedInv, Declined
<1>3. ASSUME NEW job \in jobs[h], publish_script_outcome(h, job)
      PROVE  RefusedInv'
  <2>1. /\ results' = results \cup
                      {[host |-> h, run |-> job.run, status |-> job.status]}
        /\ UNCHANGED <<inbox, starts>>
    BY <1>3 DEF publish_script_outcome
  <2>2. job.run \in Runs /\ job.status # "Refused"
    BY DEF TypeOK, ClientTypeOK, Job, RunnerStatus
  <2>3. job.run \in issued
    BY <2>2 DEF ClientInv, ClientBookkeeping, OnlyTargetsRun
  <2> QED BY <2>1, <2>2, <2>3 DEF RefusedInv, Declined
<1>4. CASE RestartClient(h)
  <2>1. /\ \A g \in Hosts : inbox'[g] \subseteq inbox[g]
        /\ UNCHANGED <<results, starts>>
    BY <1>4 DEF RestartClient, TypeOK, TopicsTypeOK
  <2>2. \A g \in Hosts, q \in Runs : Declined(g, q) => Declined(g, q)'
    BY <2>1 DEF Declined
  <2> QED BY <1>0, <2>1, <2>2 DEF RefusedInv, TypeOK, TopicsTypeOK, Result
<1> QED BY <1>1, <1>2, <1>3, <1>4 DEF ClientStep

LEMMA NextRefusedInv ==
    ASSUME Redelivery = FALSE, TypeOK, ServerInv, ClientInv, RefusedInv, [Next]_vars
    PROVE  RefusedInv'
<1>1. CASE ServerStep /\ UNCHANGED client
  BY <1>1, RefusedServerStep
<1>2. ASSUME NEW h \in Hosts, ClientStep(h) \/ RestartClient(h), UNCHANGED server
      PROVE  RefusedInv'
  BY <1>2, RefusedClientStep
<1>3. ASSUME \A g \in Hosts : inbox'[g] \subseteq inbox[g],
             results' \subseteq results, UNCHANGED <<server, client>>
      PROVE  RefusedInv'
  BY <1>3 DEF server, client, RefusedInv, Declined, TypeOK, TopicsTypeOK, Result
<1>4. ASSUME NEW h \in Hosts, LoseCommand(h), UNCHANGED <<server, client>>
      PROVE  RefusedInv'
  <2>1. (\A g \in Hosts : inbox'[g] \subseteq inbox[g]) /\ results' \subseteq results
    BY <1>4 DEF LoseCommand, TypeOK, TopicsTypeOK
  <2> QED BY <1>3, <1>4, <2>1
<1>5. CASE LoseResult /\ UNCHANGED <<server, client>>
  BY <1>3, <1>5 DEF LoseResult
<1>6. CASE UNCHANGED vars
  BY <1>3, <1>6 DEF vars, topics
<1> QED BY <1>1, <1>2, <1>4, <1>5, <1>6 DEF Next

(* Where no command is delivered twice, a target that reads Refused names  *)
(* a machine that has not started the run and never will.                  *)
THEOREM RefusalsAreTrue ==
    ASSUME Redelivery = FALSE
    PROVE  Spec => []RefusedNeverStarted
<1>1. Init => RefusedInv
  <2> SUFFICES ASSUME Init PROVE RefusedInv
    OBVIOUS
  <2>1. /\ results = {}
        /\ \A h \in Hosts : inbox[h] = {}
        /\ \A r \in Runs : script_runs[r] = NoRun /\ disk[r] = NoRun
    BY DEF Init, TopicsInit, ServerInit
  <2> QED BY <2>1 DEF RefusedInv
<1>2. TypeOK /\ ServerInv /\ ClientInv /\ RefusedInv /\ [Next]_vars => RefusedInv'
  BY NextRefusedInv
<1>3. RefusedInv => RefusedNeverStarted
  BY DEF RefusedInv, Declined, RefusedNeverStarted
<1> QED BY <1>1, <1>2, <1>3, TypeCorrect, ServerInvariant, ClientInvariant, PTL DEF Spec
===========================================================================
