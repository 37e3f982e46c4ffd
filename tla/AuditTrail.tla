---------------------------- MODULE AuditTrail ----------------------------
(***************************************************************************)
(* What the server promises of the record it keeps of a run, whatever the  *)
(* network, the clients and its own restarts do.  A run's record appears   *)
(* once, whole and finished; from then on it can only be corrected, and    *)
(* only where it said that a host had not answered.  It can be removed,    *)
(* and written again while its run is known; once the run is erased it     *)
(* never comes back.  server_controller.cpp:366-377 and                    *)
(* run_store.hpp:12-14 say so in words.                                    *)
(***************************************************************************)
EXTENDS ScriptRunState

VARIABLES
    record,  \* the record of each run, NoRun while there is none
    erased   \* the runs that have no record and will never have one

AuditInit ==
    /\ record = [r \in Runs |-> NoRun]
    /\ erased = {}

Write(r) ==
    /\ record[r] = NoRun
    /\ r \notin erased
    /\ \E run \in FinishedRun : record' = [record EXCEPT ![r] = run]
    /\ UNCHANGED erased

Corrects(old, new) ==
    \A h \in Hosts :
        \/ new[h] = old[h]
        \/ old[h] = "NoResponse" /\ new[h] \in Answered

Correct(r) ==
    /\ record[r] # NoRun
    /\ \E run \in FinishedRun :
          /\ Corrects(record[r], run)
          /\ record' = [record EXCEPT ![r] = run]
    /\ UNCHANGED erased

(* Records are removed, and runs that have none now are erased.            *)
Erase(removed, doomed) ==
    /\ record' = [r \in Runs |-> IF r \in removed THEN NoRun ELSE record[r]]
    /\ \A r \in doomed : record'[r] = NoRun
    /\ erased' = erased \cup doomed

AuditNext ==
    \/ \E r \in Runs : Write(r) \/ Correct(r)
    \/ \E removed, doomed \in SUBSET Runs : Erase(removed, doomed)

AuditSpec == AuditInit /\ [][AuditNext]_<<record, erased>>
===========================================================================
