-------------------------- MODULE MCClientLiveness --------------------------
(***************************************************************************)
(* The threads of a client, for TLC, and what must happen in the end: of a *)
(* script that it was sent, of its connection state, of its shutdown, of   *)
(* the script runner, of the loops that empty a reader and of the look at  *)
(* a topic.  The parts share no state: one moves, under its own fairness,  *)
(* and the others rest in an initial state.                                *)
(***************************************************************************)
EXTENDS Integers, Sequences, FiniteSets, SequencesExt

CONSTANTS h1, r1, r2, NoRun, e1, e2, e3, thread, w1, t1, t2, v, odd

VARIABLES
    part,                                                                    \* the part that moves
    commands, results, script_runs, saved_runs, disk, deadlines, issued, unsaved,
    deletion, gone, sent, can_run, executed, executing, jobs, starts, succeeded, \* ScriptDispatch
    matched, calls, matched_entities, state, startup, shows, connected, heard, \* ClientConnection
    main, objects, worker_thread, quitting, events, handlers, poll, stop, listener,
    running, scripts,                                                        \* ClientProcess
    at, file, own_ends, tree_kill, shell, descendant, writes, said, exited, pipe, drain,
    cancels, text, outcome,                                                  \* ScriptRunner
    queue, failing, notified, looping, consecutive_failures, sample, registered, arrived,
    handled, dropped, abandoned,                                             \* ReaderLoop
    offer, kept, changes, registry, participant, reader, listeners, discovered, watcher,
    matching, inbox, pc, left, type_name, information, data, heard_sample, stayed, owed, met,
    had, refused                                                             \* DdsProbe

dispatch == <<commands, results, script_runs, saved_runs, disk, deadlines, issued, unsaved,
              deletion, gone, sent, can_run, executed, executing, jobs, starts, succeeded>>
connection == <<matched, calls, matched_entities, state, startup, shows, connected, heard>>
process == <<main, objects, worker_thread, quitting, events, handlers, poll, stop, listener,
             running, scripts>>
runner == <<at, file, own_ends, tree_kill, shell, descendant, writes, said, exited, pipe, drain,
            cancels, text, outcome>>
loop == <<queue, failing, notified, looping, consecutive_failures, sample, registered, arrived,
          handled, dropped, abandoned>>
look == <<offer, kept, changes, registry, participant, reader, listeners, discovered, watcher,
          matching, inbox, pc, left, type_name, information, data, heard_sample, stayed, owed, met,
          had, refused>>
vars == <<part, dispatch, connection, process, runner, loop, look>>

-----------------------------------------------------------------------------
Dispatch == INSTANCE ScriptDispatch WITH
    inbox <- commands, running <- executing,
    Hosts <- {h1}, Runs <- {r1, r2}, Redelivery <- FALSE
Connection == INSTANCE ClientConnection WITH
    queue <- shows, Endpoints <- {e1, e2, e3}, Threads <- {thread}, MaxQueue <- 3
Process == INSTANCE ClientProcess WITH queue <- events, MaxQueue <- 3
Runner == INSTANCE ScriptRunner WITH
    reader <- drain, Jobs <- {TRUE}, PipeSize <- 1, StreamCap <- 2, Attempts <- 2, MaxWrites <- 2
Listener == INSTANCE ReaderLoop WITH
    running <- looping, Polled <- FALSE, MaxArrivals <- 4, kMaxConsecutiveFailures <- 2
Poller == INSTANCE ReaderLoop WITH
    running <- looping, Polled <- TRUE, MaxArrivals <- 4, kMaxConsecutiveFailures <- 2
ASSUME Listener!LoopAssumption /\ Poller!LoopAssumption

(* One type offered in every way, and another to be mistaken for it.       *)
Offer(type, durable, complete, minimal) ==
    [type |-> type, durable |-> durable, complete |-> complete, minimal |-> minimal]
AnyOffer ==
    {Offer(t1, TRUE, TRUE, TRUE), Offer(t1, TRUE, FALSE, TRUE), Offer(t1, FALSE, TRUE, TRUE),
     Offer(t1, TRUE, FALSE, FALSE), Offer(t2, TRUE, TRUE, FALSE)}
Look == INSTANCE DdsProbe WITH
    events <- discovered, sample <- heard_sample,
    Writers <- {w1}, Offers <- AnyOffer, Types <- {t1, t2}, Values <- {v, odd},
    Unprojectable <- {odd}, Wait <- 1, MaxChanges <- 2
ASSUME Look!ProbeAssumption

-----------------------------------------------------------------------------
(* An initial state in which the parts other than the moving one rest.     *)
Init ==
    /\ part \in {"dispatch", "connection", "process", "runner", "listener", "poller", "look"}
    /\ part # "dispatch" => can_run = [h \in {h1} |-> TRUE]
    /\ part # "look" => offer = [w \in {w1} |-> Look!NoOffer]
    /\ IF part = "poller" THEN Poller!Init ELSE Listener!Init
    /\ Dispatch!Init /\ Connection!Init /\ Process!Init /\ Runner!Init /\ Look!Init

Next ==
    /\ UNCHANGED part
    /\ IF part = "dispatch" THEN Dispatch!Next ELSE UNCHANGED dispatch
    /\ IF part = "connection" THEN Connection!Next ELSE UNCHANGED connection
    /\ IF part = "process" THEN Process!Next ELSE UNCHANGED process
    /\ IF part = "runner" THEN Runner!Next ELSE UNCHANGED runner
    /\ CASE part = "listener" -> Listener!Next
         [] part = "poller"   -> Poller!Next
         [] OTHER             -> UNCHANGED loop
    /\ IF part = "look" THEN Look!Next ELSE UNCHANGED look

(* The fairness of the part that moves, which its module accounts for.     *)
Fairness ==
    /\ \A r \in {r1, r2} : WF_dispatch(part = "dispatch" /\ Dispatch!Deadline(r))
    /\ WF_dispatch(part = "dispatch" /\ Dispatch!JobStep(h1))
    /\ WF_connection(part = "connection" /\ Connection!handle_match_change(thread))
    /\ WF_connection(part = "connection" /\ Connection!construct_worker)
    /\ WF_connection(part = "connection" /\ Connection!connect_signals)
    /\ WF_connection(part = "connection" /\ Connection!set_connected)
    /\ SF_process(part = "process" /\ Process!ShutDown)
    /\ WF_process(part = "process" /\ Process!WorkerThread)
    /\ WF_process(part = "process" /\ Process!ScriptThread)
    /\ WF_process(part = "process" /\ Process!PollThread)
    /\ WF_process(part = "process" /\ Process!ListenerThread)
    /\ WF_runner(part = "runner" /\ Runner!Runner)
    /\ \A s \in {"out", "err"} : WF_runner(part = "runner" /\ Runner!Drain(s))
    /\ WF_loop(part = "listener" /\ Listener!Loop)
    /\ WF_loop(part = "poller" /\ Poller!Loop)
    /\ WF_look(part = "look" /\ Look!Looking)
    /\ WF_look(part = "look" /\ Look!Callbacks)
    /\ WF_look(part = "look" /\ Look!Tick)

FairSpec == Init /\ [][Next]_vars /\ Fairness

-----------------------------------------------------------------------------
(* Of a run: every target that was sent the script stops waiting, and a    *)
(* machine that runs it becomes free for another one.                      *)
RunsSettle ==
    part = "dispatch" => Dispatch!EveryTargetSettles /\ Dispatch!ClientBecomesFree

(* Of the connection: state_ follows the matches, the tray the last change *)
(* of it, and a loss that settles ends up on the screen.                   *)
ConnectionIsShown ==
    /\ [](part = "connection" =>
            Connection!TypeOK /\ Connection!StateFollowsMatches /\ Connection!ShownIsLast)
    /\ part = "connection" => Connection!LossIsShown

(* Of the process: no thread is inside an object that does not exist, all  *)
(* that was built is taken down, and Quit always gets there.               *)
ProcessEnds ==
    /\ [](part = "process" =>
            Process!TypeOK /\ Process!NoUseAfterFree /\ Process!NothingLeftBehind)
    /\ part = "process" => Process!QuitEnds

(* Of a reader: every well-formed sample is handled once, in order, none   *)
(* is left waiting once traffic ends, and a listener's thread returns from *)
(* its batch even if the reader fails for ever.                            *)
ReadersGoOn ==
    /\ [](part = "listener" => Listener!TypeOK /\ Listener!HandledInOrder)
    /\ [](part = "poller" => Poller!TypeOK /\ Poller!HandledInOrder)
    /\ part = "listener" => Listener!NothingIsWedged /\ Listener!BatchesEnd
    /\ part = "poller" => Poller!NothingIsWedged

(* Every run of a script and every look at a topic ends, whatever the      *)
(* script or the writers do.                                               *)
RunsAndLooksEnd ==
    /\ part = "runner" => [](Runner!TypeOK) /\ Runner!RunReturns
    /\ part = "look" => [](Look!TypeOK) /\ Look!LooksEnd
=============================================================================
