--------------------------- MODULE ClientProcess ---------------------------
(***************************************************************************)
(* The life of one client process: what main() builds and takes down, and  *)
(* the threads that use it meanwhile.                                      *)
(*                                                                         *)
(*   the main thread     main(), later the GUI event loop and shutdown     *)
(*   the worker thread   MonitorWorker's event loop                        *)
(*   the poll thread     DdsClientTransport::poll_script_commands          *)
(*   a script thread     one run of IScriptRunner                          *)
(*   a listener thread   Fast DDS, in handle_bundle or handle_match_change *)
(*                                                                         *)
(* What the threads do to the rules, the runs and the connection state is  *)
(* in the modules of those; here it is which object each of them touches.  *)
(***************************************************************************)
EXTENDS Naturals, Sequences, TLAPS

CONSTANT MaxQueue  \* bound on the events waiting for the worker thread

Object == {"participant", "entities", "transport", "worker", "shell"}

Event == {"start", "bundle", "command", "outcome"}

Stage ==
    {"begin", "participant", "entities", "polling", "worker", "shell", "running",
     "quit", "waited", "joined", "stopping", "unpolled", "undone", "done", "failed"}

VARIABLES
    main,           \* how far the main thread is
    objects,        \* the objects that exist
    worker_thread,  \* "off", "loop" in its event loop, "event" in a handler, "ended"
    quitting,       \* worker_thread->quit() was called
    queue,          \* events posted to the worker
    handlers,       \* MonitorWorker::start() has registered its handlers
    poll,           \* where the poll thread is
    stop,           \* stop_script_poll_
    listener,       \* where the listener thread is
    running,        \* running_
    scripts         \* script threads that are alive

threads == <<worker_thread, quitting, queue, handlers, poll, stop, listener, running, scripts>>
vars == <<main, objects, threads>>

TypeOK ==
    /\ main \in Stage
    /\ objects \subseteq Object
    /\ worker_thread \in {"off", "loop", "event", "ended"}
    /\ quitting \in BOOLEAN
    /\ queue \in Seq(Event)
    /\ handlers \in BOOLEAN
    /\ poll \in {"off", "test", "read", "handler", "ended"}
    /\ stop \in BOOLEAN
    /\ listener \in {"idle", "transport", "worker"}
    /\ running \in BOOLEAN
    /\ scripts \in 0 .. 1

Init ==
    /\ main = "begin"
    /\ objects = {}
    /\ worker_thread = "off"
    /\ quitting = FALSE
    /\ queue = <<>>
    /\ handlers = FALSE
    /\ poll = "off"
    /\ stop = FALSE
    /\ listener = "idle"
    /\ running = FALSE
    /\ scripts = 0

(* What is posted after the event loop has ended is never handled. *)
Post(event) ==
    \/ worker_thread = "ended" /\ UNCHANGED queue
    \/ worker_thread # "ended" /\ Len(queue) < MaxQueue /\ queue' = Append(queue, event)

(***************************************************************************)
(* Start.  The transport's listeners are its members: its memory is in use *)
(* from the moment an entity exists.                                       *)
(***************************************************************************)
create_participant ==
    /\ main = "begin"
    /\ \/ main' = "participant" /\ objects' = {"participant", "transport"}
       \/ main' = "failed" /\ UNCHANGED objects
    /\ UNCHANGED threads

(* A slip: a constructor that throws leaves what it has made. *)
FailWithoutCleanup ==
    /\ main = "entities"
    /\ main' = "failed"
    /\ UNCHANGED <<objects, threads>>

(* Of the publisher, the topics, the writers and the readers some may      *)
(* exist, and be called back, when another fails.  The clean-up waits for  *)
(* the listener (delete_contained_entities).                               *)
create_entities ==
    /\ main = "participant"
    /\ main' = "entities"
    /\ objects' = objects \cup {"entities"}
    /\ UNCHANGED threads

fail_entities ==
    /\ main = "entities"
    /\ listener = "idle"
    /\ main' = "failed"
    /\ objects' = {}
    /\ UNCHANGED threads

start_poll_thread ==
    /\ main = "entities"
    /\ main' = "polling"
    /\ poll' = "test"
    /\ UNCHANGED <<objects, worker_thread, quitting, queue, handlers, stop, listener,
                   running, scripts>>

construct_worker ==
    /\ main = "polling"
    /\ main' = "worker"
    /\ objects' = objects \cup {"worker"}
    /\ UNCHANGED threads

construct_shell ==
    /\ main = "worker"
    /\ main' = "shell"
    /\ objects' = objects \cup {"shell"}
    /\ UNCHANGED threads

start_worker_thread ==
    /\ main = "shell"
    /\ main' = "running"
    /\ worker_thread' = "loop"
    /\ Post("start")
    /\ UNCHANGED <<objects, quitting, handlers, poll, stop, listener, running, scripts>>

StartUp ==
    \/ create_participant
    \/ create_entities
    \/ fail_entities
    \/ start_poll_thread
    \/ construct_worker
    \/ construct_shell
    \/ start_worker_thread

(***************************************************************************)
(* Shutdown: the functor connected to aboutToQuit, then ~MonitorWorker and *)
(* in it ~DdsClientTransport, then the rest of the functor.                *)
(***************************************************************************)
about_to_quit ==
    /\ main = "running"
    /\ main' = "quit"
    /\ quitting' = TRUE
    /\ UNCHANGED <<objects, worker_thread, queue, handlers, poll, stop, listener, running,
                   scripts>>

wait_for_worker ==
    /\ main = "quit"
    /\ worker_thread = "ended"
    /\ main' = "waited"
    /\ UNCHANGED <<objects, threads>>

(* Slips: the script thread is detached; the stop flag is not set.         *)
DetachScript == main = "waited" /\ main' = "joined" /\ UNCHANGED <<objects, threads>>
JoinWithoutStop ==
    /\ main = "joined"
    /\ main' = "stopping"
    /\ UNCHANGED <<objects, threads>>

(* ~MonitorWorker, its body. *)
join_script_thread ==
    /\ main = "waited"
    /\ scripts = 0
    /\ main' = "joined"
    /\ UNCHANGED <<objects, threads>>

(* ~DdsClientTransport: its threads first, its entities after.             *)
stop_poll_thread ==
    /\ main = "joined"
    /\ main' = "stopping"
    /\ stop' = TRUE
    /\ UNCHANGED <<objects, worker_thread, quitting, queue, handlers, poll, listener, running,
                   scripts>>

join_poll_thread ==
    /\ main = "stopping"
    /\ poll = "ended"
    /\ main' = "unpolled"
    /\ UNCHANGED <<objects, threads>>

(* delete_contained_entities() returns when no listener is being called.   *)
delete_entities ==
    /\ main = "unpolled"
    /\ listener = "idle"
    /\ main' = "undone"
    /\ objects' = objects \ {"entities", "participant", "transport"}
    /\ UNCHANGED threads

(* The rest of the worker, with the events nobody will handle, the tray    *)
(* and the window.                                                         *)
delete_shell ==
    /\ main = "undone"
    /\ main' = "done"
    /\ objects' = objects \ {"worker", "shell"}
    /\ queue' = <<>>
    /\ UNCHANGED <<worker_thread, quitting, handlers, poll, stop, listener, running, scripts>>

ShutDown ==
    \/ wait_for_worker
    \/ join_script_thread
    \/ stop_poll_thread
    \/ join_poll_thread
    \/ delete_entities
    \/ delete_shell

(***************************************************************************)
(* The other threads.                                                      *)
(***************************************************************************)
(* Slip: a second command does not wait for the first script, nor is       *)
(* refused.                                                                *)
RunEveryCommand(event) ==
    /\ running' = IF event = "command" THEN TRUE ELSE IF event = "outcome" THEN FALSE ELSE running
    /\ scripts' = IF event = "command" THEN scripts + 1 ELSE scripts

(* on_script_command(): refused while running_, else the thread of the     *)
(* last script, which has ended, is joined and a new one started.  The     *)
(* posted outcome of a script resets running_.                             *)
Scripts(event) ==
    \/ event = "command" /\ ~running /\ running' = TRUE /\ scripts = 0 /\ scripts' = 1
    \/ event = "command" /\ running /\ UNCHANGED <<running, scripts>>
    \/ event = "outcome" /\ running' = FALSE /\ UNCHANGED scripts
    \/ event \in {"start", "bundle"} /\ UNCHANGED <<running, scripts>>

handle_event ==
    /\ worker_thread = "loop"
    /\ ~quitting
    /\ queue # <<>>
    /\ worker_thread' = "event"
    /\ queue' = Tail(queue)
    /\ handlers' = (handlers \/ Head(queue) = "start")
    /\ Scripts(Head(queue))
    /\ UNCHANGED <<quitting, poll, stop, listener>>

return_to_loop ==
    /\ worker_thread = "event"
    /\ worker_thread' = "loop"
    /\ UNCHANGED <<quitting, queue, handlers, poll, stop, listener, running, scripts>>

leave_loop ==
    /\ worker_thread = "loop"
    /\ quitting
    /\ worker_thread' = "ended"
    /\ UNCHANGED <<quitting, queue, handlers, poll, stop, listener, running, scripts>>

(* The script ends, or its timeout ends it; the outcome is posted.         *)
end_script ==
    /\ scripts > 0
    /\ scripts' = scripts - 1
    /\ Post("outcome")
    /\ UNCHANGED <<worker_thread, quitting, handlers, poll, stop, listener, running>>

(* One round of poll_script_commands: the flag, the reader, the handler.   *)
test_stop ==
    /\ poll = "test"
    /\ poll' = IF stop THEN "ended" ELSE "read"
    /\ UNCHANGED <<worker_thread, quitting, queue, handlers, stop, listener, running, scripts>>

take_next_sample ==
    /\ poll = "read"
    /\ poll' \in {"test"} \cup IF handlers THEN {"handler"} ELSE {}
    /\ UNCHANGED <<worker_thread, quitting, queue, handlers, stop, listener, running, scripts>>

post_command ==
    /\ poll = "handler"
    /\ Post("command")
    /\ poll' = "test"
    /\ UNCHANGED <<worker_thread, quitting, handlers, stop, listener, running, scripts>>

(* A callback of Fast DDS, on an entity that exists; the handlers of the   *)
(* worker only post or emit.                                               *)
enter_listener ==
    /\ listener = "idle"
    /\ "entities" \in objects
    /\ listener' = "transport"
    /\ UNCHANGED <<worker_thread, quitting, queue, handlers, poll, stop, running, scripts>>

leave_listener ==
    /\ \/ listener = "transport" /\ UNCHANGED queue /\ listener' = "idle"
       \/ listener = "transport" /\ handlers /\ UNCHANGED queue /\ listener' = "worker"
       \/ listener = "worker" /\ Post("bundle") /\ listener' = "idle"
    /\ UNCHANGED <<worker_thread, quitting, handlers, poll, stop, running, scripts>>

OtherThreads ==
    \/ handle_event
    \/ return_to_loop
    \/ leave_loop
    \/ end_script
    \/ test_stop
    \/ take_next_sample
    \/ post_command
    \/ enter_listener
    \/ leave_listener

(* The process is over. *)
Over == main \in {"done", "failed"}
Finished == Over /\ UNCHANGED vars

Next ==
    \/ StartUp
    \/ about_to_quit
    \/ ShutDown
    \/ OtherThreads /\ UNCHANGED <<main, objects>>
    \/ Finished

Spec == Init /\ [][Next]_vars

(***************************************************************************)
(* Every thread runs.  A script ends, because the runner bounds it by its  *)
(* timeout (ScriptRunner).  Nobody need quit.                              *)
(***************************************************************************)
WorkerThread == (handle_event \/ return_to_loop \/ leave_loop) /\ UNCHANGED <<main, objects>>
ScriptThread == end_script /\ UNCHANGED <<main, objects>>
PollThread == (test_stop \/ take_next_sample \/ post_command) /\ UNCHANGED <<main, objects>>
ListenerThread == leave_listener /\ UNCHANGED <<main, objects>>

Fairness ==
    /\ SF_vars(ShutDown)
    /\ WF_vars(WorkerThread)
    /\ WF_vars(ScriptThread)
    /\ WF_vars(PollThread)
    /\ WF_vars(ListenerThread)

FairSpec == Spec /\ Fairness

---------------------------------------------------------------------------
(* No thread is inside an object that does not exist: neither after a      *)
(* shutdown in the middle of a script, a command or a callback, nor after  *)
(* a start that failed halfway (fast_dds_transport.cpp:478,                *)
(* monitor_worker.cpp:70, client main.cpp:536).                            *)
NoUseAfterFree ==
    /\ poll = "read" => "entities" \in objects
    /\ poll \notin {"off", "ended"} => "transport" \in objects
    /\ poll = "handler" => "worker" \in objects
    /\ listener # "idle" => {"entities", "transport"} \subseteq objects
    /\ listener = "worker" => "worker" \in objects
    /\ worker_thread \in {"loop", "event"} => {"worker", "transport"} \subseteq objects
    /\ scripts > 0 => {"worker", "transport"} \subseteq objects

(* When the process ends, by either way, all that it built is taken down,  *)
(* so that the participant announces its departure instead of leaving the  *)
(* server to wait for the lease (client main.cpp:541), and no thread is    *)
(* left.                                                                   *)
NothingLeftBehind ==
    Over => /\ objects = {}
            /\ poll \in {"off", "ended"}
            /\ worker_thread \in {"off", "ended"}
            /\ scripts = 0

(* Quit always gets there: nobody waits for ever for a script, a command   *)
(* or a callback that is under way.                                        *)
QuitEnds == quitting ~> main = "done"

---------------------------------------------------------------------------
(* What is built at each stage of main(), and which threads may be alive:  *)
(* a thread is ended before what it uses is taken down, and nothing that   *)
(* main() has passed can start one again.                                  *)
Alone == {"begin", "participant", "entities", "failed"}
Starting == Alone \cup {"polling", "worker", "shell"}
Ending == {"waited", "joined", "stopping", "unpolled", "undone", "done"}

BuiltAt(stage) ==
    CASE stage \in {"begin", "failed", "done"} -> {}
      [] stage = "participant" -> {"participant", "transport"}
      [] stage \in {"entities", "polling"} -> {"participant", "transport", "entities"}
      [] stage = "worker" -> {"participant", "transport", "entities", "worker"}
      [] stage = "undone" -> {"worker", "shell"}
      [] OTHER -> Object

ThreadsFit ==
    /\ poll = "off" <=> main \in Alone
    /\ main \in {"unpolled", "undone", "done"} => poll = "ended"
    /\ worker_thread = "off" <=> main \in Starting
    /\ main \in Ending => worker_thread = "ended"
    /\ main \in Ending \ {"waited"} => scripts = 0
    /\ worker_thread = "off" => scripts = 0 /\ ~handlers
    /\ poll = "handler" \/ listener = "worker" => handlers
    /\ listener # "idle" => "entities" \in objects

ProcessInv == TypeOK /\ objects = BuiltAt(main) /\ ThreadsFit

LEMMA PostKeepsType ==
    ASSUME TypeOK, NEW event \in Event, Post(event)
    PROVE  queue' \in Seq(Event)
  BY DEF TypeOK, Post

LEMMA ProcessInit == Init => ProcessInv
<1> SUFFICES ASSUME Init PROVE ProcessInv
  OBVIOUS
<1>1. TypeOK
  <2>1. queue \in Seq(Event)
    BY DEF Init
  <2>2. scripts \in 0 .. 1
    BY DEF Init
  <2> QED
    BY <2>1, <2>2, Zenon DEF Init, TypeOK, Stage
<1>2. objects = BuiltAt(main)
  BY DEF Init, BuiltAt
<1>3. ThreadsFit
  BY DEF Init, ThreadsFit, Alone, Starting, Ending
<1> QED
  BY <1>1, <1>2, <1>3 DEF ProcessInv

LEMMA ProcessStep == ProcessInv /\ [Next]_vars => ProcessInv'
<1> SUFFICES ASSUME ProcessInv, [Next]_vars PROVE ProcessInv'
  OBVIOUS
<1> USE DEF ProcessInv, ThreadsFit, BuiltAt, TypeOK, Alone, Starting, Ending, Object, Stage, threads
<1>1. CASE StartUp
  <2>1. CASE create_participant
    BY <2>1 DEF create_participant
  <2>2. CASE create_entities
    BY <2>2 DEF create_entities
  <2>3. CASE fail_entities
    BY <2>3 DEF fail_entities
  <2>4. CASE start_poll_thread
    BY <2>4 DEF start_poll_thread
  <2>5. CASE construct_worker
    BY <2>5 DEF construct_worker
  <2>6. CASE construct_shell
    BY <2>6 DEF construct_shell
  <2>7. CASE start_worker_thread
    <3>1. queue' \in Seq(Event)
      BY <2>7, PostKeepsType DEF start_worker_thread, Event
    <3> QED
      BY <2>7, <3>1 DEF start_worker_thread
  <2> QED
    BY <1>1, <2>1, <2>2, <2>3, <2>4, <2>5, <2>6, <2>7 DEF StartUp
<1>2. CASE about_to_quit
  BY <1>2 DEF about_to_quit
<1>3. CASE ShutDown
  <2>1. CASE wait_for_worker
    BY <2>1 DEF wait_for_worker
  <2>2. CASE join_script_thread
    BY <2>2 DEF join_script_thread
  <2>3. CASE stop_poll_thread
    BY <2>3 DEF stop_poll_thread
  <2>4. CASE join_poll_thread
    BY <2>4 DEF join_poll_thread
  <2>5. CASE delete_entities
    BY <2>5 DEF delete_entities
  <2>6. CASE delete_shell
    BY <2>6 DEF delete_shell
  <2> QED
    BY <1>3, <2>1, <2>2, <2>3, <2>4, <2>5, <2>6 DEF ShutDown
<1>4. CASE OtherThreads /\ UNCHANGED <<main, objects>>
  <2>1. CASE handle_event
    <3>1. Head(queue) \in Event /\ Tail(queue) \in Seq(Event)
      BY <2>1 DEF handle_event, Event
    <3>2. scripts' \in 0 .. 1
      BY <2>1, SMT DEF handle_event, Scripts
    <3>4. running' \in BOOLEAN
      BY <2>1, Zenon DEF handle_event, Scripts
    <3>3. main \in {"running", "quit"}
      BY <2>1 DEF handle_event
    <3> QED
      BY <1>4, <2>1, <3>1, <3>2, <3>3, <3>4 DEF handle_event
  <2>2. CASE return_to_loop \/ leave_loop
    BY <1>4, <2>2 DEF return_to_loop, leave_loop
  <2>3. CASE end_script
    <3>1. queue' \in Seq(Event)
      BY <2>3, PostKeepsType DEF end_script, Event
    <3> QED
      BY <1>4, <2>3, <3>1 DEF end_script
  <2>4. CASE test_stop \/ take_next_sample
    BY <1>4, <2>4 DEF test_stop, take_next_sample
  <2>5. CASE post_command
    <3>1. queue' \in Seq(Event)
      BY <2>5, PostKeepsType DEF post_command, Event
    <3> QED
      BY <1>4, <2>5, <3>1 DEF post_command
  <2>6. CASE enter_listener
    BY <1>4, <2>6 DEF enter_listener
  <2>7. CASE leave_listener
    <3>1. queue' \in Seq(Event)
      BY <2>7, PostKeepsType DEF leave_listener, Event
    <3> QED
      BY <1>4, <2>7, <3>1 DEF leave_listener
  <2> QED
    BY <1>4, <2>1, <2>2, <2>3, <2>4, <2>5, <2>6, <2>7 DEF OtherThreads
<1>5. CASE UNCHANGED vars
  BY <1>5 DEF vars
<1> QED
  BY <1>1, <1>2, <1>3, <1>4, <1>5 DEF Next, Finished

(* However the threads of a client interleave with its start, a start that *)
(* fails, a quit in the middle of a script, a command or a callback: no    *)
(* thread is inside an object that is gone, and nothing is left in the end *)
(* (client main.cpp, ~MonitorWorker, ~DdsClientTransport).                 *)
THEOREM ThreadsAreSafe == Spec => [](TypeOK /\ NoUseAfterFree /\ NothingLeftBehind)
<1>1. ProcessInv => TypeOK /\ NoUseAfterFree /\ NothingLeftBehind
  BY DEF ProcessInv, ThreadsFit, BuiltAt, TypeOK, Alone, Starting, Ending, Object, Stage,
     NoUseAfterFree, NothingLeftBehind, Over
<1> QED
  BY <1>1, ProcessInit, ProcessStep, PTL DEF Spec
============================================================================
