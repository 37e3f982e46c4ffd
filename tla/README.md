# lab_monitor in TLA+

Specifications, model checking and machine-checked proofs for lab_monitor: a
server with a fleet view, one monitoring client per lab machine, and DDS topics
between them. The modules are written from the code; paths below are relative to
the repository.

Contents: [the system](#the-system) · [modules and code](#modules-and-code) ·
[runs](#runs) · [fairness](#fairness) · [proofs](#proofs) ·
[disagreements found](#disagreements-found) · [abstractions](#abstractions) ·
[not modelled](#not-modelled) · [plan](#plan) · [how to run](#how-to-run)

## The system

| Component | State it keeps | Operations | What makes it correct |
|---|---|---|---|
| Script runs, server (`apps/server/server_controller.cpp`, `script_run.cpp`) | `script_runs_`, `saved_runs_`, one deadline timer per open run | dispatch, result, deadline, delete, delete before a day, load | records are true; every open run is closed; answers are final; deleted runs stay deleted |
| Run store (`apps/server/run_store.cpp`) | `runs/<run_id>.json` and a temporary beside it | save (temporary and rename), load all, delete | a save that is cut off damages nothing; every record is loaded as it was saved |
| Configuration files (`server_controller.cpp`) | `expected_hosts.json`, `bundle.json`, `scripts.json` | load, three saves | an edit is kept or an error was shown; the tabs show what the server acts on |
| Script execution, client (`apps/client/monitor_worker.cpp`) | `executed_`, `running_`, the script thread | command (ignored, refused, started), outcome posted, outcome published | at most one start per run and machine, one script at a time, only on targets |
| Script runner (`libs/platform/src/windows/script_runner_windows.cpp`) | script file, process, job, pipes, two drains | run with a timeout, cancel and join | the run returns; its status is what happened to the script; nothing outlives it |
| Registry and reconciliation (`libs/core/src/client_registry.cpp`, `fleet.cpp`) | last seen, capabilities, pause, applied revision per host | announce, sample, report, lost; classify, order | the row of each host says what is known of it |
| Fleet handlers, server (`server_controller.cpp`, `libs/ui/src/sample_coalescer.cpp`) | `registry_`, `expected_`, `fleet_`, coalesced samples | transport callbacks, 1 s timer, list edits, publication | rows match the lists, nothing learned of a listed host is lost, what is drawn is current |
| DDS transport (`libs/transport/src/fastdds/fast_dds_transport.cpp`, `codec.cpp`) | `live_hosts_`, `retained_bundle_`, handlers, matched counts | listener callbacks on Fast DDS threads, two polling threads, publishers, encode and decode | every loss is reported once; late joiners converge; a bad sample stops nothing; a message is read as sent or refused whole |
| Bundle distribution (`server_controller.cpp`, the transport, `monitor_worker.cpp`) | `draft_`, `published_`, `bundle.json`, the client's `bundle_` | edit, publish, load and announce, deliver, replay, apply, report | a revision names one content; "up to date" is true |
| Monitoring, client (`monitor_worker.cpp`, `libs/platform/src/host_probes.cpp`) | `paused_`, `bundle_`, the facts of a tick | announce 10 s, sample 2 s, evaluate 30 s, pause | present, paused and gone are told apart; a verdict was true at some moment |
| Compliance (`libs/core/src/compliance.cpp`, `version.cpp`, `json_path.cpp`, `template_bundle.cpp`, `json.cpp`) | none | evaluate rules on facts, compare versions, follow paths, pick the rules of a host, write and read rules | the verdict is that of the rule the operator wrote |
| DDS probe (`libs/transport/src/fastdds/dds_probe.cpp`) | participant, reader, two listeners, three waits | look at a topic | the look ends, says what was there, and is torn down in order |
| Client process (`apps/client/main.cpp`, `tray_controller.cpp`, `autostart_windows.cpp`) | transport, worker, threads, tray; the logon task | start, quit, connection shown, install autostart | no use after free, quitting ends, a lost server is shown, the task starts what was asked |
| Scripts tab (`apps/server/scripts_tab.cpp`, `script_library.cpp`) | library, preview, ticks, page, history, the run on screen | reload, select, tick, acknowledge, run, select a run, delete | what runs is what was read, where it was ticked; the view is of the run shown |
| Fleet tab (`libs/ui/src/fleet_model.cpp`, `apps/server/fleet_window.cpp`) | rows, caches per host, filters, selection, ribbon | apply view, report, sample; filter; select | rows, cells and tallies are of what was heard last |
| Templates tab (`fleet_window.cpp`, `add_rule_dialog.cpp`, `libs/ui/src/token_edit.cpp`) | the draft, chips, the form | add, edit, remove, rename, assign, publish | ids are unique, no rule is dropped, what is saved is what was shown |

**Interaction.** A client publishes ClientAnnounce (transient local, with a 10 s
liveliness lease), ResourceSample (best effort) and ComplianceReport (transient
local); the server publishes TemplateBundle (transient local, keep last 1) and
ScriptCommand, and the client answers with ScriptResult (both volatile).
Callbacks run on Fast DDS threads and post functors to the event loop of the
object concerned, the server's GUI thread or the client's worker thread. Within
a loop handlers run to their end, with one exception: a handler that reports a
configuration error opens a message box, whose own event loop handles other
events before the handler goes on. Between threads only the transport's mutexes
and the order of posting count. The server persists expected hosts, the bundle,
the script settings and finished runs; the registry and open runs live in memory.

**Hard parts.** Functors overtaking each other between a lock and a post; a
restart of either side at any time; results after deadlines and deletions, and
inside them while a box is open; failing and torn writes; a lease lost by a live
process, or by an old process after its successor announced; two lists of
expected hosts; coalesced samples that outlive the event that should have erased
their host; a machine that changes between two probes; threads that use an object
while it is destroyed; widgets that hold copies of what changed under them.
`PROJECT.json` lists each as a hazard at its line, with the properties that guard
it. Some that no property states: a lease lost and regained with no announce in
between leaves no handle in `live_hosts_`, so that the next loss goes unreported
until the 10 s announce (`fast_dds_transport.cpp:869`; a bound on the gap needs
time), and a lease lost between Fast DDS's own assertion of it and the callback
that enters the handle (`:812`) leaves a handle of a writer that is not alive, until
the next announce or loss of it; the script topics keep 16 samples per instance (`:200`), and a burst can
evict the oldest, which the model has as a loss; a dispatch decides eligibility on
a view that may be a second old (`server_controller.cpp:434`), which the model has
as any view.

## Modules and code

Every handler that runs on one thread to its end is one action. Where the code
releases a lock, waits, or opens a box before it goes on, the parts are actions
of their own.

### Script dispatch

* `ScriptRunState` — the states of a target and `ScriptRun`'s own operations
  (`apply_result`, `apply_deadline`, `tally`, `is_finished`), pure operators.
* `ScriptTopics` — ScriptCommand and ScriptResult: samples waiting at each
  reader, taken, taken and delivered again (`Redelivery`), or lost.
* `ScriptClient` — `on_script_command()`, one action for each way through it, the
  script thread, the functor it posts, and the restart of the process.
* `ServerRuns` — dispatch, result, deadline, deletion, restart; `save_run()`
  succeeds or fails; a file may refuse to be removed. A handler is atomic up to the
  error box it opens. Only a deletion goes on after its box: it is an action for each
  stretch between its boxes (`deletion` says what is left), and results and deadlines
  are handled meanwhile.
* `AuditTrail` — the abstract specification: what the runs directory promises a
  reader of the records. A run that an unfinished deletion has still to forget may be
  written again; once the deletion is over, what was erased stays so, unless a box
  came up and the run was saved behind it.
* `ScriptDispatch` — the composition, its properties, its fairness, and the
  refinement `disk` → `record`, `gone` → `erased`, `deletion.doomed` → `doomed`.
* `RunDeletion` — the same handlers when `config_error()` opens a box in the
  middle of them: the boxes are a stack, results and deadlines are handled inside,
  the operator can only close the top one (the box is application-modal).
* `RunStore` — one level below `ServerRuns`: open, write, commit, with a crash or a
  refusal at each step, files damaged by others, and `load_runs()`. It is why
  `ServerRuns` may take a save as one step. Assumed of `QSaveFile`: the commit is
  an atomic rename, and the temporary's name does not end in `.json`.
* `ScriptDispatchProofs` — proofs.

| Variable | Code |
|---|---|
| `script_runs`, `saved_runs`, `deadlines` | `script_runs_`, `saved_runs_`, the armed `QTimer::singleShot`s |
| `disk` | the files of `runs/` |
| `inbox[h]`, `results` | what the volatile readers have not taken |
| `executed`, `running`, `jobs` | `executed_`, `running_`, `script_thread_` or the outcome it posted |
| `can_run` | `allow_scripts_` with a runner |
| `deletion` | the loop of `delete_script_runs_before()` or the end of `delete_script_run()`, in the event loop of its error box |
| `starts`, `succeeded`, `sent`, `gone`, `unsaved`, `issued` | histories for the properties: commands given to the runner, scripts that exited with 0, and so on; `issued` stands for the uniqueness of run ids |

### Fleet liveness

* `HostRegistry` — the registry's entries and `reconcile()`, pure operators. Time
  is one bit per entry: within the lease or not.
* `FleetTransport` — `live_hosts_`, the announce callback and the liveliness
  callback as two halves each, the queue of functors, the coalescer's samples. Fast DDS
  asserts a writer's liveliness before it calls the announce callback, and can find it
  lost in between.
* `ServerFleet` — the controller's handlers, its timer, the edits of the list.
  `reconcile_now()` is part of each handler that calls it; an edit that cannot be saved
  opens a box before it (`box_open`), and all but the operator's edits go on meanwhile.
* `FleetClient` — announce, sample, report, pause, bundle, start and stop.
* `FleetLiveness` — the composition and its properties. `FleetProofs` — proofs.

### Bundle distribution

* `BundlePublisher` — draft, `published_`, `bundle.json` (may stay as it was or
  be torn, since the save truncates in place), the retained sample; a crash in
  the middle of `publish()`.
* `BundleReceiver` — `retained_bundle_`, the listener and the registration with
  its replay, each in two halves, the worker's queue, the revision check.
* `BundleDistribution` — the composition with reports and the registry's applied
  revision. The content in a report is a history variable: the code sends the
  revision only. `BundleProofs` — proofs.

### The client

* `ClientConnection` — `handle_match_change()` on Fast DDS threads (count, exchange
  of `state_`, call of the handler, three steps), the handler that the worker
  registers, the signal that `main()` connects after that, the tray.
* `ClientProcess` — what `main()` builds and takes down, and which object each of
  the worker, poll, script and listener threads is inside of meanwhile.
* `ScriptRunner` — `WindowsScriptRunner::run()`: file, pipes, process, job, wait,
  the two drains, cancellation, and a descendant that inherits the pipes. Output is
  a sequence of chunks, some of them LM-RESULT lines.
* `HostProbes` — one tick of `evaluate_compliance()`: the probes one after the other
  while the machine changes, the adapters one by one, any of which may fail to be read,
  then the rules. `Compliance` holds `evaluate()`, version
  comparison and the verdict of each kind of rule, pure operators.
* `JsonPath` — `parse()` and `walk()` of the paths of dds rules; `JsonPathReading`
  says what a path addresses without walking it, and compares.
* `NetworkProbe` — one `enumerate()`: folder, interfaces, connections and entries
  read one after the other while connections come and go; each of the calls can fail.
* `DdsProbe` — one look at a topic: discovery, type, reader, polling, each within a
  wait, takes that fail; the listeners' callbacks; the teardown.
* `AutostartTask` — `--install-autostart`: options to a command line, schtasks'
  command line around it, and the splitting at logon, character by character
  because two levels of quoting are what can go wrong.

### The transport

* `Codec` — `encode()` and `decode()` of every topic on a wire of cells; a payload
  can be cut, altered, lengthened, or of a client that knew fewer fields.
* `ReaderLoop` — the loops that empty a reader: `on_data_available()` and the
  polling threads, with malformed samples and a reader that fails by itself.

### The server's files and tabs

* `ServerConfig` — the three configuration files: an edit, the truncation, the
  write, the close, the signals; a crash or a full disk between any two; the load.
* `TemplateBundle` — `rules_for()`, ids, their repair, operations on templates.
  `TemplateEditor` — the Templates tab and `load_config()`'s repair on top of it.
* `RuleJson` — `rule_to_json()` and back, for each kind of rule. `RuleDialog` — the
  form in which rules are added and edited, up to the text they are saved as.
* `ScriptComposer` — share, library, preview, pages, ticks, acknowledgement and Run.
  `RunView` — history, the run on screen, its rows, the output pane, deletion.
* `FleetTable` — `FleetModel`, the proxy, the pane and the ribbon. Widgets hold copies,
  refreshed only where a signal says so: what is painted is a variable of its own.

`FleetTable`, `ScriptComposer` and `RunView` say in their headers what they assume
of Qt's models and selections.

## Runs

Components that share state are composed by modules of their own
(`ScriptDispatch`, `FleetLiveness`, `BundleDistribution`). Components that share
none, because one only hands the other a value, are checked side by side: an `MC`
module instantiates several of them, `part` says which one moves, and the others
rest in an initial state. No interleaving is lost, since no step of one could
enable, disable or change a step of another, and the instances of a run together
are the sum, not the product, of their states. Each property of such a run is the
conjunction of the named properties of one part, its type invariant included; an
error names the conjunct that fails.

| Run | Instance | Question |
|---|---|---|
| `one_host` | 1 host, 2 runs, no redelivery | do records stay true and on disk, and open runs timed, with restarts and failing writes? |
| `two_hosts` | 2 hosts, 1 run, redelivery | at most once, only on targets, answers final, `AuditTrail` implemented |
| `fleet` | 1 host, 2 client processes, 1 publication, 1 functor waiting, failing saves | do rows match lists when no box is open, the drawn list the rows, and is a listed host remembered? |
| `fleet_live` | 1 host, 2 processes, no publication, 1 functor | are present, paused and gone told apart in the end? |
| `bundle` (`MCBundles`) | 1 client, 3 contents (one unreadable), 3 revisions, 2 functors | does a revision name one content, does a running client follow, and is a stale one shown so in the end? |
| `server` (`MCServer`) | parts `store`, `deletion`, `config`, `composer`, `run_view`, `editor`, `publisher`, `dialog`, `adding` | are files, records, drafts and rules what the operator was shown, and is what is sent what was read? |
| `client` (`MCClient`) | parts `network`, `look`, `codec`, `runner`, `tick` | is what is read, judged, sent and reported true of some moment? |
| `reports` (`MCReports`) | parts `typed`, `walked`, `heard`, `filtered`, `ranked`, `autostart` | does a path find what it addresses, is what is drawn what was heard, and does logon start what was asked? |
| `client_liveness` (`MCClientLiveness`) | parts `dispatch`, `connection`, `process`, `runner`, `listener`, `poller`, `look` | does every run, look, batch and shutdown end, and a loss show? |
| `fleet_ghost` | 1 host, 1 process | *violation*: a lost, unexpected host stays in the view |
| `bundle_lost` | 1 client, 1 revision | *violation*: a lost save makes a stale client look up to date |
| `bundle_late` | 1 client, 2 revisions, 2 functors | *violation*: a replay overtakes a new bundle |

The parts, what they instantiate, and their bounds:

| Part | Module | Bounds | Why they are enough |
|---|---|---|---|
| `store` | `RunStore` | 2 runs, 3 records (one not UTF-8), issued at 0 or 3 half seconds, days of 2 s | one file is damaged or cut off beside one that is not; a rounded second can cross midnight |
| `deletion` | `RunDeletion` | 3 runs of one target | one deleted, one before the same day, one answered inside the box |
| `config` | `ServerConfig` | 1 item, 3 files | a file is empty or not; the files are torn one by one |
| `editor`, `publisher` | `TemplateEditor` | 2 hosts, 2 templates, 2 tokens; bundles typed by hand of 3 rules, edited and not published (`NothingPublished`), or of 2 rules, published once (`TwoRules`) | an id can be taken in the baseline, in a template, by hand, and by generation |
| `dialog`, `adding` | `RuleDialog` | one rule of each kind; texts with a word misspelt, a key missing or unknown, a value of another type, a number that does not fit; 1 change (`OneChange`); 1 rule added with 3 changes (`OneRule`) | what no field shows, what a field trims or clamps (values past 64 and 232) |
| `composer` | `ScriptComposer` | 2 hosts, 2 scripts (one too deep), 2 bodies, 2 changes of share or fleet; at first both scripts hold one body (`FirstShares`) | a script changes after it was read, a host leaves after it was ticked; two changes give both scripts other bodies |
| `run_view` | `RunView` | 3 runs of 2 hosts | a run shown, one started meanwhile, one deleted |
| `heard` | `FleetTable` | 2 hosts, 2 states, 2 reports, 1 sample, clicks | what comes of one host while the other is shown |
| `filtered` | `FleetTable` | 2 hosts, 3 entries, a text and two counters | text and counter filters against each other |
| `ranked` | `FleetTable` | 3 hosts, 2 states, 2 reports, one of mixed results | insertion and removal under both cursors of the merge; hosts that differ in state only and in results only |
| `tick` | `HostProbes` | three hosts: of 2 processes and 2 changes, of 2 registry values and 1 change, of services, adapters and a topic and 1 change; 3 sets of probes | a change between any two reads of one tick, and a read that fails |
| `typed`, `walked` | `JsonPathReading` | every text of 5 characters, indexes of 4 bits; paths of 11 over samples of 3 levels with 2 elements | two brackets and a dot; two nested `[*]` that fail in one branch |
| `network` | `NetworkProbe` | 3 entries, 2 changes, a first buffer of none | dialled, hung up and removed between lists; both second calls |
| `look` | `DdsProbe` | 2 writers, 4 offers, 2 types, 3 bus events, waits of 1 tick (1 writer and 2 events for liveness) | a writer that comes, one that goes, one of the wrong type |
| `codec` | `Codec` | one to eight messages a topic, base 5 | empty and longer strings and lists, every flag and status |
| `runner` | `ScriptRunner` | pipe of 1 chunk, cap of 3 (2), 2 rounds of cancellation, 3 (2) writes; with and without a job (liveness with) | a full pipe, a drain between two reads at each round |
| `autostart` | `AutostartTask` | values with blanks, slashes and a character outside ASCII, an empty level, 2 lists of peers | every option with and without quoting |
| `dispatch` | `ScriptDispatch` | 1 host, 2 runs | one run keeps the machine busy for the other |
| `connection` | `ClientConnection` | 3 pairs of endpoints, 1 thread, 3 events | a server half lost, lost and matched again |
| `process` | `ClientProcess` | 3 events waiting | quit at any point of a start, a script, a callback |
| `listener`, `poller` | `ReaderLoop` | 4 arrivals, a cap of 2 failures | a bad sample first, between and last |

`MCReports` holds the parts that walk data with recursive operators (`AutostartTask`,
`FleetTable`), which the prover cannot be given; `MCServer` and `MCClient` reach none, so
that the other parts can be proved about where they are checked.

`connection` has one thread: its properties assume that Fast DDS does not run two
matched callbacks at once, and with two `StateFollowsMatches` fails (see below).
`one_host`, `two_hosts`, `fleet`, `bundle`: `Hosts` and `Runs` are finite sets; two
runs compete for one machine (busy, repeated, deleted beside a live one) and two
machines share one run (a foreign command, a run half answered): those are all the
couplings the code has, since it treats hosts and runs one by one. `fleet_live` has no failing save: liveness
needs the operator to close the box, and an open box takes no handle or entry away
(with `FailingSaves = TRUE` it passes too, in four minutes). `MaxSession`
bounds the processes of a client: the second is the one whose predecessor's lease
is still to run out. `MaxRevision` bounds publications: in `bundle` a bundle, the one that
overtakes it and the one that follows. Its operator drafts either what every client can
read, so that a client can hold any of three revisions, or at times what this one
cannot (`drafts`). `MaxPosted` and `MaxQueue` bound the functors that wait: two can be
in the wrong order. `starts` counts to 2, which is once too often. The fleet with
two hosts and the bundle with two clients are not run: hosts meet only in the
lists, and the safety properties are proved for any number.

**Deadlock** is checked in every run; where a part is done, its module says so with
a step that changes nothing.

**Slips.** `PROJECT.json` names for each property slips of the code, written next to
the operator that each replaces, under which TLC finds the property violated; a
property of several conjuncts has slips for several of them. Operators marked as
slips in a comment exist for that only.

## Fairness

* Script dispatch: a single-shot timer fires while the event loop runs; a script
  ends, because the runner enforces its timeout (which `ScriptRunner` shows where it
  has a job); the worker delivers what was posted. Nothing is assumed of network,
  operator or restarts.
* Fleet: event loop, reconcile timer and coalescer timer run; callbacks finish;
  the lease of a process that ended runs out; an announce of a client that is up
  gets through again and again (10 s timer, reliable topic). The last is strong
  because the queue's bound may refuse it for a moment. Nothing is assumed of
  samples, reports, leases of live processes, or the operator, who need never
  close a box either.
* Bundles: the client's threads run, it is not paused for ever, and the report
  that its writer retains is handled in the end although servers restart (strong).
* Connection: a callback that began ends, `main()` goes on, the GUI thread handles
  its events. Fast DDS need never match anything.
* Process: every thread runs and a script ends. A step of the shutdown is strong: it
  waits for a listener to leave the transport, and Fast DDS may enter it again in
  between. Nobody need quit.
* Runner: the runner and its drains go on and the timeout comes. The script may
  never write, exit or leave.
* Reader loops: the loop runs. Nothing is assumed of arrivals or failures.
* Look: the client's thread and its clock go on, and Fast DDS delivers. The writers
  do as they like.

Each liveness property of the fleet and the bundles speaks of what comes after the
environment settles (`<>[]` of a client that stays up, or paused, or gone), and
assumes nothing of the path that led there. In `MCClientLiveness` each fairness
condition is about the steps of the part that moves, restated over that part's
variables; in `fleet_live` and `bundle` it is the module's own.

## Proofs

Every theorem holds for any values of the constants within the assumptions; `TLC`
evaluates the assumptions on the instances above. They are:

* `NoRunAssumption`, `ComposerAssumption`, `ViewAssumption`, `ProbeAssumption`: the mark
  for "nothing" is none of the values that it stands beside (an empty id, an empty
  optional); the sets of hosts, scripts and runs are finite; a run has a host.
* `RedeliveryAssumption`, `FailingSavesAssumption` (flags), `MaxRevisionAssumption`, `MaxSessionAssumption`,
  `MaxRunAssumption`, `BoundsAssumption`, `TimeAssumption`, `RunnerAssumption` (bounds are
  naturals; a second is some number of ticks, a day some number of seconds).
* `ContentsAssumption`, `UnreadableAssumption` (the empty bundle is a content, and
  readable), `RunsAssumption` (run ids are numbers), `CardAssumption` (the card is no
  phonebook entry), `EntriesAssumption` (a phonebook is finite).
* `HostsAssumption`, `IndexBitsAssumption` (rules, machines, processes and what a look
  brings have the form that their types give them; a rule about a registry value asks
  for one that the machine has, if only as absent; an index has some bits).
* `DialogAssumption` (what a box takes and clamps is of what it can hold). Of a
  document typed by hand it asks only that texts and numbers be within the sets
  considered: any word, the wrong ones included, any key missing or unknown, any
  value of another type, any number that the code's cast gives a meaning to.
* `EditorAssumption` (hosts are finite, bounds are naturals, what can be loaded is a
  bundle within the bounds; of two templates of one name the second has no rules).
  The last is a condition of `NothingDropped`: a hand can write such rules and
  `rules_for()` never reaches them, while no operation of the tab adds any.
* `CodecAssumption` (the topics are those of the messages, what is published is a message
  of its topic's form, cells are natural numbers).
* `LoopAssumption`, a hypothesis of `SamplesAreHandled`: polled or not is a flag, a batch
  gives up after some failures, at least one.

Each component's proof goes the same way: an inductive invariant that says where
every piece of state stands between two handlers, the three facts about it
(initial, kept by each action, implies the property), and a temporal step.

**ScriptDispatchProofs.** Type correctness, then two inductive invariants.

* `ServerInv` = `WaitingRunHasDeadline` ∧ `HistoryMatchesDisk` ∧
  `DeletedStaysDeleted` ∧ `ServerBookkeeping`. The bookkeeping is the
  strengthening: files hold finished runs only, so that a restart, which arms no
  timer, loads none that waits; what is listed, stored or deleted was issued, so
  that a new id revives nothing; what is on screen corrects what is on disk; and
  what an open deletion has left to do is listed still. A run is *gone* once its
  deletion is over and its file was not written again inside one of the boxes.
  With it each step of the files is a step of `AuditTrail` (`AuditTrailImplemented`),
  and shown answers stay (`AnswersStay`).
* `ClientInv` = `AtMostOnce` ∧ `OnlyTargetsRun` ∧ `OneScriptAtATime` ∧
  `OutcomeIsOfItsMachine` ∧ `ClientBookkeeping`. The bookkeeping says that a command
  which could be handed to a client again is one the client remembers: within a
  process by `executed_`, across a restart because the volatile reader starts empty.
* `RefusedInv`, only under `Redelivery = FALSE`: a host that refused, or that is
  recorded as Refused, has not started the run and no command is on its way.

The two bookkeeping invariants are theorems of their own (`ServerRecordsAgree`,
`ClientRecordsAgree`).

**FleetProofs.** `FleetInv` = `HostListIsCurrent` ∧ `RowsMatchLists` ∧ `SeenIsKnown`:
each handler ends in `reconcile_now()`, opens a box, or touches neither list nor
view, and closing the box reconciles whatever was handled meanwhile. While it is
open the rows may be those of the lists before, so `SeenIsKnown` (a host drawn as
seen has its entry) speaks of every host; it carries `ListedHostsAreRemembered`.

**BundleProofs.** `RevisionNamesContent` is inductive as it stands. `Everywhere`
is the set of bundles on disk, on the wire, in queues, in force and in reports;
every step but two only shrinks it, `publish()` adds one above all others, and a
restart that loses nothing returns the last bundle or the one being published.
`UpToDateUnlessLost` follows.

**ServerProofs.** About the parts of `MCServer`. Since a step is of one part or leaves
all its variables alone, each invariant is of one part.

| Theorem | Inductive invariant, and why it is needed |
|---|---|
| `EditsAreKeptOrAnswered` (`ConfigurationIsKept`) | `ConfigInv`: an edit is lost only by a start, long after the step that lost it. So the invariant speaks of what a start *would* load: unless the operator was told, memory is what was intended, and the file holds it, is torn (which a start tells) or is about to be written. |
| `AnswersSurvive` (`DeletionsAndAnswersHold`) | `DeletionInv`: inside a box a run may be answered that an outer deletion removed from disk and has yet to forget. A run is in step with its file, has failed, or is *doomed*: on the list of a handler further down the stack, of any depth. What a box has left to do is among what it will forget (`LeftIsDoomed`), so the loop, of any length, stops at a box or forgets all (`LoopKeeps`). |
| `RunsAreStored` (`RecordsSurvive`) | `StoreInv`: a file is absent, damaged from outside, or exactly the record of what was last saved to it. `DayIsKept` needs arithmetic of its own: the day of a rounded-down second is the day of the moment (`WholeSecondsKeepTheDay`). |
| `ConfirmedRunsRun` (`RunsAsConfirmed`) | `ComposerInv`: between two slots the preview is of the selected script and is what was read, unless a changed script waits to be accepted, in which case Run is disabled; ticks are the operator's, as far as their hosts are listed. What the last walk of the share saw bounds what is listed and what the message may say, in as far as every folder could be read. |
| `WidgetsAreCurrent` (`RunsAreShown`) | `ViewInv`: the highlighted row is of the run on screen. Without that, rebuilding the list around a run that goes could leave another run's rows behind. `Erased` says where the rows that are left of any list stood before. |
| `RulesAreKept` (`RulesAreAsShown`) | `DialogInv`: the saved text is what was published, rule by rule, and an open edit shows the rule that it was opened on, except for the fields that were touched since. The first is `to_json()` read back, for each kind of rule with and without what is optional. A text typed by hand is taken only if it *says* the rule it becomes (`Says`): every field is there, as the word, text or number that the rule has, but for what the code reads leniently on purpose or by a cast. The second needs that the words of a combo box are distinct, so that the entry it reads is the one it shows, and allows for what a field trims or clamps. |
| `TemplatesAreSound` (`TemplatesAreKept`) | `EditorInv`: the draft is `Sound`. Each place, baseline or template, gives its rules ids that no other place has (`OneEach`), and of two templates of one name the second is empty, so that none is shadowed; an enabled button means that draft and published differ. `rules_for()`, the repair of a loaded bundle and the creation of templates for chips are walks over lists of any length: each is followed step by step (`WalkInduction`), with what has been found so far as the invariant of the walk. |

**ClientProofs.** About the parts of `MCClient`.

| Theorem | Inductive invariant, and why it is needed |
|---|---|
| `ScriptsReport` (`ScriptsAreReported`) | `RunnerInv`: where `run()` is says what there is of shell, descendant, file and readers; the last verdict written is in the pipe, or else in the text read so far. A reader that ended has left no verdict behind, since the shell is gone by then. A shell that could not be waited for is dead when `run()` returns, and that is all that Failed says of it. Its hypothesis `MaxWrites <= StreamCap` is the condition of the property itself: a verdict past the cap is lost (see below). |
| `AdaptersSurviveChange` (`AdaptersAreTrue`) | `NetworkInv`: what was seen of an entry only grows during a call, so that what one list said stays true of *some* moment while others are read. A list that outgrew its buffer took two changes, which is when an entry may be left out. A list that could not be read is in `unread`, and each claim is conditioned on the lists that it needs. |
| `LooksTellTheTruth` (`LooksAreTrue`) | `LookInv`: who has been there for all of the wait was told of or is about to be, and nobody is left after one tick; the same of values owed to a reader. A type that was fetched was advertised (`FetchedIsFound`), though one that comes after the last query is not; a take that fails counts as refused and ends no look. Participant, reader and listeners exist only where the look needs them. |
| `VerdictsAreEarned` (`VerdictsAreTrue`) | `TickInv`: each list, value and look gathered so far is what the machine had at some moment of the tick, the versions read so far belong to the head of one snapshot, and whatever could not be read left its probe in `failed` or the machine has changed. Adapters are read one at a time: each that was read was there at some moment, and on a machine that stayed as it was they stand as its list has them (`AdaptersRead`). Then, kind by kind (`ProcessJudged`, ...), what `evaluate()` says of such facts is what someone who saw the machine at one of these moments could have said. Comparing versions of any length is followed step by step; what a JSON path finds is left as it is, since both sides ask for the same. |
| `MessagesAreWhole` (`MessagesArriveWhole`) | `CodecInv`: what is on the wire is what was written from `sent`, a proper beginning of it, it and more, or anything at all, and what was taken is what `decode()` makes of it. The rest is about bytes. Each read of a value takes the encoding of the value and leaves what follows (`ReadsWhole`), fails on a proper beginning of it (`ReadsCut`), and of any bytes makes a value in range or fails (`Keeps`). Walks over the elements of a list, a list and the fields of a message hand these three on (`WalkReads`, `WalkIsCut`, `WalkKeeps`): whether two beginnings of one wire overlap is what decides where a cut falls (`Splits`). The flag of an announce is the one read that does not fail on less, so it is left out of its walk and read by itself (`AnnounceIsCut`). |

**At the end of their modules**, the safety half of three parts of `MCClientLiveness`.

| Theorem | Inductive invariant, and why it is needed |
|---|---|
| `ClientProcess.ThreadsAreSafe` (type, `NoUseAfterFree`, `NothingLeftBehind`) | `ProcessInv`: what is built at each stage of `main()`, and which threads may be alive there. A handler exists only once the worker thread has run, and a script only while it had not ended, so that the order of the joins is the order in which things may go. |
| `ClientConnection.OneCallbackAtATime` (type, `StateFollowsMatches`, `ShownIsLast`) | `ConnectionInv`: the count lacks what the callback under way has still to add, `state_` is ahead of what the GUI was told by one change at most. Its hypotheses are that of the run, one thread (with two it is false, see below), and that endpoints are finite. |
| `ReaderLoop.SamplesAreHandled` (type, `HandledInOrder`) | `LoopInv`: the queue is the tail of what arrived, and what came before is dropped or handled, each valid sample once and in order of arrival; nothing is dropped once something was handled. |

**Model-checked only.**

* Liveness, under fairness, and ENABLED: beyond the prover. These are the properties of
  `fleet_live`, `client_liveness`, and `RunningClientsFollow` and `FleetTellsTheTruth` of
  `bundle`, but for the safety in them that is proved above.
* `PathsAreFollowed`, `AutostartIsAsAsked`, `HostsAreShown`: `JsonPathReading`,
  `AutostartTask` and `FleetTable` walk texts, paths and tables of any length with
  recursive operators and library folds, which the provers cannot look into. (Where a walk is a
  recursive function of a number, as in `TemplateBundle` and `Codec`, it can be followed: the set
  of the steps up to which a formula holds takes the place of the induction theorem.)
  `AutostartIsAsAsked` is moreover false of arbitrary values (see below).

## Disagreements found

Three runs check what a text of the repository says and find it violated:

1. **Ghosts** (`fleet_ghost`). A sample waiting in the coalescer recreates the entry
   of a host just marked lost; as Unexpected entries have no lease it stays.
2. **A revision used twice** (`bundle_lost`). `publish()` goes on when the save
   failed, and the next server numbers from the older file. Clients compare
   revisions, not hashes, and skip the new rules; the view says up to date.
3. **A replay overtakes** (`bundle_late`). `on_bundle()` replays the retained bundle
   after releasing the mutex; a newer one may be queued before it, and the client
   applies whichever revision differs. It is shown stale until the next publication.

The rest are formulas in the modules that no listed run includes; TLC finds each
violated as a property of its module under the constants of the last column (those
of a part of a run above, or one constant changed).

| Formula | Where | The code, and what is said of it | Constants |
|---|---|---|---|
| `ScriptDispatch.RefusedNeverStarted` | `monitor_worker.cpp:310` | a busy client forgets the id it refuses, and starts the script if the sample comes again; remote-scripts-design:91 "the host will not run it" | `Redelivery = TRUE`, 2 runs |
| `FleetLiveness.MissingMeansNeverSeen` | `server_controller.cpp:341` | a lost host looks at `expected_` only, the view at the assignments too; lab-monitor-design:153 Missing is "never seen" | as `fleet` |
| `FleetLiveness.UnexpectedIsReporting` | `server_controller.cpp:220` | an Offline host taken off the list reads Unexpected; lab-monitor-design:154 "Reporting, but not in the expected list" | as `fleet_live` |
| `ClientConnection.MatchIsShown` | `fast_dds_transport.cpp:533` | a match before the handler or the signal is told to nobody; foundation plan:4581 | as `connection` |
| `ClientConnection.StateFollowsMatches` | `fast_dds_transport.cpp:545` | two callbacks may store their states in the other order than they counted | 2 threads |
| `AutostartTask.EveryQuoteArrives` | `autostart_windows.cpp:215` | a slash before a quote is not doubled; :210 "every quote … must arrive there" | as `autostart` |
| `AutostartTask.TaskAlwaysRunsAsAsked` | `main.cpp:149`, `autostart_windows.cpp:199` | an empty level leaves `--log-level` without a value, and a path in the ANSI code page is decoded as UTF-8; autostart.hpp "read the same config and log at the same level as the command that installed it" | as `autostart` |
| `ScriptRunner.FailedRanToItsEnd` | `script_runner_windows.cpp:460` | a shell that could not be waited for, or was never resumed, is killed and reported Failed; script.cpp:71, a killed run's code is not a verdict that the script reached | as `runner` |
| `ScriptRunner.RunReturns` | `script_runner_windows.cpp:306` | without a job a process left behind keeps the join waiting; :478 "the joins have to be bounded" | `Jobs = {FALSE}` |
| `ScriptRunner.VerdictIsKept` | `script_runner_windows.cpp:488` | the LM-RESULT line after 64 KB of output is cut; remote-scripts-design:178 "parses the last such line" | `StreamCap < MaxWrites` |
| `RunStore.EverySaveReturns` | `run_store.cpp:207` | `dump()` throws on output that is not UTF-8; run_store.hpp:21 "False on failure" | as `store` |
| `RunDeletion.DeletedBeforeIsGone` | `server_controller.cpp:610` | a result handled in the box of one deletion saves a run deleted before; server_controller.hpp:162 "exactly the runs asked for" | as `deletion` |
| `ServerConfig.ALossIsTold` | `server_controller.cpp:723` | a file that exists and cannot be opened is passed over; server_controller.hpp:235 | as `config` |
| `ServerConfig.FailedWriteIsTold` | `server_controller.cpp:858` | the flush at the close can fail unseen; server_controller.hpp:235 "short/failed write" | as `config` |
| `ServerConfig.CorruptRefusesToPublish` | `server_controller.cpp:777` | an unreadable bundle leaves an empty one, which publishes; lab-monitor-design:323 "refuses to publish" | as `config` |
| `TemplateEditor.ChangedIsOffered` | `server_controller.cpp:764` | a repair at the start leaves Publish disabled; :762 "The operator publishes the repair" | as `publisher` |
| `TemplateEditor.FirstHolderKeepsId` | `template_bundle.cpp:165` | a generated id may be one that a later rule holds; template_bundle.hpp "The first rule holding an id keeps it" | as `editor` |
| `TemplateEditor.CreatedWasShownAsNew` | `fleet_window.cpp:1218` | the hint ignores case, the creation does not; :1216 "already said it was new" | as `editor` |
| `RuleDialog.EditKeepsTheRest` | `add_rule_dialog.cpp:384` | an edit drops the version and the service state, which no field shows; add_rule_dialog.hpp:42 "fills every field" | as `dialog` |
| `RuleDialog.SummaryTellsRulesApart` | `add_rule_dialog.cpp:481` | the summary leaves out the constraint; add_rule_dialog.hpp:26 "what the rule will check" | as `dialog` |
| `ScriptComposer.EmptyMeansEmpty` | `script_library.cpp:98` | a share that goes, or cannot be read, after `exists()` reads as empty; scripts_tab.cpp "an empty tree would claim the share is empty" | as `composer` |
| `ScriptComposer.ShortTreeIsSaid` | `script_library.cpp:41`, `:55` | a tree cut at its depth, or at a folder that cannot be read, has no message; scripts_tab.cpp:1137 "Said out loud" | as `composer` |
| `RunView.SelectionIsOfItsRun` | `scripts_tab.cpp:676` | rows refreshed in place keep another run's selection; :915 | as `run_view` |
| `FleetTable.AdaptersArePainted` | `fleet_model.cpp:447` | a sample changes the Adapters text, and its column is not repainted | as `heard` |
| `FleetTable.TotalCountsEveryHost` | `fleet_window.cpp:391` | a host that the filter hides does not refresh "N of M"; :389 | as `filtered` |
| `FleetTable.DetailIsLive` | `fleet_window.cpp:537` | the state in the pane is set on selection only; lab-monitor-design:280 "live detail" | as `heard` |
| `JsonPathReading.OnlyWhenEveryElementFails` | `json_path.cpp:216` | a path fails although an element gave an empty sequence; json_path.hpp:61 "for *every* element" | as `walked` |
| `JsonPathReading.PastTheEndFails` | `json_path.cpp:71` | an index wraps at the width of `size_t`; test_json_path.cpp:74 | as `typed` |
| `HostProbes.CouldNotTellIsAnError` | `process_probe_windows.cpp:87`, `network_probe_windows.cpp:105` | no snapshot reads as no process, a list of adapters that cannot be read as none; compliance.cpp:215 "Error is for "could not tell"" | as `tick` |
| `HostProbes.CountsAreOfOneMoment` | `compliance.cpp:181` | the adapters counted are those that came up one after the other; never were so many connected at once | as `tick` |
| `NetworkProbe.EntriesAreShown` | `network_probe_windows.cpp:378` | an entry named as a part of a card's description is hidden; :371 | `Mentioned = {e1}` |
| `DdsProbe.QuietIsUnpublished` | `dds_probe.cpp:413` | takes that fail to the end of the wait leave the look as it is of a quiet writer; :429 "nothing has been published" | as `look` |
| `DdsProbe.UnreadableIsUnadvertised` | `dds_probe.cpp:164` | a type that arrives after the last query is an error; :349 "does not advertise a type description" | as `look` |
| `DdsProbe.UnmatchedIsAMismatch` | `dds_probe.cpp:121` | a writer that left is reported as a mismatch; :114 | as `look` |
| `DdsProbe.WritersOfAnyDurabilityAreRead` | `dds_probe.cpp:390` | the reader asks for transient local always; :385 "Falling back to whatever the writer offers" | as `look` |
| `DdsProbe.DisposalMeansNoValue` | `dds_probe.cpp:434` | the look ends with the first sample, which may be another instance's disposal; :436 | as `look`, 4 bus events |

The properties of the runs hold with these causes in place, under the condition
each states: `Redelivery = FALSE`; `expected` rather than the effective list; `~lost`;
no open box; a job; one thread; `Mentioned = {}`; every folder, list and take that a
claim rests on could be read; options that a command line can carry.

## Abstractions

* In the dispatch a script body, output and exit code are the status they lead to;
  in the distribution a bundle is a revision and a content; capabilities of a host
  are one bit (enrolled for scripts).
* Time is not counted. A deadline may pass at any moment after the dispatch, a
  lease at any moment without news; this includes clients held up beyond margins.
  `DdsProbe` counts ticks of its waits, and assumes that what happened on the bus
  reaches the participant within one.
* The fleet view that a dispatch consults is any set of eligible hosts, which
  includes every stale one.
* Report delivery keeps one report per client on its way; a newer one replaces it.
* Fast DDS is modelled from how the transport uses it and marked external: losses
  and redelivery on the script topics, liveliness, matching of a new reader; in
  `ReaderLoop`, that a take which fails to decode consumes the sample and one that
  fails for the reader's own reasons does not, and that a listener is called again
  for what arrives while it runs.
* A path that fails on a sample gives one reason, whichever the walk had (`Compliance`). An id that the program generates is a slug, which stands for its
  target, and a number (`TemplateBundle`).
* In the fleet module the assignments of a bundle are kept and its rules are not;
  in the bundle module it is the reverse. There `deduplicate_rule_ids()` at load is
  one more edit of the draft; in `TemplateEditor` it is itself.
* Windows: a process id of a snapshot is not reused before the process is opened
  (`HostProbes`); an adapter is known by its name from one list to the next
  (`HostProbes`); a dialled entry has an interface described by its name, and GUIDs
  are spelt alike (`NetworkProbe`); the C runtime splits command lines and schtasks
  stores `/TR` as received, and a character outside ASCII is one of the ANSI code page
  that is not read back from there as UTF-8 (`AutostartTask`).
* A read that fails does so at any moment and is named by what it reads: a folder of
  the share, a list of `NetworkProbe`, a probe of `HostProbes`.
* `RuleJson`: of the keys that the code does not read, whether there are any; of a number
  that is no integer of the field's width, what the cast makes of it.
* Qt: `QSaveFile` renames atomically (`RunStore`); `QFile` buffers and nothing hears
  of a failure at the close (`ServerConfig`); the error box is application-modal
  (`RunDeletion`).
* `Codec`: a number is one cell whatever its width. `ServerConfig`: a file holds a set
  of items, and an edit cut off before its save, or a file found but not opened at
  a start, is excused from `AnEditIsKeptOrAnswered`: the operator was not answered.
* A run in `RunDeletion` has one target; in `RunView` a script is its name.

## Not modelled

Widgets, painting and layout, the detail window of the client; the expected-hosts
list of the window beyond its effect; command lines other than the autostart
options, and the construction of the server; the service and resource probes, which
are single calls of the operating system; the Linux script runner, which says that
scripts cannot be run; the in-memory transport of `--offline` and the tests, whose
only order is that of the calls; `heard_server_`, which feeds one notice; the
shopping cart demo. The reason for each is in `PROJECT.json`. Time bounds (how long
a glitch lasts) are outside these models.

## Plan

Done, in order of importance: script dispatch (what runs on machines, and what is
recorded of it), fleet liveness (who is there), bundle distribution (which rules
are in force); then the connection state, the process and its threads, the script
runner, the probes and the evaluation, the codec and the reader loops, the stores
of the server, and the tabs.

Proved, in the same order: the three compositions, then the parts of the server's files
and tabs and those of the client that have no recursive operator, then the safety of
the client's process, connection and reader loops; last the verdicts of a tick, the
form of a rule, the bundle of templates and the messages on the wire, whose walks over
lists had to be written as functions of a number first.

Next:

1. `PathsAreFollowed`, with the walks of `JsonPath` written as functions of a number.
2. `RunStore` as a refinement of the save that `ServerRuns` takes in one step.
3. Dispatch on the fleet view of `FleetLiveness` instead of any view; one abstract
   specification of the fleet view, implemented by `FleetLiveness`.

## How to run

    tlc -config one_host.cfg ScriptDispatch.tla
    tlc -config fleet.cfg FleetLiveness.tla
    tlc -config fleet_live.cfg FleetLiveness.tla
    tlc -config bundle.cfg MCBundles.tla
    tlc -config server.cfg MCServer.tla
    tlc -config reports.cfg MCReports.tla
    tlc -config client_liveness.cfg MCClientLiveness.tla
    tlapm ScriptDispatchProofs.tla
    tlapm ServerProofs.tla
    tlapm ClientProofs.tla
    tlapm ClientProcess.tla

`PROJECT.json` lists for every run its module and configuration, and maps every
definition to the lines of code that it models. The four runs of several parts take
one to two minutes each, the others less. To look at
one part alone, replace `part \in Parts` by `part = "..."` in the module's `Init`.
