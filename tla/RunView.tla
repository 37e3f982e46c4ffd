------------------------------ MODULE RunView ------------------------------
(***************************************************************************)
(* Watching runs in the Scripts tab (scripts_tab.cpp): the history list,   *)
(* the run on screen, its rows and the output pane, while runs are         *)
(* started, answered, given up and deleted.  Each action is one signal     *)
(* with all the slots that run in it, on the GUI thread: the widgets hold  *)
(* copies of what the controller holds, and each slot copies some of it.   *)
(*                                                                         *)
(* Assumed of Qt: a list that is cleared has no current row, and a table   *)
(* that loses its selected row selects none or, in SingleSelection, the    *)
(* last row that is left.                                                  *)
(***************************************************************************)
EXTENDS Naturals, Sequences, FiniteSets, SequencesExt

CONSTANTS
    Runs,      \* run ids
    HostsOf    \* the hosts of each, in target order

None == "none"

ViewAssumption ==
    /\ IsFiniteSet(Runs) /\ None \notin Runs
    /\ \A r \in Runs : HostsOf[r] # <<>> /\ HostsOf[r] \in Seq(ToSet(HostsOf[r]))

VARIABLES
    runs,        \* script_runs(): the ids, oldest first
    state,       \* by run, the state of each of its targets
    past,        \* the runs that were deleted: an id is not made twice
    history,     \* run_history_: <<run, text>> rows, newest first
    current,     \* its current row, as a run
    displayed,   \* displayed_run_id_
    rows,        \* run_targets_: its rows
    summary,     \* run_summary_
    selected,    \* the selected row of run_targets_, 0 for none
    output,      \* run_output_
    picked       \* history: the target that was selected by the operator, or by Run

controller == <<runs, state, past>>
view       == <<rows, summary, selected, output, picked>>
vars       == <<controller, history, current, displayed, view>>

-----------------------------------------------------------------------------
TargetStates == {"Dispatched", "Completed", "Refused", "NoResponse"}

Target(r, row) == [host |-> HostsOf[r][row], state |-> state'[r][row]]

\* What the output pane says of a target: a refusal has its reason, a target
\* without a result what is waited for.
output_for(target) ==
    <<target.host, CASE target.state = "Refused"    -> "was_not_asked"
                     [] target.state = "Dispatched" -> "waiting"
                     [] target.state = "NoResponse" -> "did_not_report"
                     [] target.state = "Completed"  -> "result">>

\* RunTally, of which the text shows what is not zero.
summarise(states) == [s \in TargetStates |-> Cardinality({i \in DOMAIN states : states[i] = s})]

history_row_text(r) == summarise(state'[r])

displayed_run == IF displayed' \in ToSet(runs') THEN displayed' ELSE None

\* update_run_output, from the row that is selected now.
update_run_output ==
    output' = IF displayed_run = None THEN "press_run"
              ELSE IF selected' = 0 THEN "select_a_host"
              ELSE output_for(Target(displayed_run, selected'))

\* Which row is selected when `count` rows are left of those that were there.
Left(was, count) == IF was <= count THEN {was} ELSE {0, count}

\* refresh_run_view, of a table with one row selected.
refresh_from(was) ==
    LET count == IF displayed_run = None THEN 0 ELSE Len(HostsOf[displayed_run])
    IN /\ rows' = [row \in 1 .. count |-> Target(displayed_run, row)]
       /\ summary' = IF displayed_run = None THEN "no_run_yet" ELSE history_row_text(displayed_run)
       /\ selected' \in Left(was, count)
       /\ update_run_output
refresh_run_view == refresh_from(selected)

\* rebuild_run_history, while a run is displayed.
rebuild_from(shown) ==
    /\ history' = [i \in 1 .. Len(runs') |->
                     LET r == Reverse(runs')[i] IN <<r, history_row_text(r)>>]
    /\ current' = IF shown \in ToSet(runs') THEN shown ELSE None
rebuild_run_history == rebuild_from(displayed)

\* update_run_history_row: the text of one row.
update_run_history_row(r) ==
    history' = [i \in DOMAIN history |->
                  IF history[i][1] = r THEN <<r, history_row_text(r)>> ELSE history[i]]

Init ==
    /\ runs = <<>> /\ state = [r \in Runs |-> <<>>] /\ past = {}
    /\ history = <<>> /\ current = None /\ displayed = None
    /\ rows = <<>> /\ summary = "no_run_yet"
    /\ selected = 0 /\ output = "press_run" /\ picked = <<>>

New(r) == r \in Runs \ (ToSet(runs) \cup past)

\* load_config, at startup: the runs of an earlier session, all of them finished.
load_config ==
    /\ runs = <<>> /\ past = {}
    /\ \E loaded \in {s \in SeqOf(Runs, Cardinality(Runs)) : s # <<>> /\ IsInjective(s)} :
          /\ runs' = loaded
          /\ \E ended \in {"Completed", "NoResponse"} :
                state' = [r \in Runs |-> IF r \in ToSet(loaded)
                                         THEN [i \in DOMAIN HostsOf[r] |-> ended] ELSE <<>>]
    /\ rebuild_run_history
    /\ UNCHANGED <<past, displayed, view>>

start_script_run(r) ==
    /\ New(r)
    /\ runs' = Append(runs, r)
    /\ \E sent \in [DOMAIN HostsOf[r] -> {"Dispatched", "Refused"}] :
          state' = [state EXCEPT ![r] = sent]
    /\ UNCHANGED past

\* A slip: the row of the new run is not made the current one.
RunUnmarked(r) ==
    /\ start_script_run(r)
    /\ rebuild_run_history
    /\ displayed' = r
    /\ selected' = 1 /\ picked' = <<r, 1>>
    /\ rows' = [row \in DOMAIN HostsOf[r] |-> Target(r, row)]
    /\ summary' = history_row_text(r)
    /\ update_run_output

\* The rest of on_run_clicked: the new run is on screen, its row is the current
\* one, its rows are built from nothing and the first of them is selected.
on_run_clicked(r) ==
    /\ start_script_run(r)
    /\ rebuild_from(r)
    /\ displayed' = r
    /\ selected' = 1 /\ picked' = <<r, 1>>
    /\ rows' = [row \in DOMAIN HostsOf[r] |-> Target(r, row)]
    /\ summary' = history_row_text(r)
    /\ update_run_output

\* A slip: only the run on screen has its row updated.
UpdateDisplayedOnly(r) ==
    IF r = displayed
    THEN update_run_history_row(r) /\ refresh_run_view /\ UNCHANGED picked
    ELSE UNCHANGED <<history, view>>

\* on_script_run_changed.
on_script_run_changed(r) ==
    /\ update_run_history_row(r)
    /\ IF r = displayed THEN refresh_run_view /\ UNCHANGED picked ELSE UNCHANGED view

\* on_script_result: a host answers, before the deadline or after it.
on_script_result(r) ==
    /\ r \in ToSet(runs)
    /\ \E i \in DOMAIN HostsOf[r] :
          /\ state[r][i] \in {"Dispatched", "NoResponse"}
          /\ state' = [state EXCEPT ![r][i] = "Completed"]
    /\ UNCHANGED <<runs, past, current, displayed>>
    /\ on_script_run_changed(r)

on_run_deadline(r) ==
    /\ r \in ToSet(runs)
    /\ \E i \in DOMAIN HostsOf[r] : state[r][i] = "Dispatched"
    /\ state' = [state EXCEPT ![r] = [i \in DOMAIN HostsOf[r] |->
                    IF @[i] = "Dispatched" THEN "NoResponse" ELSE @[i]]]
    /\ UNCHANGED <<runs, past, current, displayed>>
    /\ on_script_run_changed(r)

\* currentItemChanged: the operator picks a run of the history.
currentItemChanged(r) ==
    /\ \E i \in DOMAIN history : history[i][1] = r
    /\ r # current
    /\ current' = r /\ displayed' = r
    /\ UNCHANGED <<controller, history, picked>>
    /\ refresh_run_view

\* itemSelectionChanged: the operator picks a host of the run.
itemSelectionChanged(row) ==
    /\ row \in DOMAIN rows /\ row # selected
    /\ selected' = row /\ picked' = <<displayed, row>>
    /\ UNCHANGED <<controller, history, current, displayed, rows, summary>>
    /\ update_run_output

\* The runs from `first` to `last` of the list go.
Erase(first, last) ==
    LET doomed == {runs[i] : i \in first .. last}
    IN /\ runs' = SubSeq(runs, 1, first - 1) \o SubSeq(runs, last + 1, Len(runs))
       /\ state' = [r \in Runs |-> IF r \in doomed THEN <<>> ELSE state[r]]
       /\ past' = past \cup doomed
EraseRun(r) == \E i \in DOMAIN runs : runs[i] = r /\ Erase(i, i)

\* A slip: the run that was deleted stays on screen.
DeleteAndLeave ==
    /\ current # None
    /\ EraseRun(current)
    /\ rebuild_run_history
    /\ UNCHANGED <<displayed, view>>

\* "Delete": the run whose row is the current one.
delete_run_button ==
    /\ current # None
    /\ EraseRun(current)
    /\ rebuild_run_history
    /\ IF displayed = current
       THEN displayed' = None /\ refresh_run_view /\ UNCHANGED picked
       ELSE UNCHANGED <<displayed, view>>

\* A slip: the sweep only looks at whether a row is left to select.
SweepAndLeave(count) ==
    /\ Erase(1, count)
    /\ rebuild_run_history
    /\ UNCHANGED <<displayed, view>>

\* "Delete runs older than": the oldest of them, and the run on screen if it is one.
delete_older_button(count) ==
    /\ Erase(1, count)
    /\ rebuild_run_history
    /\ IF displayed # None /\ displayed \notin ToSet(runs')
       THEN displayed' = None /\ refresh_run_view /\ UNCHANGED picked
       ELSE UNCHANGED <<displayed, view>>

Next ==
    \/ load_config
    \/ \E r \in Runs :
          \/ on_run_clicked(r) \/ on_script_result(r) \/ on_run_deadline(r)
          \/ currentItemChanged(r)
    \/ \E row \in DOMAIN rows : itemSelectionChanged(row)
    \/ delete_run_button
    \/ \E count \in 0 .. Len(runs) : delete_older_button(count)

Spec == Init /\ [][Next]_vars

(***************************************************************************)
(* Properties                                                              *)
(***************************************************************************)
\* The state is well formed: the run on screen is one of the controller's.
TypeOK ==
    /\ ToSet(runs) \subseteq Runs /\ past \subseteq Runs \ ToSet(runs)
    /\ displayed \in ToSet(runs) \cup {None} /\ current \in ToSet(runs) \cup {None}
    /\ selected \in 0 .. Len(rows)
    /\ \A r \in ToSet(runs) : state[r] \in [DOMAIN HostsOf[r] -> TargetStates]

\* The history has every run, newest first, each with its tally of now, however
\* its results and the rows came about (update_run_history_row in place,
\* rebuild_run_history otherwise).
HistoryIsCurrent ==
    /\ [i \in DOMAIN history |-> history[i][1]] = Reverse(runs)
    /\ \A i \in DOMAIN history : history[i][2] = summarise(state[history[i][1]])

\* What is on screen is what the controller holds of that run now: each row, the
\* tally and the output of the host that is selected; and no run that was deleted.
ViewIsCurrent ==
    IF displayed = None
    THEN rows = <<>> /\ summary = "no_run_yet" /\ selected = 0
    ELSE /\ displayed \in ToSet(runs)
         /\ LET now == [i \in DOMAIN HostsOf[displayed] |->
                          [host |-> HostsOf[displayed][i], state |-> state[displayed][i]]]
            IN /\ rows = now /\ summary = summarise(state[displayed])
               /\ output = IF selected = 0 THEN "select_a_host" ELSE output_for(now[selected])

\* "Delete" destroys the record that is on screen and no other: the row that is
\* highlighted never stands for another run than the one being read.
DeletesWhatIsShown ==
    [][delete_run_button => past' = past \cup {displayed}]_vars

\* What on_run_clicked says of another run's rows: the selection of the previous
\* run is not kept while standing for another machine.
SelectionIsOfItsRun ==
    selected # 0 => picked = <<displayed, selected>>
=============================================================================
