---------------------------- MODULE FleetTable ----------------------------
(***************************************************************************)
(* The Fleet tab: FleetModel (fleet_model.cpp), whose rows are merged with *)
(* each view, each report and each sample; the proxy that filters and      *)
(* sorts them and the window around it (fleet_window.cpp, with its ribbon).*)
(* Each action is one signal with every slot that runs in it, on the GUI   *)
(* thread.  What is on screen is a copy, refreshed only where a signal     *)
(* says so: a cell by dataChanged of its column, the place of a row by     *)
(* dataChanged of column 0, the status line by the signals of the proxy.   *)
(*                                                                         *)
(* Assumed of Qt: QSortFilterProxyModel emits rowsInserted for the rows    *)
(* its filter accepts, after the model has them, and rowsRemoved while     *)
(* the model still has them; when the selected row goes, the view selects  *)
(* another of its rows, or none.  Tooltips, the two hidden columns' texts  *)
(* and the labels of the rules are left out.                               *)
(***************************************************************************)
EXTENDS Integers, Sequences, FiniteSets, SequencesExt

CONSTANTS
    Hosts,      \* host ids, as numbers: rows are in their order
    Entries,    \* what a view says of a host: [state, caps, stale]
    Reports,    \* compliance reports: sequences of <<rule, status>>
    Samples,    \* resource samples: [load, adapters]
    Texts,      \* what is typed in the filter: the hosts whose name contains it
    Counters,   \* the counters of the ribbon that are pressed: states, and "Stale"
    Clicked     \* the hosts that are clicked

None   == "none"
NoHost == 0
States == {"Missing", "Offline", "Unexpected", "Paused", "Online"}

TableAssumption ==
    /\ Hosts \subseteq Nat \ {NoHost} /\ IsFiniteSet(Hosts) /\ Hosts \in Texts
    /\ \A e \in Entries : e.state \in States /\ {e.caps, e.stale} \subseteq BOOLEAN

VARIABLES
    fleet,      \* fleet_: by host, its entry in the last view, or NoEntry
    reports,    \* report_cache_
    samples,    \* resource_cache_
    filter,     \* the proxy's filters and the window's copy of them
    ribbon,     \* the counters of the ribbon that are pressed
    table       \* rows_, and what is on screen: one record, which the signals change in turn

vars == <<fleet, reports, samples, filter, ribbon, table>>

-----------------------------------------------------------------------------
\* What a row says.
Count(report, status) == Cardinality({i \in DOMAIN report : report[i][2] = status})
summarise(report) == [passed  |-> Count(report, "Pass"), failing |-> Count(report, "Fail"),
                      errors  |-> Count(report, "Error")]

\* failing_tags: failures before errors, otherwise in the order of the report.
failing_tags(report) == SelectSeq(report, LAMBDA result : result[2] = "Fail")
                        \o SelectSeq(report, LAMBDA result : result[2] = "Error")

severity_of(state) == CHOOSE n \in 0 .. 4 :
    state = <<"Missing", "Offline", "Unexpected", "Paused", "Online">>[n + 1]

\* lround(passed_ratio() * 899.0), halves away from zero.
RatioScore(s) == LET checked == s.passed + s.failing + s.errors
                 IN (2 * 899 * s.passed + checked) \div (2 * checked)

severity_score(row) == severity_of(row.entry.state) * 1000 +
    CASE row.entry.state # "Online"                         -> 0
      [] row.entry.state = "Online" /\ row.summary = <<>>   -> 900
      [] row.entry.state = "Online" /\ row.summary # <<>>   ->
            LET s == row.summary[1]
            IN IF s.failing = 0 /\ s.errors = 0 THEN 999 ELSE RatioScore(s)

is_silent(state) == state \in {"Missing", "Offline", "Paused"}

health_of(row) ==
    IF row.entry.state # "Online" THEN row.entry.state
    ELSE IF row.summary = <<>> THEN "Unknown"
    ELSE IF row.summary[1].failing = 0 THEN "Compliant" ELSE "Failing"

\* Cpu, Memory and Disk are one column here, as are Revision and Last Seen.
Columns == {"Host", "State", "Compliance", "Load", "Adapters", "Seen"}

Text(row, column) ==
    CASE column = "Host"       -> <<row.host>>
      [] column = "State"      -> <<row.entry.state>>
      [] column = "Compliance" -> <<is_silent(row.entry.state), row.summary,
                                    IF row.entry.state = "Online" THEN row.tags ELSE <<>> >>
      [] column = "Load"       -> [i \in DOMAIN row.resources |-> row.resources[i].load]
      [] column = "Adapters"   -> IF row.entry.caps
                                  THEN [i \in DOMAIN row.resources |-> row.resources[i].adapters]
                                  ELSE <<"-">>
      [] column = "Seen"       -> <<row.entry.stale>>

Colour(row, column) ==
    IF column = "Load" /\ row.entry.state = "Online" /\ row.resources # <<>>
    THEN <<"load", row.resources[1].load>> ELSE <<"health", health_of(row)>>

Cell(row, column) == <<Text(row, column), Colour(row, column)>>

-----------------------------------------------------------------------------
\* The rows, as sequences; what is optional in a row is a sequence of one at most.
\* A slip: lower_bound's answer is not compared with the host it was asked for.
IndexUnchecked(t, host) == SelectInSeq(t.rows, LAMBDA row : row.host >= host)
index_of(t, host) == SelectInSeq(t.rows, LAMBDA row : row.host = host)
RowOf(t, host)    == t.rows[index_of(t, host)]

filterAcceptsRow(f, row) ==
    /\ row.host \in f.text
    /\ f.state # None => row.entry.state = f.state
    /\ f.stale => row.entry.stale

update_filter_status(t, f) ==
    [t EXCEPT !.status = [shown |-> Len(t.shown), total |-> Len(t.rows), by |-> f]]

NoDetail == [host |-> NoHost, state |-> None, resources |-> <<>>, adapters |-> <<>>, tree |-> <<>>]

refresh_adapter_list(row, sample) ==
    IF ~row.entry.caps THEN <<"not reported">>
    ELSE IF sample = <<>> THEN <<"none">> ELSE <<sample[1].adapters>>

\* The groups of the compliance tree that have a result, in the order they are in.
populate_compliance_tree(report) ==
    LET Group(status) == SelectSeq(report, LAMBDA result : result[2] = status)
        groups == [i \in 1 .. 4 |-> Group(<<"Fail", "Error", "Pass", "NotApplicable">>[i])]
    IN SelectSeq(groups, LAMBDA group : group # <<>>)

\* on_selection_changed, with refresh_detail_pane, from the caches as they are.
on_selection_changed(t, host) ==
    [t EXCEPT !.selected = host,
              !.detail = IF host = NoHost THEN NoDetail
                         ELSE [host      |-> host,
                               state     |-> RowOf(t, host).entry.state,
                               resources |-> samples[host],
                               adapters  |-> refresh_adapter_list(RowOf(t, host), samples[host]),
                               tree      |-> IF reports[host] = <<>> THEN <<>>
                                             ELSE populate_compliance_tree(reports[host][1])]]

Paint(t, host, columns) ==
    [t EXCEPT !.painted[host] =
        [c \in Columns |-> IF c \in columns THEN Cell(RowOf(t, host), c) ELSE @[c]]]

\* Where the proxy puts a host: after those that are as urgent.
Placed(t, others, host) ==
    LET before == {i \in DOMAIN others :
                    severity_score(RowOf(t, others[i])) <= severity_score(RowOf(t, host))}
    IN InsertAt(others, Cardinality(before) + 1, host)

\* The proxy accepts a row it did not show, or shows one no longer.  `next` is
\* what the view selects in place of a selected row that goes.
Enter(t, f, host) ==
    LET shown == [t EXCEPT !.shown = Placed(t, t.shown, host)]
    IN update_filter_status(Paint(shown, host, Columns), f)

\* A slip: the selection is left where the row was.
LeaveSelection(t, f, host, next) ==
    update_filter_status([t EXCEPT !.shown = Remove(@, host)], f)
Leave(t, f, host, next) ==
    LET left  == [t EXCEPT !.shown = Remove(@, host), !.painted[host] = [c \in Columns |-> <<>>]]
        moved == IF t.selected # host THEN left
                 ELSE on_selection_changed(left, IF next \in ToSet(left.shown) THEN next ELSE NoHost)
    IN update_filter_status(moved, f)

\* A row whose column 0 changed is sorted in again; layoutChanged if it moved.
Resort(t, f, host) ==
    LET order == Placed(t, Remove(t.shown, host), host)
    IN IF order = t.shown THEN t ELSE update_filter_status([t EXCEPT !.shown = order], f)

DataChanged(t, host, columns, next) ==
    LET shows   == host \in ToSet(t.shown)
        accepts == filterAcceptsRow(filter, RowOf(t, host))
    IN CASE shows /\ accepts  -> Paint(IF "Host" \in columns THEN Resort(t, filter, host) ELSE t,
                                       host, columns)
         [] shows /\ ~accepts -> Leave(t, filter, host, next)
         [] ~shows /\ accepts -> Enter(t, filter, host)
         [] OTHER             -> t

\* endFilterChange, and setFilterFixedString: rows go, then rows come.
Refilter(t, f, next) ==
    LET hosts   == [i \in DOMAIN t.rows |-> t.rows[i].host]
        accepts(s, h) == filterAcceptsRow(f, RowOf(s, h))
        kept    == FoldLeft(LAMBDA s, h : IF h \in ToSet(s.shown) /\ ~accepts(s, h)
                                          THEN Leave(s, f, h, next) ELSE s, t, hosts)
        all     == FoldLeft(LAMBDA s, h : IF h \notin ToSet(s.shown) /\ accepts(s, h)
                                          THEN Enter(s, f, h) ELSE s, kept, hosts)
    IN update_filter_status(all, f)

-----------------------------------------------------------------------------
\* FleetModel::apply, its two cursors over the rows and the view.
\* A slip: a state that changed is said of the state's column only.
UpdateStateOnly(t, i, entry, next) ==
    LET new == [t EXCEPT !.rows[i].entry = entry]
    IN IF t.rows[i].entry = entry THEN t ELSE DataChanged(new, t.rows[i].host, {"State"}, next)

\* A slip: a row whose entry changed is replaced by a new one.
UpdateAfresh(t, i, entry, next) ==
    LET row == [host |-> t.rows[i].host, entry |-> entry,
                summary |-> <<>>, tags |-> <<>>, resources |-> <<>>]
    IN IF t.rows[i].entry = entry THEN t
       ELSE DataChanged([t EXCEPT !.rows[i] = row], row.host, Columns, next)

UpdateRow(t, i, entry, next) ==
    LET old  == t.rows[i].entry
        host == t.rows[i].host
        new  == [t EXCEPT !.rows[i].entry = entry]
        row  == IF old.state # entry.state \/ old.caps # entry.caps
                THEN DataChanged(new, host, Columns, next) ELSE new
    IN IF old.stale # entry.stale THEN DataChanged(row, host, {"Seen"}, next) ELSE row

\* A slip: a host that is new is added below the others.
InsertLast(t, i, host, entry) ==
    LET row == [host |-> host, entry |-> entry, summary |-> <<>>, tags |-> <<>>, resources |-> <<>>]
        new == [t EXCEPT !.rows = Append(@, row)]
    IN IF filterAcceptsRow(filter, row) THEN Enter(new, filter, host) ELSE new

InsertRow(t, i, host, entry) ==
    LET row == [host |-> host, entry |-> entry, summary |-> <<>>, tags |-> <<>>, resources |-> <<>>]
        new == [t EXCEPT !.rows = InsertAt(@, i, row)]
    IN IF filterAcceptsRow(filter, row) THEN Enter(new, filter, host) ELSE new

RemoveRow(t, i, next) ==
    LET host == t.rows[i].host
        gone == IF host \in ToSet(t.shown) THEN Leave(t, filter, host, next) ELSE t
    IN [gone EXCEPT !.rows = RemoveAt(@, i)]

RECURSIVE Merge(_, _, _, _, _, _)
Merge(t, i, view, incoming, j, next) ==
    LET have_old == i <= Len(t.rows)
        have_new == j <= Len(incoming)
    IN IF ~have_old /\ ~have_new THEN t
       ELSE IF have_old /\ have_new /\ t.rows[i].host = incoming[j]
       THEN Merge(UpdateRow(t, i, view[incoming[j]], next), i + 1, view, incoming, j + 1, next)
       ELSE IF have_new /\ (~have_old \/ incoming[j] < t.rows[i].host)
       THEN Merge(InsertRow(t, i, incoming[j], view[incoming[j]]), i + 1, view, incoming, j + 1, next)
       ELSE Merge(RemoveRow(t, i, next), i, view, incoming, j, next)

NoEntry == [state |-> None, caps |-> FALSE, stale |-> FALSE]
Views   == [Hosts -> Entries \cup {NoEntry}]

apply(t, view, next) ==
    Merge(t, 1, view, SetToSortSeq({h \in Hosts : view[h] # NoEntry}, <), 1, next)

\* A slip: a report is said of the compliance column only.
ComplianceColumnOnly(t, host, report) ==
    LET i   == index_of(t, host)
        new == [t EXCEPT !.rows[i].summary = <<summarise(report)>>, !.rows[i].tags = failing_tags(report)]
    IN IF i = 0 \/ new = t THEN t ELSE DataChanged(new, host, {"Compliance"}, NoHost)

apply_compliance(t, host, report) ==
    LET i   == index_of(t, host)
        new == [t EXCEPT !.rows[i].summary = <<summarise(report)>>, !.rows[i].tags = failing_tags(report)]
    IN IF i = 0 \/ new = t THEN t ELSE DataChanged(new, host, Columns, NoHost)

apply_sample(t, host, sample) ==
    LET i   == index_of(t, host)
        new == [t EXCEPT !.rows[i].resources = <<sample>>]
    IN IF i = 0 \/ new = t THEN t ELSE DataChanged(new, host, {"Load"}, NoHost)

\* The window's part of a report and of a sample: the detail pane, of its host.
on_compliance_report(t, host, report) ==
    IF host # t.selected THEN t ELSE [t EXCEPT !.detail.tree = populate_compliance_tree(report)]

\* A slip: a sample is shown whichever host it is of.
AnySample(t, host, sample) == [t EXCEPT !.detail.resources = <<sample>>]

on_resource_sample(t, host, sample) ==
    IF host # t.selected THEN t
    ELSE [t EXCEPT !.detail.resources = <<sample>>,
                   !.detail.adapters  = refresh_adapter_list(RowOf(t, host), <<sample>>)]

-----------------------------------------------------------------------------
\* A filter as the window says it, and none.
NoFilter == [state |-> None, stale |-> FALSE, text |-> Hosts]
Unpressed == [state |-> None, stale |-> FALSE]

Init ==
    /\ fleet = [h \in Hosts |-> NoEntry]
    /\ reports = [h \in Hosts |-> <<>>]
    /\ samples = [h \in Hosts |-> <<>>]
    /\ filter = NoFilter
    /\ ribbon = Unpressed
    /\ table = [rows |-> <<>>, shown |-> <<>>, selected |-> NoHost, detail |-> NoDetail,
                painted |-> [h \in Hosts |-> [c \in Columns |-> <<>>]],
                status  |-> [shown |-> 0, total |-> 0, by |-> NoFilter]]

\* A host was heard, expected or lost, or a lease ran out.
reconcile_now(view, next) ==
    /\ table' = apply(table, view, next)
    /\ fleet' = view
    /\ UNCHANGED <<reports, samples, filter, ribbon>>

\* The view is of the report just recorded: its host is there, and not silent
\* unless it is paused.  What else changes in that view is as after a reconcile_now.
on_report(host, report, entry, next) ==
    LET view == [fleet EXCEPT ![host] = entry]
    IN
    /\ entry.state \notin {"Missing", "Offline"}
    /\ table' = on_compliance_report(apply_compliance(apply(table, view, next), host, report),
                                     host, report)
    /\ fleet' = view
    /\ reports' = [reports EXCEPT ![host] = <<report>>]
    /\ UNCHANGED <<samples, filter, ribbon>>

\* One sample of the batch that was coalesced.
apply_coalesced(host, sample) ==
    /\ table' = on_resource_sample(apply_sample(table, host, sample), host, sample)
    /\ samples' = [samples EXCEPT ![host] = <<sample>>]
    /\ UNCHANGED <<fleet, reports, filter, ribbon>>

\* The filters: all of them end in endFilterChange and the status line.
Filtered(f, next) ==
    /\ filter' = f
    /\ table' = Refilter(table, f, next)
    /\ UNCHANGED <<fleet, reports, samples>>

\* The ribbon's counters are toggles: handle_state_clicked, then on_filter_requested.
handle_state_clicked(state, next) ==
    LET pressed == IF ribbon.state = state THEN None ELSE state
    IN /\ ribbon' = [ribbon EXCEPT !.state = pressed]
       /\ Filtered([filter EXCEPT !.state = pressed], next)

handle_stale_clicked(next) ==
    /\ ribbon' = [ribbon EXCEPT !.stale = ~@]
    /\ Filtered([filter EXCEPT !.stale = ~ribbon.stale], next)

textChanged(text, next) ==
    /\ text # filter.text
    /\ Filtered([filter EXCEPT !.text = text], next)
    /\ UNCHANGED ribbon

\* The Clear button is there while the status line names a filter.
\* A slip: the ribbon's counters stay pressed.
ClearButNotRibbon(next) ==
    /\ table.status.by # NoFilter
    /\ Filtered(NoFilter, next)
    /\ UNCHANGED ribbon

clear_filters(next) ==
    /\ table.status.by # NoFilter
    /\ ribbon' = Unpressed
    /\ Filtered(NoFilter, next)

select(host) ==
    /\ host \in ToSet(table.shown) /\ host # table.selected
    /\ table' = on_selection_changed(table, host)
    /\ UNCHANGED <<fleet, reports, samples, filter, ribbon>>

Next ==
    \/ \E host \in Clicked : select(host)
    \/ \E host \in Hosts, sample \in Samples : apply_coalesced(host, sample)
    \/ \E next \in IF table.selected = NoHost THEN {NoHost} ELSE Hosts \cup {NoHost} :
        \/ \E view \in Views : reconcile_now(view, next)
        \/ \E host \in Hosts, report \in Reports, entry \in Entries :
                on_report(host, report, entry, next)
        \/ \E state \in States \cap Counters : handle_state_clicked(state, next)
        \/ "Stale" \in Counters /\ handle_stale_clicked(next)
        \/ \E text \in Texts : textChanged(text, next)
        \/ clear_filters(next)

Spec == Init /\ [][Next]_vars

-----------------------------------------------------------------------------
\* Every row, cell and label is of its kind.
TypeOK ==
    /\ fleet \in Views
    /\ \A h \in Hosts : /\ reports[h] = <<>> \/ (Len(reports[h]) = 1 /\ reports[h][1] \in Reports)
                        /\ samples[h] = <<>> \/ (Len(samples[h]) = 1 /\ samples[h][1] \in Samples)
    /\ filter \in [state : States \cup {None}, stale : BOOLEAN, text : Texts]
    /\ ribbon \in [state : States \cup {None}, stale : BOOLEAN]
    /\ \A i \in DOMAIN table.rows : table.rows[i].host \in Hosts /\ table.rows[i].entry \in Entries
    /\ IsInjective(table.shown) /\ ToSet(table.shown) \subseteq Hosts
    /\ table.selected \in ToSet(table.shown) \cup {NoHost}
    /\ DOMAIN table.painted = Hosts
    /\ {table.status.shown, table.status.total} \subseteq 0 .. Cardinality(Hosts)

Listed == {table.rows[i].host : i \in DOMAIN table.rows}

\* Whatever came and went in one view, the merge (FleetModel::apply) leaves one
\* row for each host of it, in the order of the host ids, with its entry.
RowsAreTheView ==
    /\ Listed = {h \in Hosts : fleet[h] # NoEntry}
    /\ \A i, j \in DOMAIN table.rows : i < j => table.rows[i].host < table.rows[j].host
    /\ \A i \in DOMAIN table.rows : table.rows[i].entry = fleet[table.rows[i].host]

\* A row that names a summary, tags or a load names those of its host's last
\* report and last sample (apply_compliance, apply_sample): the rows that come
\* and go around it never lend it another's.
RowsAreAsHeard ==
    \A h \in Listed :
        LET row == RowOf(table, h)
        IN /\ row.summary # <<>> =>
                /\ reports[h] # <<>>
                /\ row.summary[1].passed = Count(reports[h][1], "Pass")
                /\ ToSet(row.tags) = {r \in ToSet(reports[h][1]) : r[2] \in {"Fail", "Error"}}
           /\ row.resources \in {<<>>, samples[h]}

\* A row that is there before and after a signal has not lost its report or its
\* load to it: an entry that changes is changed in place.
NothingIsForgotten ==
    [][\A h \in Listed \cap Listed' :
        /\ RowOf(table, h).summary # <<>> => RowOf(table', h).summary # <<>>
        /\ RowOf(table, h).resources # <<>> => RowOf(table', h).resources # <<>>]_vars

\* What is painted of a row that is shown is what the model would say of it now,
\* its colour with it, in every column but Adapters (FleetModel's dataChanged).
PaintedIsCurrent ==
    \A h \in ToSet(table.shown) : \A c \in Columns \ {"Adapters"} :
        table.painted[h][c] = Cell(RowOf(table, h), c)

\* Whether a host is to be above another: the silent ones first, by state; of
\* those that are online the failing, worst first, then those that have not
\* reported, then the clean.
Failing(row) == row.summary # <<>> /\ row.summary[1].failing + row.summary[1].errors > 0
Clean(row)   == row.summary # <<>> /\ ~Failing(row)
MoreUrgent(a, b) ==
    \/ severity_of(a.entry.state) < severity_of(b.entry.state)
    \/ /\ a.entry.state = "Online" /\ b.entry.state = "Online"
       /\ \/ Failing(a) /\ ~Failing(b)
          \/ ~Clean(a) /\ Clean(b)
          \/ /\ Failing(a) /\ Failing(b)
             /\ LET checked(s) == s.passed + s.failing + s.errors
                IN a.summary[1].passed * checked(b.summary[1]) < b.summary[1].passed * checked(a.summary[1])

\* No host is shown above one that is more urgent, after any sequence of views,
\* reports and filters (severity_score, and the proxy that sorts on it when
\* column 0 is said to have changed).
MostUrgentFirst ==
    \A i, j \in DOMAIN table.shown :
        i < j => ~MoreUrgent(RowOf(table, table.shown[j]), RowOf(table, table.shown[i]))

\* The rows that are shown are those the filters accept, the status line names
\* those filters and that many rows, and the ribbon's pressed counters are the
\* same filters (update_filter_status, clear_filters).
FilterIsAsSaid ==
    /\ ToSet(table.shown) = {h \in Listed : filterAcceptsRow(filter, RowOf(table, h))}
    /\ table.status.by = filter
    /\ table.status.shown = Len(table.shown)
    /\ ribbon = [state |-> filter.state, stale |-> filter.stale]

\* The detail pane's readings and report are the last of the host that is
\* selected, whatever arrived for others and whichever row took the selection
\* over (on_resource_sample, on_compliance_report, refresh_detail_pane).
DetailIsOfTheSelected ==
    /\ table.detail.host = table.selected
    /\ table.selected # NoHost =>
        /\ table.detail.resources = samples[table.selected]
        /\ LET tree == FlattenSeq(table.detail.tree)
               last == FlattenSeq(reports[table.selected])
           IN Len(tree) = Len(last) /\ ToSet(tree) = ToSet(last)

\* "emits dataChanged only for cells that actually changed" (fleet_model.hpp),
\* and for all of those: the adapters that are painted are those of the row.
AdaptersArePainted ==
    \A h \in ToSet(table.shown) :
        table.painted[h]["Adapters"] = Cell(RowOf(table, h), "Adapters")

\* "the 'showing N of M' count has to follow it rather than only changing when
\* a filter changes" (fleet_window.cpp): M misses no host that is listed.
TotalCountsEveryHost == Len(table.rows) <= table.status.total

\* "live detail for the selected host" (the design): the state beside its name
\* is the state its row has.
DetailIsLive ==
    table.selected # NoHost => table.detail.state = RowOf(table, table.selected).entry.state

=============================================================================
