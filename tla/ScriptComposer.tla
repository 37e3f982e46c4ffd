--------------------------- MODULE ScriptComposer ---------------------------
(***************************************************************************)
(* Composing a run in the Scripts tab (scripts_tab.cpp, script_library.cpp): *)
(* an operator picks a script of the share or writes one, ticks hosts and  *)
(* presses Run, while other people write to the share and the fleet        *)
(* changes.  Each action is one signal of a widget or of the controller    *)
(* with all the slots that run in it; all of them are on the GUI thread.   *)
(*                                                                         *)
(* Abstracted: the folders of the share are the depth of each script and   *)
(* whether a walk saw one, and a walk of the share is one step, since only *)
(* names are taken from it; a folder that it could not read is part of it. *)
(***************************************************************************)
EXTENDS Naturals, FiniteSets

CONSTANTS
    Hosts,       \* a set of numbers: the order of the host list
    Scripts,     \* the *.ps1 files the share may hold
    Depth,       \* how many folders down each one is
    kMaxDepth,
    Bodies,      \* what a script may say
    MaxChanges   \* bound: the changes of the share and of the fleet

None == "none"
Gone == "gone"               \* no such file
Unreadable == "unreadable"   \* or longer than kMaxScriptBytes
Starter == "starter"         \* starter_template()
kCustomScriptName == "(custom script)"

ComposerAssumption ==
    /\ Hosts \subseteq Nat /\ IsFiniteSet(Hosts) /\ MaxChanges \in Nat
    /\ Depth \in [Scripts -> Nat] /\ kMaxDepth \in Nat
    /\ None \notin Scripts /\ None \notin Bodies

VARIABLES
    fleet,      \* the hosts that the controller's fleet lists
    share,      \* what each script of the share holds
    reachable,  \* dir.exists()
    changes,    \* how often the share or the fleet has changed
    rows,       \* host_list_: its hosts
    ticked,     \* and those that are checked
    scripts,    \* scripts_, the tree
    message,    \* share_message_
    page,       \* mode_stack_
    editor,     \* editor_, its text
    selected,   \* selected_script_
    previewed,  \* previewed_body_ and the preview pane
    pending,    \* changed_script_pending_, and the button to accept it
    run_button, \* enabled
    label,      \* target_count_label_
    sent,       \* what start_script_run was last given
    chosen,     \* history: the hosts that the operator ticked
    read,       \* history: the body the operator asked to see, or accepted
    there,      \* history: what the share held when it was listed
    unread      \* history: the walk met a folder that it could not read

world == <<fleet, share, reachable, changes>>
list  == <<rows, ticked>>
tree  == <<scripts, message, there, unread>>
body  == <<page, editor, selected, previewed, pending, read>>
vars  == <<world, list, tree, body, run_button, label, sent, chosen>>

NoRun == [script_name |-> None, script_body |-> None, hosts |-> {}]

-----------------------------------------------------------------------------
\* read_script_body: a file that is too long is one that cannot be read.
Readable(s) == reachable /\ share[s] \in Bodies

\* A slip: a tick is enough, whatever the re-read found.
CountAndBody == ticked' # {} /\ (page' = "editor" \/ selected' # None)

\* Whether Run is offered: something to run, somewhere to, and nothing to accept.
may_run == ticked' # {} /\ (page' = "editor" \/ selected' # None) /\ ~pending'

\* Every slot ends with it.
update_target_count == run_button' = may_run /\ label' = Cardinality(ticked')

InShare == {s \in Scripts : share[s] # Gone}

\* A slip: a walk that was cut short is shown as it is.
MessageUncut(found, folders, walk) == IF found = {} /\ ~folders THEN "empty" ELSE None

\* A walk read all of the share, or a part: its time was over, or else a folder could
\* not be read.
Walks == {"whole", "truncated", "unread"}

\* What reload_library says of a walk that found these scripts, and folders or none:
\* empty() is of the root.
MessageFor(found, folders, walk) ==
    IF walk = "truncated" THEN "truncated" ELSE IF found = {} /\ ~folders THEN "empty" ELSE None

\* read_into: no deeper than kMaxDepth, and what the budget of time allows for.
\* entryInfoList() of a folder that cannot be read, or of a share that has gone
\* since dir.exists(), is an empty list.  A folder is listed whatever it holds.
Listing(found, folders, walk) ==
    LET within   == {s \in InShare : Depth[s] <= kMaxDepth}
        inFolder == {s \in InShare : Depth[s] > 0}
    IN /\ found \subseteq within /\ (walk = "whole" => found = within)
       /\ found \cap inFolder # {} => folders
       /\ walk = "whole" /\ inFolder # {} => folders

clear_changed_script_block == pending' = FALSE

Init ==
    /\ fleet \in SUBSET Hosts
    /\ share \in [Scripts -> Bodies \cup {Gone}] /\ reachable = TRUE /\ changes = 0
    /\ rows = fleet /\ ticked = {}
    /\ scripts = {} /\ message = "unconfigured" /\ there = {} /\ unread = FALSE
    /\ page = "library" /\ editor = Starter
    /\ selected = None /\ previewed = None /\ pending = FALSE
    /\ run_button = FALSE /\ label = 0
    /\ sent = NoRun /\ chosen = {} /\ read = None

(***************************************************************************)
(* Other people                                                            *)
(***************************************************************************)
Changing == changes < MaxChanges /\ changes' = changes + 1

ShareWritten ==
    /\ Changing
    /\ \/ /\ \E s \in Scripts, b \in Bodies \cup {Gone, Unreadable} :
                b # share[s] /\ share' = [share EXCEPT ![s] = b]
          /\ UNCHANGED reachable
       \/ reachable' = ~reachable /\ UNCHANGED share
    /\ UNCHANGED <<fleet, list, tree, body, run_button, label, sent, chosen>>

\* A slip: ticks are put back by row.
TickedByRow ==
    LET place(h, all) == Cardinality({g \in all : g <= h})
    IN {h \in fleet' : \E g \in ticked : place(g, rows) = place(h, fleet')}

\* Ticks are put back by host id.
TickedAgain == ticked \cap fleet'

\* fleet_changed: rebuild_host_list.
rebuild_host_list ==
    /\ Changing
    /\ fleet' \in SUBSET Hosts /\ fleet' # fleet
    /\ rows' = fleet' /\ ticked' = TickedAgain
    /\ chosen' = chosen \cap fleet'
    /\ UNCHANGED <<share, reachable, tree, body, sent>>
    /\ update_target_count

(***************************************************************************)
(* The operator                                                            *)
(***************************************************************************)
\* itemChanged of one row.
Tick(h) ==
    /\ h \in rows
    /\ ticked' = IF h \in ticked THEN ticked \ {h} ELSE ticked \cup {h}
    /\ chosen' = ticked'
    /\ UNCHANGED <<world, rows, tree, body, sent>>
    /\ update_target_count

\* "Select all" and "Clear".
TickAll(all) ==
    /\ ticked' = IF all THEN rows ELSE {}
    /\ chosen' = ticked'
    /\ UNCHANGED <<world, rows, tree, body, sent>>
    /\ update_target_count

\* "Custom script..." and "Back to script list".
currentChanged(other) ==
    /\ page # other /\ page' = other
    /\ UNCHANGED <<world, list, tree, editor, selected, previewed, pending, read, sent, chosen>>
    /\ update_target_count

\* The editor: typed into, or reset to the template.
Edit ==
    /\ page = "editor"
    /\ \E text \in Bodies \cup {Starter} : text # editor /\ editor' = text
    /\ UNCHANGED <<world, list, tree, page, selected, previewed, pending, read,
                   run_button, label, sent, chosen>>

\* The current row of the tree is another script, or a folder, or none.
on_script_selection_changed(s) ==
    /\ page = "library" /\ s # selected /\ s \in scripts \cup {None}
    /\ clear_changed_script_block
    /\ LET shown == s # None /\ Readable(s)
       IN /\ selected' = IF shown THEN s ELSE None
          /\ previewed' = IF shown THEN share[s] ELSE None
          /\ read' = previewed'
    /\ UNCHANGED <<world, list, tree, page, editor, sent, chosen>>
    /\ update_target_count

\* A slip: the tree is cleared, what was selected in it is not.
ReloadTreeOnly ==
    /\ pending' = FALSE
    /\ \E found \in SUBSET InShare, folders \in BOOLEAN, walk \in Walks :
          /\ Listing(found, folders, walk)
          /\ scripts' = found /\ message' = MessageFor(found, folders, walk)
          /\ there' = InShare /\ unread' = (walk = "unread")
    /\ previewed' = None /\ read' = None
    /\ UNCHANGED <<world, list, page, editor, selected, sent, chosen>>
    /\ update_target_count

\* Refresh, or another root: the share is read again.
reload_library ==
    /\ clear_changed_script_block
    /\ selected' = None /\ previewed' = None /\ read' = None
    /\ IF reachable
       THEN \E found \in SUBSET InShare, folders \in BOOLEAN, walk \in Walks :
               /\ Listing(found, folders, walk)
               /\ scripts' = found /\ message' = MessageFor(found, folders, walk)
               /\ there' = InShare /\ unread' = (walk = "unread")
       ELSE scripts' = {} /\ message' = "unreachable" /\ there' = {} /\ unread' = FALSE
    /\ UNCHANGED <<world, list, page, editor, sent, chosen>>
    /\ update_target_count

\* The button that a changed script brings up.
accept_changed ==
    /\ pending
    /\ clear_changed_script_block
    /\ read' = previewed
    /\ UNCHANGED <<world, list, tree, page, editor, selected, previewed, sent, chosen>>
    /\ update_target_count

start_script_run(name, text) ==
    /\ sent' = [script_name |-> name, script_body |-> text, hosts |-> ticked]
    /\ UNCHANGED <<world, list, tree, body, run_button, label, chosen>>

\* Run, on the editor's page.
run_custom ==
    /\ ~pending /\ ticked # {} /\ page = "editor"
    /\ start_script_run(kCustomScriptName, editor)

\* A slip: the script is sent as it was re-read.
RunReread ==
    /\ ~pending /\ ticked # {} /\ page = "library" /\ selected # None
    /\ Readable(selected)
    /\ start_script_run(selected, share[selected])

\* Run, of a script that is still what the operator read.
run_script ==
    /\ ~pending /\ ticked # {} /\ page = "library" /\ selected # None
    /\ Readable(selected) /\ share[selected] = previewed
    /\ start_script_run(selected, share[selected])

\* Run, of a script that was rewritten: it is shown, and nothing is run.
run_blocked ==
    /\ ~pending /\ ticked # {} /\ page = "library" /\ selected # None
    /\ Readable(selected) /\ share[selected] # previewed
    /\ previewed' = share[selected]
    /\ pending' = TRUE
    /\ UNCHANGED <<world, list, tree, page, editor, selected, read, sent, chosen>>
    /\ update_target_count

Next ==
    \/ ShareWritten \/ rebuild_host_list
    \/ \E h \in Hosts : Tick(h)
    \/ \E all \in BOOLEAN : TickAll(all)
    \/ \E other \in {"library", "editor"} : currentChanged(other)
    \/ Edit
    \/ \E s \in Scripts \cup {None} : on_script_selection_changed(s)
    \/ reload_library \/ accept_changed
    \/ run_custom \/ run_script \/ run_blocked

Spec == Init /\ [][Next]_vars

(***************************************************************************)
(* Properties                                                              *)
(***************************************************************************)
\* The state is well formed: what is ticked is in the list, what is selected was
\* listed, and a preview is of a selected script.
TypeOK ==
    /\ fleet \subseteq Hosts /\ rows = fleet /\ ticked \subseteq rows
    /\ changes \in 0 .. MaxChanges
    /\ scripts \subseteq Scripts /\ selected \in scripts \cup {None}
    /\ previewed \in Bodies \cup {None} /\ (previewed = None) = (selected = None)
    /\ pending => selected # None
    /\ message \in {None, "unconfigured", "unreachable", "truncated", "empty"}

\* Run is enabled exactly if it would do something, and the count beside it is of
\* the hosts it would reach: no slot leaves either as it was before
\* (update_target_count, of which every slot makes its own call).
RunButtonIsTrue ==
    /\ run_button <=> /\ ticked # {} /\ ~pending
                      /\ page = "editor" \/ selected # None
    /\ label = Cardinality(ticked)

\* What is sent is what the operator last asked to see, or accepted, and it is in
\* the preview as it goes: not what a re-read found, and not what a refused Run
\* has just put there (on_run_clicked and accept_changed_button_).
RunsWhatWasRead ==
    [][sent' # sent =>
        LET text == sent'.script_body
        IN IF page = "library" THEN text = read /\ text = previewed /\ sent'.script_name = selected
           ELSE text = editor]_vars

\* It is sent to the hosts that the operator ticked, and to no other, however the
\* fleet has changed since; each is on the list at that moment (rebuild_host_list).
RunsWhereItWasTicked ==
    [][sent' # sent => sent'.hosts = chosen /\ sent'.hosts \subseteq fleet]_vars

\* Nothing is listed that was not there.  Of a walk that could read every folder:
\* the share is called empty only if it was, and a tree without a message lacks no
\* script but the ones that are too deep (reload_library).
MessageIsTrue ==
    /\ scripts \subseteq there
    /\ message = "empty" /\ ~unread => there = {}
    /\ message = None /\ ~unread => {s \in there : Depth[s] <= kMaxDepth} \subseteq scripts

\* What scripts_tab.cpp says of the share that cannot be reached: "an empty tree
\* would claim the share is empty, which is a different fact".
EmptyMeansEmpty == message = "empty" => there = {}

\* What scripts_tab.cpp says of a share that was read in part: that is said, rather
\* than presenting a short tree as the whole share.
ShortTreeIsSaid == message = None => there \subseteq scripts
=============================================================================
