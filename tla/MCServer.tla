------------------------------ MODULE MCServer ------------------------------
(***************************************************************************)
(* What the server keeps on disk and what its operator edits and watches,  *)
(* for TLC: the store of runs, their deletion, the configuration files,    *)
(* the composer of the Scripts tab and its view of a run, the template     *)
(* editor and the rule dialog.  They share no state, so that no            *)
(* interleaving of two of them is of interest: one part moves and the      *)
(* others rest in an initial state.                                        *)
(***************************************************************************)
EXTENDS Integers, Sequences, FiniteSets, TLC

CONSTANTS
    StoredRuns, Versions, NotUtf8, Times, Second, Day,                 \* RunStore, Second in ticks
    MaxRun,                                                            \* RunDeletion
    Items,                                                             \* ServerConfig
    Hosts, Scripts, Depth, kMaxDepth, Bodies, MaxChanges,              \* ScriptComposer
    FirstShares,   \* what its share may hold at first: all of it, or less to check less
    ViewedRuns, HostsOf,                                               \* RunView
    NamedHosts, Names, Word, BaselineWord, RuleTargets, Sayings, HandIds, Bundles,  \* TemplateEditor
    BundleRules, MaxTemplates, MaxTokens, MaxPublished,                \* its bounds
    Texts, Trimmed, Counts, Domains, Constraints, Documents, Half, Mistyped,        \* RuleDialog
    DraftRules, FieldChanges,                                          \* its bounds
    r1, r2, r3, pc1, pc2, h1, h2, Unset

VARIABLES
    part,                                                              \* the part that moves
    dir, temporary, storing, store_step, stored, runs, errors,         \* RunStore
    issued, script_runs, saved_runs, disk, boxes, failed, gone,        \* RunDeletion
    file, memory, shown, saving, step, intended, told, excused,        \* ServerConfig
    fleet, share, reachable, share_changes, host_rows, ticked, scripts, message, page, editor,
    script, previewed, pending, run_button, label, sent, chosen, read, there, unread,   \* ScriptComposer
    listed, state, past, history, current, displayed, target_rows, tally, target,
    output, picked,                                                    \* RunView
    loaded, draft, published, publications, button,                    \* TemplateEditor
    rules, text, saved, dialog, row, form, summary, touched, changes   \* RuleDialog

store == <<dir, temporary, storing, store_step, stored, runs, errors>>
deletion == <<issued, script_runs, saved_runs, disk, boxes, failed, gone>>
config == <<file, memory, shown, saving, step, intended, told, excused>>
composer == <<fleet, share, reachable, share_changes, host_rows, ticked, scripts, message, page,
              editor, script, previewed, pending, run_button, label, sent, chosen, read, there,
              unread>>
run_view == <<listed, state, past, history, current, displayed, target_rows, tally, target,
              output, picked>>
template_editor == <<loaded, draft, published, publications, button>>
rule_dialog == <<rules, text, saved, dialog, row, form, summary, touched, changes>>
vars == <<part, store, deletion, config, composer, run_view, template_editor, rule_dialog>>

-----------------------------------------------------------------------------
Store == INSTANCE RunStore WITH
    saving <- storing, step <- store_step, saved <- stored, Runs <- StoredRuns, Tick <- Second
ASSUME RunsAssumption == Store!RunsAssumption
ASSUME TimeAssumption == Store!TimeAssumption

Deletion == INSTANCE RunDeletion
ASSUME MaxRunAssumption == Deletion!MaxRunAssumption

Config == INSTANCE ServerConfig

-----------------------------------------------------------------------------
(* A share with a script at hand, and one that no walk reaches.            *)
DepthOf == [s \in {"reboot", "deep"} |-> IF s = "deep" THEN 9 ELSE 1]
AllAlike == {[s \in Scripts |-> CHOOSE body \in Bodies : TRUE]}
Composer == INSTANCE ScriptComposer WITH
    rows <- host_rows, selected <- script, changes <- share_changes
ASSUME ComposerAssumption == Composer!ComposerAssumption

(* Three runs of two hosts, or of one.                                     *)
Targets == (r1 :> <<pc1, pc2>>) @@ (r2 :> <<pc2>>) @@ (r3 :> <<pc1>>)
View == INSTANCE RunView WITH
    runs <- listed, rows <- target_rows, selected <- target, summary <- tally, Runs <- ViewedRuns
ASSUME ViewAssumption == View!ViewAssumption

-----------------------------------------------------------------------------
(* Bundles to load: rules in the baseline and in a template, with ids      *)
(* typed by hand: repeated, empty, or like generated ones.                 *)
NoId == <<"", 0>>
HandId == <<"typed", 0>>
RuleOf(id) == [id |-> id, target |-> "chrome", says |-> 1]
HandTyped ==
    {[baseline |-> first, templates |-> <<[name |-> "web", rules |-> second]>>,
      assignments |-> [h \in {h1} |-> <<"web">>]] :
        first \in {<<>>, <<RuleOf(NoId)>>} \cup {<<RuleOf(id), RuleOf(id)>> : id \in {NoId, HandId}},
        second \in {<<>>, <<RuleOf(<<"chrome", 1>>)>>, <<RuleOf(HandId)>>}}

(* Bundles that need a repair, or none.                                    *)
Unrepaired ==
    {[baseline |-> first, templates |-> <<>>, assignments |-> [h \in {} |-> <<>>]] :
        first \in {<<>>, <<RuleOf(NoId)>>}}

ByHand == HandTyped \cup Unrepaired
TypedIds == {HandId}
FoldedNames == [name \in {"web", "WEB", "Baseline"} |-> IF name = "WEB" THEN "web" ELSE name]

Editor == INSTANCE TemplateEditor WITH
    Hosts <- NamedHosts, Targets <- RuleTargets, Loadable <- Bundles, MaxRules <- BundleRules
ASSUME EditorAssumption == Editor!EditorAssumption

(* Bundles typed by hand are edited without being published, and one that  *)
(* may need a repair is published once: two rules, and a host that names   *)
(* no template.                                                            *)
NothingPublished ==
    /\ publications = 0
    /\ loaded => published \in HandTyped
    /\ \A p \in Editor!Positions(draft) : Editor!RuleAt(draft, p).says = 1
TwoRules ==
    /\ Editor!RuleCount(draft) <= 2 /\ Len(draft.templates) <= 1
    /\ \A h \in DOMAIN draft.assignments : h = h1 /\ draft.assignments[h] = <<>>
    /\ loaded /\ publications = 0 => published \in Unrepaired

-----------------------------------------------------------------------------
Doc(kind, payload, version, presence) ==
    [type |-> kind, description |-> "a", expectation |-> presence, version |-> version,
     unknown |-> FALSE, payload |-> payload]
Is(n) == [whole |-> n, exact |-> TRUE]

(* One rule of each kind as a text, several with what no field shows.      *)
Versioned == Doc("process", [executable |-> "a"], "v", "MustBePresent")
Stated == Doc("service", [service_name |-> "a", expected_state |-> "Running"], Unset, "MustBePresent")
Stateless == Doc("service", [service_name |-> "a"], Unset, "MustBeAbsent")
Link(s) == Doc("adapter_state", [adapter_name |-> "a", expected |-> s], Unset, "MustBePresent")
Adapters == Doc("adapter_count", [comparison |-> "AtMost", count |-> Is(100)], Unset, "MustBeAbsent")
Value == Doc("dds_value", [domain_id |-> Is(300), topic_name |-> "a", path |-> "a",
                           match |-> "Contains", expected_value |-> " a"], Unset, "MustBePresent")
Key == Doc("registry", [hive |-> "HKCU", key_path |-> "a", value_name |-> "",
                        match |-> "Equals", expected_value |-> "a"], Unset, "MustBeAbsent")

(* Texts that are no rule: a word that is misspelt, a kind of a later      *)
(* version, a field that is missing.                                       *)
Misspelt == Doc("process", [executable |-> "a"], Unset, "Sometimes")
BadLink == Doc("adapter_state", [adapter_name |-> "a", expected |-> "Up"], Unset, "MustBePresent")
Later == Doc("printer", [executable |-> "a"], Unset, "MustBePresent")
Lacking == Doc("dds_topic", [topic_name |-> "a"], Unset, "MustBePresent")

(* A value of another type, or none that a field holds: a fraction, less   *)
(* than nothing.  Keys that are misspelt.                                  *)
Worded == Doc("adapter_count", [comparison |-> "AtLeast", count |-> Mistyped], Unset, "MustBePresent")
Untold == [Doc("process", [executable |-> "a"], Mistyped, "MustBePresent") EXCEPT !.description = Mistyped]
Fraction == Doc("adapter_count", [comparison |-> "AtLeast", count |-> [whole |-> 1, exact |-> FALSE]],
                Unset, "MustBePresent")
Negative == Doc("adapter_count", [comparison |-> "AtLeast", count |-> Is(-1)], Unset, "MustBePresent")
Wrapped == Doc("dds_topic", [domain_id |-> Is(-1), topic_name |-> "a"], Unset, "MustBePresent")
Misnamed ==
    {[doc EXCEPT !.unknown = TRUE] :
        doc \in {Stateless, Lacking, Doc("process", [executable |-> "a"], Unset, "MustBePresent")}}

HandWritten ==
    {<<>>} \cup
    {<<r>> : r \in {Versioned, Stated, Stateless, Adapters, Value, Key, Misspelt, BadLink, Later, Lacking,
                     Worded, Untold, Fraction, Negative, Wrapped} \cup Misnamed}
    \cup {<<Link(s)>> : s \in {"Connected", "Connecting", "Disconnected", "MediaDisconnected",
                               "Disabled", "Faulted", "Unknown"}}
    \cup {<<Key, Versioned>>, <<Stated, BadLink>>, <<Lacking, Value>>, <<Link("Faulted"), Key>>}

(* Two texts that a box takes as they are, and one with a blank.           *)
WithoutBlanks == [t \in {"", "a", " a"} |-> IF t = " a" THEN "a" ELSE t]

(* Some numbers of adapters, below, within and above the range of the box. *)
SomeCounts == {-1, 0, 1, 64, 100}

Dialog == INSTANCE RuleDialog WITH
    draft <- rules, None <- Unset, Versions <- Constraints, HandWritten <- Documents,
    MaxRules <- DraftRules, MaxChanges <- FieldChanges
ASSUME DialogAssumption == Dialog!DialogAssumption

(* Bundles are edited with one change of a field, and a rule is added to   *)
(* an empty bundle with more of them, without the blank.                   *)
OneChange == changes <= 1
OneRule ==
    /\ rules # <<>> => dialog # "add"
    /\ form.description # " a"
    /\ \A k \in Dialog!Kinds : \A f \in Dialog!Fields(k) \ {"count", "domain_id"} :
          form.box[k][f] # " a"

-----------------------------------------------------------------------------
Parts == {"store", "deletion", "config", "composer", "run_view", "editor", "publisher", "dialog",
          "adding"}

Init ==
    /\ part \in Parts
    /\ IF part = "composer" THEN share \in FirstShares
                            ELSE fleet = {} /\ share = [s \in Scripts |-> Composer!Gone]
    /\ Store!Init /\ Deletion!Init /\ Config!Init /\ Composer!Init /\ View!Init /\ Editor!Init
    /\ Dialog!Init /\ (part # "dialog" => text = <<>>)

Next ==
    /\ UNCHANGED part
    /\ IF part = "store" THEN Store!Next ELSE UNCHANGED store
    /\ IF part = "deletion" THEN Deletion!Next ELSE UNCHANGED deletion
    /\ IF part = "config" THEN Config!Next ELSE UNCHANGED config
    /\ IF part = "composer" THEN Composer!Next ELSE UNCHANGED composer
    /\ IF part = "run_view" THEN View!Next ELSE UNCHANGED run_view
    /\ CASE part = "editor" -> Editor!Next /\ NothingPublished'
         [] part = "publisher" -> Editor!Next /\ TwoRules'
         [] OTHER -> UNCHANGED template_editor
    /\ CASE part = "dialog" -> Dialog!Next /\ OneChange'
         [] part = "adding" -> Dialog!Next /\ OneRule'
         [] OTHER -> UNCHANGED rule_dialog

Spec == Init /\ [][Next]_vars

-----------------------------------------------------------------------------
(* Of the store: a restart loads every run as it was last saved, a save    *)
(* that fails or is cut off leaves every file as it was, and a record      *)
(* keeps the day its run was issued.                                       *)
RecordsSurvive ==
    /\ [](part = "store" => Store!TypeOK /\ Store!DayIsKept)
    /\ Store!LoadsWhatWasSaved
    /\ Store!SavingDamagesNothing

(* Of deletion, whatever is handled inside a handler that waits for an     *)
(* error box: a run deleted alone stays deleted, the file of a finished    *)
(* run says what the server shows of it, a run that counts as saved has a  *)
(* file, and an answer is not replaced.                                    *)
DeletionsAndAnswersHold ==
    /\ [](part = "deletion" =>
            /\ Deletion!TypeOK
            /\ Deletion!SavedHaveFiles
            /\ Deletion!DeletedAloneIsGone
            /\ Deletion!RecordsKeepUp)
    /\ Deletion!AnswersKept

(* Of the configuration: an edit is kept over restarts or an error was     *)
(* shown, and the tabs show what the server acts on.                       *)
ConfigurationIsKept ==
    part = "config" => Config!TypeOK /\ Config!ShownIsMemory /\ Config!AnEditIsKeptOrAnswered

(* Of the composer: the script that is sent is the one that the operator   *)
(* has read, to the hosts that were ticked; Run is enabled when a click    *)
(* would send, and the line above the library says how the share was read. *)
RunsAsConfirmed ==
    /\ [](part = "composer" =>
            Composer!TypeOK /\ Composer!RunButtonIsTrue /\ Composer!MessageIsTrue)
    /\ Composer!RunsWhatWasRead
    /\ Composer!RunsWhereItWasTicked

(* Of the run view: the history lists the runs as they are, the view of    *)
(* one is of its targets as they are, and Delete removes the run shown.    *)
RunsAreShown ==
    /\ [](part = "run_view" => View!TypeOK /\ View!HistoryIsCurrent /\ View!ViewIsCurrent)
    /\ View!DeletesWhatIsShown

(* Of the template editor: the ids of a draft are unique, so that no rule  *)
(* is dropped from what a host is sent, no template has the name of the    *)
(* baseline, an edit of one row of the assignments leaves the others as    *)
(* they are, and Publish is offered for a draft that differs only.         *)
TemplatesAreKept ==
    /\ [](part \in {"editor", "publisher"} =>
            /\ Editor!TypeOK
            /\ Editor!IdsUnique
            /\ Editor!NothingDropped
            /\ Editor!OfferedMeansChanged)
    /\ Editor!BaselineIsAlone
    /\ Editor!RowsAreIndependent

(* Of the rule dialog: what is published reads back as it was meant and    *)
(* nothing is guessed from a text that is no rule; what is saved is what   *)
(* the summary described, no field of it empty, and an edit changes what   *)
(* the operator touched and keeps what the form shows.                     *)
RulesAreAsShown ==
    /\ [](part \in {"dialog", "adding"} =>
            Dialog!TypeOK /\ Dialog!TextReadsAsPublished /\ Dialog!NothingIsGuessed)
    /\ Dialog!SavedAsSummarised
    /\ Dialog!NothingBlankIsAccepted
    /\ Dialog!EditKeepsWhatItShows
=============================================================================
