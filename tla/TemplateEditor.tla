--------------------------- MODULE TemplateEditor ---------------------------
(***************************************************************************)
(* The Templates tab: the draft, the operations on it, the chips of the    *)
(* assignment table, the Publish button, and what starting the server      *)
(* makes of a bundle that was written by hand                              *)
(* (apps/server/fleet_window.cpp, libs/ui/src/token_edit.cpp,              *)
(* ServerController::load_config()).                                       *)
(*                                                                         *)
(* Each operation runs to its end on the GUI thread; the rebuilding of the *)
(* tables that it ends in shows the draft again, so the rows and chips are *)
(* those of the draft at every step.                                       *)
(***************************************************************************)
EXTENDS TemplateBundle

CONSTANTS
    Loadable,      \* the bundles that bundle.json can hold
    MaxRules,      \* bound on the rules of the draft
    MaxTemplates,  \* bound on its templates
    MaxTokens,     \* bound on the templates of a host
    MaxPublished   \* bound on the publications

VARIABLES
    loaded,        \* start() has run
    draft,         \* draft_
    published,     \* published_
    publications,  \* how often publish() has published
    button         \* the Publish button is enabled

vars == <<loaded, draft, published, publications, button>>

(* A rule's place: its template, where the baseline is number 0, and row.  *)
Baseline == 0

RulesIn(bundle, t) == IF t = Baseline THEN bundle.baseline ELSE bundle.templates[t].rules

Positions(bundle) ==
    UNION {{t} \X DOMAIN RulesIn(bundle, t) : t \in {Baseline} \cup DOMAIN bundle.templates}

RuleAt(bundle, p) == RulesIn(bundle, p[1])[p[2]]

(* Of two templates of one name the second has no rules: neither the tab   *)
(* nor rules_for() reaches it, so that only a hand could have added some.  *)
SecondIsEmpty(bundle) ==
    \A i, j \in DOMAIN bundle.templates :
        i < j /\ bundle.templates[i].name = bundle.templates[j].name
            => bundle.templates[j].rules = <<>>

EditorAssumption ==
    /\ IsFiniteSet(Hosts)
    /\ {MaxTemplates, MaxPublished} \subseteq Nat
    /\ \A bundle \in Loadable :
          IsBundle(bundle) /\ Len(bundle.templates) <= MaxTemplates /\ SecondIsEmpty(bundle)

TypeOK ==
    /\ loaded \in BOOLEAN
    /\ IsBundle(draft) /\ IsBundle(published)
    /\ Len(draft.templates) <= MaxTemplates
    /\ publications \in 0 .. MaxPublished
    /\ button \in BOOLEAN

(* The window is built before start() is called, on two empty bundles. *)
Init ==
    /\ loaded = FALSE
    /\ draft = NoTemplates
    /\ published = NoTemplates
    /\ publications = 0
    /\ button = FALSE

can_publish(d, p) == d # p

(* load_config(): the published bundle as it was, the draft repaired; the  *)
(* signal is published_changed(), which rebuilds the tab and leaves the    *)
(* button.                                                                 *)
load_config ==
    /\ ~loaded
    /\ loaded' = TRUE
    /\ \E bundle \in Loadable :
          /\ published' = bundle
          /\ draft' = deduplicate_rule_ids(bundle)
    /\ UNCHANGED <<publications, button>>

(* The draft is edited, and mark_draft_dirty(). *)
Edit(new) ==
    /\ loaded
    /\ draft' = new
    /\ button' = can_publish(new, published)
    /\ UNCHANGED <<loaded, published, publications>>

TemplateNames == {draft.templates[i].name : i \in DOMAIN draft.templates}

NewTemplate(name) == [name |-> name, rules |-> <<>>]

(***************************************************************************)
(* Templates.                                                              *)
(***************************************************************************)
(* A slip: the reserved name is not refused. *)
AddAnyTemplate(name) ==
    /\ Len(draft.templates) < MaxTemplates
    /\ Edit([draft EXCEPT !.templates = Append(@, NewTemplate(name))])

on_add_template_clicked(name) ==
    /\ ~is_baseline_name(name)
    /\ Len(draft.templates) < MaxTemplates
    /\ Edit([draft EXCEPT !.templates = Append(@, NewTemplate(name))])

(* The elements of a sequence that are in a set, in their order. *)
kept(list, set) ==
    LET upto[n \in 0 .. Len(list)] ==
            IF n = 0 THEN <<>>
            ELSE IF list[n] \in set THEN Append(upto[n - 1], list[n]) ELSE upto[n - 1]
    IN  upto[Len(list)]

on_remove_template_clicked(name) ==
    /\ name \in TemplateNames
    /\ Edit([draft EXCEPT !.templates = kept(@, {t \in Template : t.name # name})])

(***************************************************************************)
(* Rules.  A template is selected by its name: of two that share one, only *)
(* the first can be reached.                                               *)
(***************************************************************************)
selected_template ==
    {Baseline} \cup UNION {find_template(draft, name) : name \in TemplateNames}

RulesOf(t) == RulesIn(draft, t)

WithRules(t, rules) ==
    IF t = Baseline THEN [draft EXCEPT !.baseline = rules]
    ELSE [draft EXCEPT !.templates[t].rules = rules]

on_add_rule_clicked(t, target, says) ==
    /\ RuleCount(draft) < MaxRules
    /\ LET rule == [id |-> NoId, target |-> target, says |-> says]
       IN  Edit(WithRules(t, Append(RulesOf(t), [rule EXCEPT !.id = make_rule_id(draft, rule)])))

(* The id is kept, whatever the rule is about now. *)
on_edit_rule_clicked(t, row, target, says) ==
    Edit(WithRules(t, [RulesOf(t) EXCEPT ![row].target = target, ![row].says = says]))

on_remove_rule_clicked(t, row) ==
    Edit(WithRules(t, RemoveAt(RulesOf(t), row)))

(***************************************************************************)
(* Assignments: one row of chips for each host.                            *)
(***************************************************************************)
Assigned == DOMAIN draft.assignments

on_add_assignment_clicked(host) ==
    Edit([draft EXCEPT !.assignments =
             [h \in Assigned \cup {host} |-> IF h \in Assigned THEN @[h] ELSE <<>>]])

on_remove_assignment_clicked(host) ==
    /\ host \in Assigned
    /\ Edit([draft EXCEPT !.assignments = [h \in Assigned \ {host} |-> @[h]]])

(* A slip: the new key is written and the old one stays. *)
RenameCopies(host, after) ==
    /\ host \in Assigned
    /\ after # host
    /\ Edit([draft EXCEPT !.assignments =
                [h \in Assigned \cup {after} |-> IF h = after THEN @[host] ELSE @[h]]])

(* A rename moves the entry; onto a host that has a row it is refused.     *)
on_assignment_cell_changed(host, after) ==
    /\ host \in Assigned
    /\ after \notin Assigned
    /\ Edit([draft EXCEPT !.assignments =
                [h \in (Assigned \ {host}) \cup {after} |-> IF h = after THEN @[host] ELSE @[h]]])

(* TokenEdit: the hint that a name is new looks at words. *)
is_known(name) == \E known \in TemplateNames : word(known) = word(name)

holds(host, name) ==
    \E i \in DOMAIN draft.assignments[host] : word(draft.assignments[host][i]) = word(name)

(* A name without a template makes one. *)
create(templates, name) ==
    IF \E i \in DOMAIN templates : templates[i].name = name THEN templates
    ELSE Append(templates, NewTemplate(name))

created(templates, names) ==
    LET upto[n \in 0 .. Len(names)] == IF n = 0 THEN templates ELSE create(upto[n - 1], names[n])
    IN  upto[Len(names)]

(* The baseline is dropped. *)
on_assignment_tokens_changed(host, tokens) ==
    LET accepted == kept(tokens, {name \in Names : ~is_baseline_name(name)})
        templates == created(draft.templates, accepted)
    IN  /\ Len(templates) <= MaxTemplates
        /\ Edit([draft EXCEPT !.templates = templates, !.assignments[host] = accepted])

(* Text that is committed becomes a chip, unless the row has that word.    *)
add_token(host, name) ==
    /\ host \in Assigned
    /\ Len(draft.assignments[host]) < MaxTokens
    /\ ~holds(host, name)
    /\ on_assignment_tokens_changed(host, Append(draft.assignments[host], name))

remove_token(host, name) ==
    /\ host \in Assigned
    /\ name \in ToSet(draft.assignments[host])
    /\ on_assignment_tokens_changed(host, kept(draft.assignments[host], Names \ {name}))

(***************************************************************************)
(* Publishing.                                                             *)
(***************************************************************************)
(* A slip: the button is not told. *)
PublishQuietly ==
    /\ loaded
    /\ button
    /\ can_publish(draft, published)
    /\ publications < MaxPublished
    /\ published' = draft
    /\ publications' = publications + 1
    /\ UNCHANGED <<loaded, draft, button>>

publish ==
    /\ loaded
    /\ button
    /\ can_publish(draft, published)
    /\ publications < MaxPublished
    /\ published' = draft
    /\ publications' = publications + 1
    /\ button' = FALSE
    /\ UNCHANGED <<loaded, draft>>

TemplateStep ==
    \E name \in Names : on_add_template_clicked(name) \/ on_remove_template_clicked(name)

RuleStep ==
    \E t \in selected_template, target \in Targets, says \in Sayings :
        \/ on_add_rule_clicked(t, target, says)
        \/ \E row \in DOMAIN RulesOf(t) :
              \/ on_edit_rule_clicked(t, row, target, says)
              \/ on_remove_rule_clicked(t, row)

AssignmentStep ==
    \E host \in Hosts :
        \/ on_add_assignment_clicked(host)
        \/ on_remove_assignment_clicked(host)
        \/ \E after \in Hosts : on_assignment_cell_changed(host, after)
        \/ \E name \in Names : add_token(host, name) \/ remove_token(host, name)

Next ==
    \/ load_config
    \/ TemplateStep
    \/ RuleStep
    \/ AssignmentStep
    \/ publish

Spec == Init /\ [][Next]_vars

---------------------------------------------------------------------------
(* The order in which rules_for() and the repair walk the places.          *)
Before(p, q) == (p[1] < q[1]) \/ (p[1] = q[1] /\ p[2] < q[2])

(* No two rules of the draft share an id, and none is without: whatever    *)
(* bundle was loaded and whatever was edited since (template_bundle.hpp:   *)
(* ids are the join key between a rule and its results).                   *)
IdsUnique ==
    \A p, q \in Positions(draft) :
        /\ RuleAt(draft, p).id # NoId
        /\ p # q => RuleAt(draft, p).id # RuleAt(draft, q).id

(* A host is checked against every rule of the baseline and of the         *)
(* templates that its row names, each once: none is shadowed by an id or   *)
(* by a second template of one name.                                       *)
NothingDropped ==
    \A host \in Assigned :
        LET checked == rules_for(draft, host)
            named == {i \in DOMAIN draft.templates :
                         draft.templates[i].name \in ToSet(draft.assignments[host])}
        IN  \A p \in Positions(draft) :
               p[1] \in {Baseline} \cup named =>
                   Cardinality({i \in DOMAIN checked : checked[i] = RuleAt(draft, p)}) = 1

(* The window makes no template that an operator reads as the baseline,    *)
(* which it would shadow in the list (fleet_window.cpp:1041, :1209).  One  *)
(* that an older build left in a bundle stays until it is removed.         *)
BaselineIsAlone ==
    [][loaded => \A name \in TemplateNames' \ TemplateNames : ~is_baseline_name(name)]_vars

(* The Publish button is offered only for a draft that differs: what it    *)
(* publishes is an edit that was made.                                     *)
OfferedMeansChanged == button => can_publish(draft, published)

(* Assigning templates, renaming a row or removing one is about that row:  *)
(* the other hosts keep theirs, and no assignment is in two rows because   *)
(* it was moved.                                                           *)
RowsAreIndependent ==
    [][\A host \in Hosts :
          (\E after \in Hosts : on_assignment_cell_changed(host, after)) =>
              /\ Cardinality(DOMAIN draft'.assignments) = Cardinality(Assigned)
              /\ \A other \in Assigned \ {host} :
                    draft'.assignments[other] = draft.assignments[other]]_vars

(* The Publish button is enabled whenever the draft differs from what the  *)
(* fleet holds, a repaired bundle after a start included                   *)
(* (server_controller.cpp:763: the operator publishes the repair when they *)
(* choose to).                                                             *)
ChangedIsOffered == can_publish(draft, published) => button

(* The repair of a loaded bundle leaves each id with the first rule that   *)
(* held it (template_bundle.hpp: the first rule holding an id keeps it,    *)
(* since that is the one rules_for() is already handing to clients).       *)
FirstHolderKeepsId ==
    [][load_config =>
          \A p \in Positions(published') :
              (/\ RuleAt(published', p).id # NoId
               /\ \A q \in Positions(published') :
                     Before(q, p) => RuleAt(published', q).id # RuleAt(published', p).id)
              => RuleAt(draft', p).id = RuleAt(published', p).id]_vars

(* A template that appears because an assignment named it was shown as new *)
(* while it was typed (fleet_window.cpp:1217: the yellow text while typing *)
(* already said it was new).                                               *)
CreatedWasShownAsNew ==
    [][\A name \in Names :
          (\E host \in Hosts : add_token(host, name)) =>
              (Len(draft'.templates) > Len(draft.templates) => ~is_known(name))]_vars
=============================================================================
