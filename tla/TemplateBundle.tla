--------------------------- MODULE TemplateBundle ---------------------------
(***************************************************************************)
(* What a template bundle says: its baseline, its templates, which hosts   *)
(* they are assigned to, and the ids that tie a rule to the results        *)
(* reported for it (libs/core/src/template_bundle.cpp).                    *)
(*                                                                         *)
(* A rule is its id, the target it is named after, and the rest of what it *)
(* says.  An id that the program generates is a slug of the target and a   *)
(* number; one typed by hand can be anything, one of those or none.        *)
(***************************************************************************)
EXTENDS Naturals, Sequences, FiniteSets, SequencesExt

CONSTANTS
    Hosts,
    Names,         \* template names
    Word,          \* a name without regard to case, as a function
    BaselineWord,  \* the word that is reserved for the baseline
    Targets,       \* what rules are about
    Sayings,       \* what else a rule says
    HandIds        \* ids typed by hand that no rule generates

NoId == <<"", 0>>

Ids == {NoId} \cup HandIds \cup (Targets \X (Nat \ {0}))

Rule == [id : Ids, target : Targets, says : Sayings]

Template == [name : Names, rules : Seq(Rule)]

IsBundle(bundle) ==
    /\ bundle = [baseline |-> bundle.baseline, templates |-> bundle.templates,
                 assignments |-> bundle.assignments]
    /\ bundle.baseline \in Seq(Rule) /\ bundle.templates \in Seq(Template)
    /\ DOMAIN bundle.assignments \subseteq Hosts
    /\ bundle.assignments \in [DOMAIN bundle.assignments -> Seq(Names)]

(* "WEB" and "web" are one word to a reader. *)
word(name) == Word[name]

is_baseline_name(name) == word(name) = BaselineWord

NoTemplates == [baseline |-> <<>>, templates |-> <<>>, assignments |-> [h \in {} |-> <<>>]]

RuleLists(bundle) ==
    {bundle.baseline} \cup {bundle.templates[i].rules : i \in DOMAIN bundle.templates}

RuleCount(bundle) ==
    FoldLeft(LAMBDA n, template : n + Len(template.rules), Len(bundle.baseline), bundle.templates)

all_ids(bundle) ==
    UNION {{list[i].id : i \in DOMAIN list} : list \in RuleLists(bundle)}

(***************************************************************************)
(* The rules of a host: the baseline, then the templates of its            *)
(* assignment, in order, each id once.                                     *)
(***************************************************************************)
(* A slip: the last template of a name is taken. *)
LastNamed(bundle, name) ==
    {i \in DOMAIN bundle.templates :
        /\ bundle.templates[i].name = name
        /\ \A j \in DOMAIN bundle.templates : bundle.templates[j].name = name => j <= i}

find_template(bundle, name) ==
    {i \in DOMAIN bundle.templates :
        /\ bundle.templates[i].name = name
        /\ \A j \in 1 .. i - 1 : bundle.templates[j].name # name}

push_unseen(found, rule) ==
    IF \E i \in DOMAIN found : found[i].id = rule.id THEN found ELSE Append(found, rule)

append(found, list) ==
    LET upto[n \in 0 .. Len(list)] == IF n = 0 THEN found ELSE push_unseen(upto[n - 1], list[n])
    IN  upto[Len(list)]

(* What a name of an assignment stands for: nothing, if no template has it. *)
rules_named(bundle, name) ==
    IF find_template(bundle, name) = {} THEN <<>>
    ELSE bundle.templates[CHOOSE i \in find_template(bundle, name) : TRUE].rules

rules_for(bundle, host) ==
    LET names == IF host \in DOMAIN bundle.assignments THEN bundle.assignments[host] ELSE <<>>
        upto[n \in 0 .. Len(names)] ==
            IF n = 0 THEN append(<<>>, bundle.baseline)
            ELSE append(upto[n - 1], rules_named(bundle, names[n]))
    IN  upto[Len(names)]

(***************************************************************************)
(* Ids for new rules, and for the rules of a bundle written by hand.       *)
(***************************************************************************)
(* Some number up to one more than there are ids is free. *)
unique_id(taken, rule) ==
    LET free == {k \in 1 .. Cardinality(taken) + 1 : <<rule.target, k>> \notin taken}
    IN  <<rule.target, CHOOSE k \in free : \A other \in free : k <= other>>

(* A slip: only the ids of one list of rules are looked at. *)
IdFreeInBaseline(bundle, rule) ==
    unique_id({bundle.baseline[i].id : i \in DOMAIN bundle.baseline}, rule)

make_rule_id(bundle, rule) == unique_id(all_ids(bundle), rule)

(* The first holder of an id keeps it; a generated id is one that no rule  *)
(* before it has.                                                          *)
repair_rule(acc, rule) ==
    LET kept == rule.id # NoId /\ rule.id \notin acc.seen
        id == IF kept THEN rule.id ELSE unique_id(acc.seen, rule)
    IN  [seen |-> acc.seen \cup {id}, rules |-> Append(acc.rules, [rule EXCEPT !.id = id])]

repair(seen, list) ==
    LET upto[n \in 0 .. Len(list)] ==
            IF n = 0 THEN [seen |-> seen, rules |-> <<>>] ELSE repair_rule(upto[n - 1], list[n])
    IN  upto[Len(list)]

repair_template(acc, template) ==
    LET next == repair(acc.seen, template.rules)
    IN  [seen |-> next.seen,
         templates |-> Append(acc.templates, [template EXCEPT !.rules = next.rules])]

deduplicate_rule_ids(bundle) ==
    LET first == repair({}, bundle.baseline)
        upto[n \in 0 .. Len(bundle.templates)] ==
            IF n = 0 THEN [seen |-> first.seen, templates |-> <<>>]
            ELSE repair_template(upto[n - 1], bundle.templates[n])
    IN  [bundle EXCEPT !.baseline = first.rules,
                       !.templates = upto[Len(bundle.templates)].templates]
=============================================================================
