----------------------------- MODULE RuleDialog -----------------------------
(***************************************************************************)
(* The form in which an operator adds and edits rules                      *)
(* (apps/server/add_rule_dialog.cpp), the rules of the draft it works on   *)
(* and the text they are saved as.  The form has the fields of every kind, *)
(* on pages of their own; a rule that is edited fills the fields of its    *)
(* kind, and what is saved is read from the fields again, so that whatever *)
(* no field shows is not in the rule any more.                             *)
(*                                                                         *)
(* A rule's place in the draft stands for its id, which an edit keeps.     *)
(***************************************************************************)
EXTENDS RuleJson

CONSTANTS
    Trimmed,     \* the texts without the blanks at their ends
    HandWritten, \* bundles that a person, or an earlier version, left in bundle.json
    MaxRules,    \* rules in a draft
    MaxChanges   \* changes of a field, bounded

Fields(kind) == Required[kind]

(* What each box offers: the words of the combos, 0 to 232 and 0 to 64.    *)
LinkChoice == [Connected |-> "Up", NoMedia |-> "No link", Disconnected |-> "Disconnected",
               Connecting |-> "Connecting", Disabled |-> "Disabled", Faulted |-> "Faulted"]
MatchChoice == [Equals |-> "equal to", Contains |-> "containing",
                AtLeast |-> "at least", AtMost |-> "at most"]
ComparisonChoice == [AtLeast |-> "at least", Exactly |-> "exactly", AtMost |-> "at most"]

Choices(kind, field) ==
    CASE field = "expected" -> LinkChoice
      [] field = "comparison" -> ComparisonChoice
      [] field = "match" /\ kind = "dds_value" -> MatchChoice
      [] OTHER -> WireNames(kind, field)

Offered(kind, field) ==
    IF IsEnum(field) THEN {Choices(kind, field)[c] : c \in DOMAIN Choices(kind, field)}
    ELSE IF field = "domain_id" THEN {n \in Domains : n <= 232}
    ELSE IF field = "count" THEN {n \in Counts : 0 <= n /\ n <= 64}
    ELSE Texts

NoText == ""

trimmed(text) == Trimmed[text]

(* The form as it is built. *)
first(kind, field) ==
    CASE field = "expected" -> "Up"
      [] field = "comparison" -> "at least"
      [] field = "match" /\ kind = "dds_value" -> "equal to"
      [] field = "match" /\ kind # "dds_value" -> "Exists"
      [] field = "hive" -> "HKLM"
      [] field = "count" -> 1
      [] field = "domain_id" -> 0
      [] OTHER -> NoText

EmptyForm ==
    [page |-> "process", description |-> NoText, absent |-> FALSE,
     box |-> [k \in Kinds |-> [f \in Fields(k) |-> first(k, f)]]]

(* What a field may hold, and the documents there can be: any word, key or *)
(* type of a value may be wrong, and a number may be any that a cast is    *)
(* defined for.                                                            *)
Values(field) ==
    IF field = "count" THEN Counts ELSE IF field = "domain_id" THEN Domains ELSE Texts

Numeral(f, n) ==
    /\ n = [whole |-> n.whole, exact |-> n.exact] /\ n.whole \in Int /\ n.exact \in BOOLEAN
    /\ f = "domain_id" /\ ~n.exact => n.whole \in 0 .. 2 * Half - 1
    /\ number_of(f, n) \in Values(f)

Document(doc) ==
    /\ doc = [type |-> doc.type, description |-> doc.description, version |-> doc.version,
              expectation |-> doc.expectation, unknown |-> doc.unknown, payload |-> doc.payload]
    /\ doc.description \in Texts \cup {Mistyped} /\ doc.version \in Versions \cup {None, Mistyped}
    /\ doc.unknown \in BOOLEAN
    /\ doc.payload = [f \in DOMAIN doc.payload |-> doc.payload[f]]
    /\ doc.type \in Kinds =>
          /\ DOMAIN doc.payload \subseteq FieldsOf(doc.type)
          /\ \A f \in DOMAIN doc.payload :
                ~IsEnum(f) /\ doc.payload[f] # Mistyped =>
                    IF IsNumber(f) THEN Numeral(f, doc.payload[f]) ELSE doc.payload[f] \in Texts

DialogAssumption ==
    /\ NoText \in Texts /\ Trimmed \in [Texts -> Texts]
    /\ Half \in Nat \ {0}
    /\ Counts \subseteq -Half .. Half - 1 /\ {0, 1, 64} \subseteq Counts
    /\ Domains \subseteq 0 .. 2 * Half - 1 /\ {0, 232} \subseteq Domains
    /\ None \notin Texts /\ None \notin Counts /\ None \notin Domains
    /\ \A k \in Kinds : None \notin Enumerators(k)
    /\ Mistyped \notin Texts \cup Versions \cup {None}
    /\ \A n \in Counts \cup Domains : Mistyped # numeral(n)
    /\ \A k \in Kinds : \A f \in FieldsOf(k) : IsEnum(f) => ~Written(k, f, Mistyped)
    /\ MaxRules \in Nat
    /\ \A docs \in HandWritten :
          /\ docs = [i \in 1 .. Len(docs) |-> docs[i]] /\ Len(docs) \in 0 .. MaxRules
          /\ \A i \in DOMAIN docs : Document(docs[i])

VARIABLES
    draft,     \* the rules of the selected template
    text,      \* bundle.json: the rules' documents
    saved,     \* history: the rules as they were published or read
    dialog,    \* "closed", "add" or "edit"
    row,       \* the rule that is edited, or 0
    form,      \* its widgets
    summary,   \* what the line at the bottom describes
    touched,   \* history: the fields the operator changed, by page
    changes    \* history: how many changes there were

vars == <<draft, text, saved, dialog, row, form, summary, touched, changes>>
bundle == <<draft, text, saved>>

-----------------------------------------------------------------------------
(* The fields that carry a direction of their own make the presence moot. *)
uses_expectation(kind) == kind \notin {"adapter_count", "dds_value"}

(* A slip: two words of the link combo are forgotten. *)
ShortInverse(kind, field, shown) ==
    IF ~IsEnum(field) THEN (IF IsNumber(field) THEN shown ELSE trimmed(shown))
    ELSE IF field = "expected" /\ shown \in {"Connecting", "Faulted"} THEN "Disconnected"
    ELSE CHOOSE c \in DOMAIN Choices(kind, field) : Choices(kind, field)[c] = shown

(* A slip: the word of a combo is taken for the enumerator. *)
WordItself(kind, field, shown) == IF IsNumber(field) THEN shown ELSE trimmed(shown)

read(kind, field, shown) ==
    IF ~IsEnum(field) THEN (IF IsNumber(field) THEN shown ELSE trimmed(shown))
    ELSE CHOOSE c \in DOMAIN Choices(kind, field) : Choices(kind, field)[c] = shown

(* rule(): no field has a version or a service's state. *)
rule(f) ==
    LET shown == [g \in Fields(f.page) |-> read(f.page, g, f.box[f.page][g])]
    IN [kind |-> f.page, description |-> trimmed(f.description),
        expectation |-> IF uses_expectation(f.page) /\ f.absent THEN "MustBeAbsent"
                                                               ELSE "MustBePresent",
        payload |-> IF f.page = "service"
                    THEN [service_name |-> shown.service_name, expected_state |-> None]
                    ELSE shown,
        version |-> None]

(* A slip: the expected value is asked for in no case. *)
WithoutExpected(f) ==
    LET filled(g) == trimmed(f.box[f.page][g]) # NoText
    IN CASE f.page = "process" -> filled("executable")
         [] f.page = "service" -> filled("service_name")
         [] f.page = "registry" -> filled("key_path")
         [] f.page = "adapter_count" -> TRUE
         [] f.page = "adapter_state" -> filled("adapter_name")
         [] f.page = "dds_topic" -> filled("topic_name")
         [] f.page = "dds_value" -> filled("topic_name") /\ filled("path")

is_complete(f) ==
    LET filled(g) == trimmed(f.box[f.page][g]) # NoText
    IN CASE f.page = "process" -> filled("executable")
         [] f.page = "service" -> filled("service_name")
         [] f.page = "registry" ->
               filled("key_path") /\ (f.box.registry.match = "Exists" \/ filled("expected_value"))
         [] f.page = "adapter_count" -> TRUE
         [] f.page = "adapter_state" -> filled("adapter_name")
         [] f.page = "dds_topic" -> filled("topic_name")
         [] f.page = "dds_value" ->
               filled("topic_name") /\ filled("path") /\ filled("expected_value")

(* describe(): the target and the expectation; the constraint, which the   *)
(* summary leaves out, is the expectation of two kinds.                    *)
target(r) == [f \in DOMAIN r.payload \ {"match", "expected_value", "expected_state", "expected",
                                        "comparison", "count"} |-> r.payload[f]]
expectation(r) ==
    IF uses_expectation(r.kind) THEN <<r.expectation>>
    ELSE [f \in DOMAIN r.payload \ DOMAIN target(r) |-> r.payload[f]]

Described(r) == <<target(r), expectation(r)>>
Nothing == <<>>

describe(f) == IF is_complete(f) THEN Described(rule(f)) ELSE Nothing

-----------------------------------------------------------------------------
Init ==
    \E docs \in HandWritten :
        /\ text = docs
        /\ draft = parse_bundle(docs) /\ saved = parse_bundle(docs)
        /\ dialog = "closed" /\ row = 0
        /\ form = EmptyForm /\ summary = describe(EmptyForm) /\ touched = {} /\ changes = 0

(* Whatever changes a field refreshes the summary. *)
Show(f) == form' = f /\ summary' = describe(f)

on_add_rule_clicked ==
    /\ dialog = "closed" /\ Len(draft) < MaxRules
    /\ dialog' = "add" /\ touched' = {}
    /\ Show(EmptyForm)
    /\ UNCHANGED <<bundle, row, changes>>

(* Slips: a combo is left at its first word; a box takes what is out of    *)
(* its range.                                                              *)
FirstWord(kind, field, value) == IF IsEnum(field) THEN first(kind, field) ELSE value
Unclamped(kind, field, value) ==
    IF IsEnum(field)
    THEN IF value \in DOMAIN Choices(kind, field) THEN Choices(kind, field)[value]
         ELSE "Disconnected"
    ELSE value

(* What set_rule() shows of a value: a box keeps to its range, a combo     *)
(* without the word shows "Disconnected".                                  *)
choice_for(kind, field, value) ==
    IF IsEnum(field)
    THEN IF value \in DOMAIN Choices(kind, field) THEN Choices(kind, field)[value]
         ELSE "Disconnected"
    ELSE IF field = "count" /\ value < 0 THEN 0
    ELSE IF field = "count" /\ value > 64 THEN 64
    ELSE IF field = "domain_id" /\ value > 232 THEN 232
    ELSE value

set_rule(r) ==
    [page |-> r.kind, description |-> r.description, absent |-> r.expectation = "MustBeAbsent",
     box |-> [EmptyForm.box EXCEPT ![r.kind] =
                [f \in Fields(r.kind) |-> choice_for(r.kind, f, r.payload[f])]]]

on_edit_rule_clicked(i) ==
    /\ dialog = "closed"
    /\ dialog' = "edit" /\ row' = i /\ touched' = {}
    /\ Show(set_rule(draft[i]))
    /\ UNCHANGED <<bundle, changes>>

Touch(page, field) ==
    /\ touched' = touched \cup {<<page, field>>}
    /\ changes < MaxChanges /\ changes' = changes + 1
    /\ UNCHANGED <<bundle, dialog, row>>

(* A slip: the change of a page leaves the summary as it is. *)
PageOnly(kind) ==
    /\ dialog = "add" /\ kind # form.page
    /\ form' = [form EXCEPT !.page = kind]
    /\ UNCHANGED <<bundle, dialog, row, touched, changes, summary>>

(* The kind is locked while a rule is edited. *)
on_kind_changed(kind) ==
    /\ dialog = "add" /\ kind # form.page
    /\ Show([form EXCEPT !.page = kind])
    /\ UNCHANGED <<bundle, dialog, row, touched, changes>>

type(field, shown) ==
    /\ dialog # "closed" /\ shown # form.box[form.page][field]
    /\ Show([form EXCEPT !.box[form.page][field] = shown])
    /\ Touch(form.page, field)

describe_as(shown) ==
    /\ dialog # "closed" /\ shown # form.description
    /\ Show([form EXCEPT !.description = shown])
    /\ Touch("all", "description")

choose_expectation ==
    /\ dialog # "closed" /\ uses_expectation(form.page)
    /\ Show([form EXCEPT !.absent = ~@])
    /\ Touch("all", "expectation")

(* The dialog goes, with its form. *)
Close ==
    /\ dialog' = "closed" /\ row' = 0 /\ touched' = {}
    /\ Show(EmptyForm)

(* Add or Save, which an incomplete form disables. *)
accept ==
    /\ dialog # "closed" /\ is_complete(form)
    /\ draft' = IF dialog = "edit" THEN [draft EXCEPT ![row] = rule(form)]
                                   ELSE Append(draft, rule(form))
    /\ Close
    /\ UNCHANGED <<text, saved, changes>>

reject ==
    /\ dialog # "closed"
    /\ Close
    /\ UNCHANGED <<bundle, changes>>

(* publish(), as far as the text goes. *)
publish ==
    /\ dialog = "closed" /\ draft # saved
    /\ text' = [i \in DOMAIN draft |-> to_json(draft[i])]
    /\ saved' = draft
    /\ UNCHANGED <<draft, dialog, row, form, summary, touched, changes>>

restart ==
    /\ draft' = parse_bundle(text) /\ saved' = parse_bundle(text)
    /\ Close
    /\ UNCHANGED <<text, changes>>

Next ==
    \/ on_add_rule_clicked
    \/ \E i \in DOMAIN draft : on_edit_rule_clicked(i)
    \/ \E kind \in Kinds : on_kind_changed(kind)
    \/ \E field \in Fields(form.page) : \E shown \in Offered(form.page, field) : type(field, shown)
    \/ \E shown \in Texts : describe_as(shown)
    \/ choose_expectation \/ accept \/ reject \/ publish \/ restart

Spec == Init /\ [][Next]_vars

-----------------------------------------------------------------------------
Draft(rules) ==
    /\ Len(rules) <= MaxRules
    /\ \A i \in DOMAIN rules :
          /\ rules[i].kind \in Kinds
          /\ rules[i].description \in Texts /\ rules[i].version \in Versions \cup {None}
          /\ rules[i].expectation \in {"MustBePresent", "MustBeAbsent"}
          /\ rules[i].payload \in Payloads(rules[i].kind)

(* Every variable has its type. *)
TypeOK ==
    /\ Draft(draft) /\ Draft(saved)
    /\ dialog \in {"closed", "add", "edit"} /\ row \in 0..MaxRules
    /\ form.page \in Kinds /\ form.absent \in BOOLEAN /\ form.description \in Texts
    /\ \A k \in Kinds : \A f \in Fields(k) : form.box[k][f] \in Offered(k, f)

(* bundle.json, and what a client is sent, read as the rules that were     *)
(* published: nothing of a rule is lost on the way, whatever its kind.     *)
TextReadsAsPublished == parse_bundle(text) = saved

(* A text is read for what it says in the keys that a rule has, or refused *)
(* with all of its bundle: a word that is misspelt, a key that is missing  *)
(* or a value of another type never becomes another rule.  Two things pass *)
(* unseen: a key that no rule has, so that an optional one that is         *)
(* misspelt is as if it were not there, and a number that the field cannot *)
(* hold, which is cast.                                                    *)
Fits(field, n) ==
    n.exact /\ n.whole \in (IF field = "domain_id" THEN 0 .. 2 * Half - 1 ELSE -Half .. Half - 1)

Says(doc, written) ==
    /\ \A key \in {"type", "description", "expectation", "version"} : written[key] = doc[key]
    /\ DOMAIN written.payload = DOMAIN doc.payload
    /\ \A f \in DOMAIN doc.payload :
          \/ written.payload[f] = doc.payload[f]
          \/ IsNumber(f) /\ ~Fits(f, doc.payload[f])

NothingIsGuessed ==
    saved # <<>> =>
        DOMAIN text = DOMAIN saved /\ \A i \in DOMAIN saved : Says(text[i], to_json(saved[i]))

(* A rule that is accepted is what the line at the bottom described.       *)
SavedAsSummarised ==
    [][accept => \E i \in DOMAIN draft' : Described(draft'[i]) = summary
                                         /\ i = (IF dialog = "edit" THEN row ELSE Len(draft'))]_vars

(* No rule that compares a value is accepted without the value, nor one    *)
(* without a name to look for: a blank would match everything or nothing.  *)
Blank(r) ==
    \E f \in Required[r.kind] \ {"value_name"} :
        /\ ~IsEnum(f) /\ ~IsNumber(f) /\ r.payload[f] = NoText
        /\ ~(r.kind = "registry" /\ f = "expected_value" /\ r.payload.match = "Exists")
NothingBlankIsAccepted ==
    [][accept => ~Blank(IF dialog = "edit" THEN draft'[row] ELSE draft'[Len(draft')])]_vars

(* An edit keeps every field that the operator did not touch and that the  *)
(* form can show, though all of them are read from the form again, and the *)
(* rules beside it.                                                        *)
CanShow(field, value) ==
    IF IsEnum(field) THEN value # "Unknown"
    ELSE IF field = "count" THEN 0 <= value /\ value <= 64
    ELSE IF field = "domain_id" THEN value <= 232
    ELSE value = trimmed(value)
EditKeepsWhatItShows ==
    [][accept /\ dialog = "edit" =>
        \A i \in DOMAIN draft :
            IF i # row THEN draft'[i] = draft[i]
            ELSE /\ draft'[i].kind = draft[i].kind
                 /\ \A f \in Fields(draft[i].kind) :
                      \/ <<draft[i].kind, f>> \in touched
                      \/ ~CanShow(f, draft[i].payload[f])
                      \/ draft'[i].payload[f] = draft[i].payload[f]]_vars

(* Broken by the code: set_rule() is said to fill every field              *)
(* (add_rule_dialog.hpp), and the form has none for a version or the state *)
(* of a service, which saving another description takes from the rule.     *)
EditKeepsTheRest ==
    [][accept /\ dialog = "edit" /\ touched = {<<"all", "description">>} =>
        draft'[row] = [draft[row] EXCEPT !.description = draft'[row].description]]_vars

(* Broken by the code: the summary is said to tell in words what the rule  *)
(* will check (add_rule_dialog.hpp); it is the same for two rules that     *)
(* compare a registry value with different ones, or want different links.  *)
SummaryTellsRulesApart ==
    dialog # "closed" /\ is_complete(form) =>
        LET r == rule(form)
        IN \A p \in Payloads(form.page) :
              Described([r EXCEPT !.payload = p]) = summary => p = r.payload
=============================================================================
