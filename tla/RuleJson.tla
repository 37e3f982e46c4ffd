------------------------------ MODULE RuleJson ------------------------------
(***************************************************************************)
(* Rules as the bundle's text holds them (libs/core/src/json.cpp): a field *)
(* that has no value is not written, an enumerator goes by a wire name of  *)
(* its own, and a text that names no rule is refused.  The text is what    *)
(* bundle.json keeps and what every client parses.                         *)
(*                                                                         *)
(* A payload has the fields of its kind.  Names, paths and values are      *)
(* Texts, and a version constraint is one of Versions.  A number of a text *)
(* is what it has before the point, and whether it is written as just that *)
(* (a fraction is not, nor is a boolean, which counts as 0 or 1).  Keys    *)
(* that no rule has are in a text or not; nothing else is said of them.    *)
(***************************************************************************)
EXTENDS Integers, Sequences

CONSTANTS
    Texts,      \* what a text field may hold
    Counts,     \* numbers of adapters
    Domains,    \* numbers of DDS domains
    Versions,   \* version constraints
    None,       \* an optional that is not set
    Half,       \* half the numbers of an int, or of a std::uint32_t
    Mistyped    \* in a text, a value of a type that get() refuses

Links == {"Unknown", "Connected", "NoMedia", "Disconnected", "Connecting", "Disabled", "Faulted"}
DdsMatches == {"Equals", "Contains", "AtLeast", "AtMost"}

Payloads(kind) ==
    CASE kind = "process" -> [executable : Texts]
      [] kind = "service" -> [service_name : Texts,
                              expected_state : {"Running", "Stopped", "Unknown", None}]
      [] kind = "registry" -> [hive : {"LocalMachine", "CurrentUser", "ClassesRoot", "Users"},
                               key_path : Texts, value_name : Texts,
                               match : {"Exists", "Equals", "Contains"}, expected_value : Texts]
      [] kind = "adapter_count" -> [comparison : {"AtLeast", "Exactly", "AtMost"}, count : Counts]
      [] kind = "adapter_state" -> [adapter_name : Texts, expected : Links]
      [] kind = "dds_topic" -> [domain_id : Domains, topic_name : Texts]
      [] kind = "dds_value" -> [domain_id : Domains, topic_name : Texts, path : Texts,
                                match : DdsMatches, expected_value : Texts]

Kinds == {"process", "service", "registry", "adapter_count", "adapter_state",
          "dds_topic", "dds_value"}

RulesOf(kind) ==
    [kind : {kind}, description : Texts, expectation : {"MustBePresent", "MustBeAbsent"},
     payload : Payloads(kind), version : Versions \cup {None}]

(* The fields that a text must have for its kind. *)
Required == [process |-> {"executable"}, service |-> {"service_name"},
             registry |-> {"hive", "key_path", "value_name", "match", "expected_value"},
             adapter_count |-> {"comparison", "count"},
             adapter_state |-> {"adapter_name", "expected"},
             dds_topic |-> {"domain_id", "topic_name"},
             dds_value |-> {"domain_id", "topic_name", "path", "match", "expected_value"}]

FieldsOf(kind) == Required[kind] \cup {f \in {"expected_state"} : kind = "service"}

(* A wire name spells the enumerator, save for the hives. *)
link_state_name == [s \in Links |-> s]

hive_name == [LocalMachine |-> "HKLM", CurrentUser |-> "HKCU",
              ClassesRoot |-> "HKCR", Users |-> "HKU"]

(* The wire names of a field's enumerators, as a function. *)
WireNames(kind, field) ==
    CASE field = "hive" -> hive_name
      [] field = "expected" -> link_state_name
      [] field = "expected_state" -> [s \in {"Running", "Stopped", "Unknown"} |-> s]
      [] field = "comparison" -> [c \in {"AtLeast", "Exactly", "AtMost"} |-> c]
      [] field = "match" /\ kind = "dds_value" -> [m \in DdsMatches |-> m]
      [] field = "match" /\ kind # "dds_value" -> [m \in {"Exists", "Equals", "Contains"} |-> m]

IsEnum(field) == field \in {"hive", "expected", "expected_state", "comparison", "match"}

IsNumber(field) == field \in {"count", "domain_id"}

Enumerators(kind) == UNION {DOMAIN WireNames(kind, f) : f \in {g \in FieldsOf(kind) : IsEnum(g)}}

-----------------------------------------------------------------------------
numeral(n) == [whole |-> n, exact |-> TRUE]

(* A number becomes an int, or a std::uint32_t, by a cast.                 *)
number_of(field, n) ==
    IF field = "domain_id" THEN n.whole % (2 * Half)
    ELSE ((n.whole + Half) % (2 * Half)) - Half

(* A slip: the version goes with the kind that has it. *)
WithoutVersion(rule) ==
    [type |-> rule.kind, description |-> rule.description, expectation |-> rule.expectation,
     version |-> None, unknown |-> FALSE, payload |-> rule.payload]

to_json(rule) ==
    [type |-> rule.kind, description |-> rule.description, expectation |-> rule.expectation,
     version |-> rule.version, unknown |-> FALSE,
     payload |-> [f \in {g \in DOMAIN rule.payload : rule.payload[g] # None} |->
                    IF IsEnum(f) THEN WireNames(rule.kind, f)[rule.payload[f]]
                    ELSE IF IsNumber(f) THEN numeral(rule.payload[f])
                    ELSE rule.payload[f]]]

Written(kind, field, text) ==
    \E e \in DOMAIN WireNames(kind, field) : WireNames(kind, field)[e] = text

(* What at() and get() ask for: each key is there, with a value of its     *)
(* type.  Nothing is asked of the keys that no rule has.                   *)
WellTyped(doc) ==
    /\ doc.type \in Kinds
    /\ Mistyped \notin {doc.description, doc.version}
    /\ doc.expectation \in {"MustBePresent", "MustBeAbsent"}
    /\ Required[doc.type] \subseteq DOMAIN doc.payload
    /\ \A f \in DOMAIN doc.payload : doc.payload[f] # Mistyped

(* A slip: a word that is unknown reads as some enumerator. *)
AnyWord(doc) == WellTyped(doc)

is_rule(doc) ==
    /\ WellTyped(doc)
    /\ \A f \in DOMAIN doc.payload : IsEnum(f) => Written(doc.type, f, doc.payload[f])

(* What from_json() makes of a text that is a rule. *)
from_json(doc) ==
    LET names(f) == WireNames(doc.type, f)
    IN  [kind |-> doc.type, description |-> doc.description, expectation |-> doc.expectation,
         version |-> doc.version,
         payload |-> [f \in FieldsOf(doc.type) |->
            IF f \notin DOMAIN doc.payload THEN None
            ELSE IF IsNumber(f) THEN number_of(f, doc.payload[f])
            ELSE IF ~IsEnum(f) THEN doc.payload[f]
            ELSE IF \E e \in DOMAIN names(f) : names(f)[e] = doc.payload[f]
                 THEN CHOOSE e \in DOMAIN names(f) : names(f)[e] = doc.payload[f]
                 ELSE CHOOSE e \in DOMAIN names(f) : TRUE]]

(* A bundle's rules are all read, or none. *)
parse_bundle(docs) ==
    IF \A i \in DOMAIN docs : is_rule(docs[i]) THEN [i \in DOMAIN docs |-> from_json(docs[i])]
    ELSE <<>>
=============================================================================
