----------------------------- MODULE Compliance -----------------------------
(***************************************************************************)
(* evaluate(): the rules of a host against what its probes read            *)
(* (compliance.cpp, version.cpp, rule.cpp, types.cpp).  An optional value  *)
(* is a sequence of none or one; a text that a rule compares is the        *)
(* sequence of its parts; a result carries the reason of an Error and none *)
(* of the wording.                                                         *)
(***************************************************************************)
EXTENDS Integers, JsonPath

CONSTANT Folded    \* std::tolower, on the names that have capitals

tolower(name) == IF name \in DOMAIN Folded THEN Folded[name] ELSE name
equals_ignore_case(a, b) == tolower(a) = tolower(b)

contains_text(text, part) ==
    \E i \in 0 .. Len(text) - Len(part) : SubSeq(text, i + 1, i + Len(part)) = part

-----------------------------------------------------------------------------
(***************************************************************************)
(* Versions and counts                                                     *)
(***************************************************************************)
component_at(v, i) == IF i <= Len(v) THEN v[i] ELSE 0

\* A slip: the shorter version decides how far they are compared.
CompareCommon(lhs, rhs) ==
    LET differ == {i \in 1 .. Min({Len(lhs), Len(rhs)}) : lhs[i] # rhs[i]}
    IN IF differ = {} THEN 0
       ELSE IF lhs[Min(differ)] < rhs[Min(differ)] THEN -1 ELSE 1

\* compare: the first component that differs, a missing one being zero.
compare(lhs, rhs) ==
    LET differ == {i \in 1 .. Max({Len(lhs), Len(rhs)}) :
                       component_at(lhs, i) # component_at(rhs, i)}
    IN IF differ = {} THEN 0
       ELSE IF component_at(lhs, Min(differ)) < component_at(rhs, Min(differ)) THEN -1 ELSE 1

satisfies(actual, constraint) ==
    LET result == compare(actual, constraint.value)
    IN CASE constraint.op = "Equal"        -> result = 0
         [] constraint.op = "NotEqual"     -> result # 0
         [] constraint.op = "Less"         -> result < 0
         [] constraint.op = "LessEqual"    -> result <= 0
         [] constraint.op = "Greater"      -> result > 0
         [] constraint.op = "GreaterEqual" -> result >= 0

count_satisfies(observed, comparison, expected) ==
    CASE comparison = "AtLeast" -> observed >= expected
      [] comparison = "Exactly" -> observed = expected
      [] comparison = "AtMost"  -> observed <= expected

\* A slip: an adapter is up unless it has no media.
UpUnlessUnplugged(link) == link # "NoMedia"

\* is_up: connecting is not up yet.
is_up(link) == link = "Connected"

-----------------------------------------------------------------------------
(***************************************************************************)
(* Rules                                                                   *)
(***************************************************************************)
kind_of(rule) ==
    CASE rule.payload.type = "ProcessRule"  -> "Process"
      [] rule.payload.type = "ServiceRule"  -> "Service"
      [] rule.payload.type = "RegistryRule" -> "Registry"
      [] rule.payload.type \in {"AdapterCountRule", "AdapterStateRule"} -> "Network"
      [] rule.payload.type \in {"DdsTopicRule", "DdsValueRule"} -> "Dds"

required_capability(kind) ==
    CASE kind = "Process"  -> "Processes"
      [] kind = "Service"  -> "Services"
      [] kind = "Registry" -> "Registry"
      [] kind = "Network"  -> "Network"
      [] kind = "Dds"      -> "Dds"

\* registry_key and dds_key: what the facts are looked up by.
registry_key(payload) == <<payload.hive, payload.key_path, payload.value_name>>
dds_key(payload)      == <<payload.domain_id, payload.topic_name>>

-----------------------------------------------------------------------------
(***************************************************************************)
(* Results                                                                 *)
(***************************************************************************)
Result(rule, status) == [rule_id |-> rule.id, status |-> status, why |-> ""]
Verdict(rule, ok)    == Result(rule, IF ok THEN "Pass" ELSE "Fail")
error(rule, why)     == [rule_id |-> rule.id, status |-> "Error", why |-> why]

MustBePresent(rule) == rule.expectation = "MustBePresent"

\* resolve: present and wanted, or neither.
resolve(rule, present) == Verdict(rule, present = MustBePresent(rule))

\* evaluate_process: the first instance of the name is the one that is judged.
evaluate_process(rule, payload, facts) ==
    LET found == SelectInSeq(facts.processes,
                     LAMBDA info : equals_ignore_case(info.executable, payload.executable))
        version == facts.processes[found].version
    IN IF found # 0 /\ rule.version # <<>> /\ MustBePresent(rule)
       THEN IF version = <<>> THEN error(rule, "version unreadable")
            ELSE Verdict(rule, satisfies(version, rule.version[1]))
       ELSE resolve(rule, found # 0)

evaluate_service(rule, payload, facts) ==
    LET found == SelectInSeq(facts.services,
                     LAMBDA info : equals_ignore_case(info.name, payload.service_name))
    IN IF found # 0 /\ payload.expected_state # <<>> /\ MustBePresent(rule)
       THEN Verdict(rule, facts.services[found].state = payload.expected_state[1])
       ELSE resolve(rule, found # 0)

evaluate_registry(rule, payload, facts) ==
    LET key   == registry_key(payload)
        value == facts.registry[key]
    IN CASE key \notin DOMAIN facts.registry -> error(rule, "not probed")
         [] key \in DOMAIN facts.registry ->
              IF value.error THEN error(rule, "read failed")
              ELSE resolve(rule, value.exists /\
                     CASE payload.match = "Exists"   -> TRUE
                       [] payload.match = "Equals"   -> value.data = payload.expected_value
                       [] payload.match = "Contains" -> contains_text(value.data, payload.expected_value))

\* Presence does not apply to a count.
evaluate_adapter_count(rule, payload, facts) ==
    LET up == Cardinality({a \in DOMAIN facts.adapters : is_up(facts.adapters[a].link)})
    IN Verdict(rule, count_satisfies(up, payload.comparison, payload.count))

evaluate_adapter_state(rule, payload, facts) ==
    LET found == SelectInSeq(facts.adapters,
                     LAMBDA a : equals_ignore_case(a.name, payload.adapter_name))
    IN resolve(rule, found # 0 /\ facts.adapters[found].link = payload.expected)

-----------------------------------------------------------------------------
(***************************************************************************)
(* DDS                                                                     *)
(***************************************************************************)
\* find_topic, and what stops both evaluators: no look, or one that failed.
find_topic(facts, payload) ==
    IF dds_key(payload) \in DOMAIN facts.dds THEN <<facts.dds[dds_key(payload)]>> ELSE <<>>
NoLook(found) == found = <<>> \/ found[1].error
LookError(rule, found) == error(rule, IF found = <<>> THEN "not probed" ELSE "look failed")

evaluate_dds_topic(rule, payload, facts) ==
    LET found == find_topic(facts, payload)
    IN IF NoLook(found) THEN LookError(rule, found)
       ELSE resolve(rule, found[1].topic_found)

\* std::stod: the number a text begins with, if it begins with one.
stod(text) ==
    LET digits == SubSeq(text, 1, Min({i \in DOMAIN text : text[i] \notin DOMAIN Digit}
                                      \cup {Len(text) + 1}) - 1)
    IN IF digits = <<>> THEN <<>>
       ELSE <<FoldLeft(LAMBDA n, c : n * 10 + Digit[c], 0, digits)>>

\* readable: numbers of one digit are all the text a comparison meets.
readable(value) ==
    IF value.kind = "string" THEN value.chars
    ELSE IF value.kind = "number" THEN <<ToString(value.value)>>
    ELSE <<value.kind>>

\* matches: {} when the value cannot be compared, or the set of the answer.
matches(value, payload) ==
    LET expected == stod(payload.expected_value)
        numeric  == value.kind = "number"
    IN IF payload.match \in {"AtLeast", "AtMost"} \/ (payload.match = "Equals" /\ numeric)
       THEN IF ~numeric \/ expected = <<>> THEN {}
            ELSE {CASE payload.match = "AtLeast" -> value.value >= expected[1]
                    [] payload.match = "AtMost"  -> value.value <= expected[1]
                    [] payload.match = "Equals"  -> value.value = expected[1]}
       ELSE IF payload.match = "Contains"
            THEN {contains_text(readable(value), payload.expected_value)}
            ELSE {readable(value) = payload.expected_value}

\* A slip: a value that cannot be compared turns the rule into an Error at once.
OddValueIsAnError(rule, values, payload) ==
    LET answers == [v \in DOMAIN values |-> matches(values[v], payload)]
    IN IF {} \in Range(answers) THEN error(rule, "not comparable")
       ELSE Verdict(rule, {TRUE} \in Range(answers))

\* The answer for several values: any match passes, and one value that can be
\* compared is enough for a Fail.
any_matches(rule, values, payload) ==
    LET answers == [v \in DOMAIN values |-> matches(values[v], payload)]
    IN IF Range(answers) = {{}} THEN error(rule, "not comparable")
       ELSE Verdict(rule, {TRUE} \in Range(answers))

evaluate_dds_value(rule, payload, facts) ==
    LET found   == find_topic(facts, payload)
        values  == resolve_all(found[1].json, payload.path)
    IN IF NoLook(found) THEN LookError(rule, found)
       ELSE IF ~found[1].topic_found THEN Verdict(rule, FALSE)
       ELSE IF ~found[1].has_sample THEN error(rule, "no sample yet")
       ELSE IF Failed(values) THEN error(rule, "not resolved")
       ELSE any_matches(rule, values.values, payload)

-----------------------------------------------------------------------------
\* The evaluator of a payload's type.
evaluate_payload(rule, facts) ==
    LET payload == rule.payload
    IN CASE payload.type = "ProcessRule"      -> evaluate_process(rule, payload, facts)
         [] payload.type = "ServiceRule"      -> evaluate_service(rule, payload, facts)
         [] payload.type = "RegistryRule"     -> evaluate_registry(rule, payload, facts)
         [] payload.type = "AdapterCountRule" -> evaluate_adapter_count(rule, payload, facts)
         [] payload.type = "AdapterStateRule" -> evaluate_adapter_state(rule, payload, facts)
         [] payload.type = "DdsTopicRule"     -> evaluate_dds_topic(rule, payload, facts)
         [] payload.type = "DdsValueRule"     -> evaluate_dds_value(rule, payload, facts)

\* evaluate: a result for each rule of the host, in their order.
evaluate(rules, facts, caps) ==
    [r \in DOMAIN rules |->
        IF required_capability(kind_of(rules[r])) \in caps
        THEN evaluate_payload(rules[r], facts)
        ELSE Result(rules[r], "NotApplicable")]

count_by_status(results, status) ==
    Cardinality({r \in DOMAIN results : results[r].status = status})

\* is_compliant: only a Fail counts against it.
is_compliant(results) == count_by_status(results, "Fail") = 0

\* A slip: a rule in error was not checked.
SummariseWithoutErrors(results) ==
    [passed |-> count_by_status(results, "Pass"), failing |-> count_by_status(results, "Fail"),
     errors |-> 0, not_applicable |-> count_by_status(results, "NotApplicable")]

\* summarise, checked() and total().
summarise(results) ==
    [passed |-> count_by_status(results, "Pass"), failing |-> count_by_status(results, "Fail"),
     errors |-> count_by_status(results, "Error"),
     not_applicable |-> count_by_status(results, "NotApplicable")]
checked(summary) == summary.passed + summary.failing + summary.errors
=============================================================================
