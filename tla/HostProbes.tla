----------------------------- MODULE HostProbes -----------------------------
(***************************************************************************)
(* One evaluation of the monitor worker (monitor_worker.cpp,               *)
(* evaluate_compliance): HostProbes::collect reads what the rules of the   *)
(* host need, one probe after the other, while the machine goes on         *)
(* changing, and evaluate() judges what was read (host_probes.cpp,         *)
(* process_probe_windows.cpp, registry_probe_windows.cpp,                  *)
(* network_probe_windows.cpp; NetworkProbe has more of the last).          *)
(*                                                                         *)
(* Assumed of Windows: a process id of a snapshot is not given to another  *)
(* process before that process has been opened, and an adapter is known by *)
(* its name, which no other one has.                                       *)
(***************************************************************************)
EXTENDS Compliance

CONSTANTS
    Hosts,         \* the machines that a client may run on
    RuleSets,      \* by host, the rules that a bundle may have for it
    Supplied,      \* the sets of probes a client may be built with
    Declared,      \* the capabilities given to HostProbes
    Possible,      \* by host, what the machine can be like
    MaxChanges     \* bound, by host: the changes of the machine during one evaluation

VARIABLES
    host,      \* the machine that this client runs on
    machine,   \* the processes, services, values, adapters and topics as they are
    rules,     \* rules_for(bundle_, host)
    probes,    \* the probes that were supplied
    phase,     \* what collect() reads next
    unread,    \* names of adapters that are listed and not read yet
    snapshot,  \* the processes of the snapshot whose versions are not read yet
    sized,     \* the registry value between the two reads of it, and its size
    facts,     \* HostFacts, so far
    report,    \* the results
    seen,      \* history: the states of the machine since the evaluation began
    failed     \* history: the probes that could not read in this evaluation

vars == <<host, machine, rules, probes, phase, unread, snapshot, sized, facts, report, seen,
          failed>>

Absent == [exists |-> FALSE, error |-> FALSE, data |-> <<>>]
Denied == [exists |-> FALSE, error |-> TRUE, data |-> <<>>]
LookFailed == [topic_found |-> FALSE, has_sample |-> FALSE, error |-> TRUE]
NoFacts == [processes |-> <<>>, services |-> <<>>, adapters |-> <<>>,
            registry |-> [k \in {} |-> Absent], dds |-> [k \in {} |-> LookFailed]]

IsSeq(s) == s \in Seq(ToSet(s))

\* A rule as it is published: its fields have the values that they are drawn with.
IsRule(rule) ==
    LET p == rule.payload
    IN /\ rule.expectation \in {"MustBePresent", "MustBeAbsent"}
       /\ p.type \in {"ProcessRule", "ServiceRule", "RegistryRule", "AdapterCountRule",
                      "AdapterStateRule", "DdsTopicRule", "DdsValueRule"}
       /\ p.type = "ProcessRule" /\ rule.version # <<>> =>
             /\ rule.version[1].op \in {"Equal", "NotEqual", "Less", "LessEqual", "Greater",
                                       "GreaterEqual"}
             /\ rule.version[1].value \in Seq(Nat)
       /\ p.type = "ServiceRule" /\ p.expected_state # <<>> =>
             p.expected_state = <<p.expected_state[1]>>
       /\ p.type = "RegistryRule" =>
             p.match \in {"Exists", "Equals", "Contains"} /\ IsSeq(p.expected_value)
       /\ p.type = "AdapterCountRule" =>
             p.comparison \in {"AtLeast", "Exactly", "AtMost"} /\ p.count \in Int
       /\ p.type = "DdsValueRule" => p.match \in {"Equals", "Contains", "AtLeast", "AtMost"}

-----------------------------------------------------------------------------
\* A slip: a probe that is missing is advertised all the same.
AdvertiseDeclared(supplied) == Declared

\* intersect: scripts and elevation pass through, no probe serves them.
intersect(supplied) == Declared \cap (supplied \cup {"Scripts", "Elevated"})

caps == intersect(probes)

\* The rules of one kind, whose keys are looked up once each.
Wanted(kind) == {rule.payload : rule \in {r \in ToSet(rules) : kind_of(r) = kind}}
Needs(kind, capability) == capability \in caps /\ Wanted(kind) # {}

\* A slip: a template's values are read for its first rule only.
FirstValueOnly ==
    LET needed == SelectSeq(rules, LAMBDA r : kind_of(r) = "Registry")
    IN IF "Registry" \in caps /\ needed # <<>> THEN {registry_key(needed[1].payload)} ELSE {}

registry_rules == IF "Registry" \in caps THEN {registry_key(p) : p \in Wanted("Registry")} ELSE {}
dds_topics     == IF "Dds" \in caps THEN {dds_key(p) : p \in Wanted("Dds")} ELSE {}

\* A machine: sections of lists, and maps of values and topics by their keys.
IsMachine(m) ==
    /\ IsSeq(m.processes) /\ IsSeq(m.services) /\ IsSeq(m.adapters)
    /\ \A p \in ToSet(m.processes) : p.version \in Seq(Nat)
    /\ \A i, j \in DOMAIN m.adapters :
          tolower(m.adapters[i].name) = tolower(m.adapters[j].name) => i = j
    /\ \A key \in DOMAIN m.values :
          /\ m.values[key].exists \in BOOLEAN /\ m.values[key].error \in BOOLEAN
          /\ IsSeq(m.values[key].data)
    /\ \A key \in DOMAIN m.topics :
          /\ m.topics[key].topic_found \in BOOLEAN /\ m.topics[key].has_sample \in BOOLEAN
          /\ m.topics[key].error \in BOOLEAN

\* Every value and topic that a rule may name is there, if only to be absent.
HostsAssumption ==
    \A h \in Hosts :
        /\ MaxChanges[h] \in Nat
        /\ \A m \in Possible[h] : IsMachine(m)
        /\ \A set \in RuleSets[h] :
              /\ IsSeq(set)
              /\ \A rule \in ToSet(set), m \in Possible[h] :
                    /\ IsRule(rule)
                    /\ kind_of(rule) = "Registry" => registry_key(rule.payload) \in DOMAIN m.values
                    /\ kind_of(rule) = "Dds" => dds_key(rule.payload) \in DOMAIN m.topics

Init ==
    /\ host \in Hosts
    /\ machine \in Possible[host]
    /\ rules \in RuleSets[host]
    /\ probes \in Supplied
    /\ phase = "done"
    /\ unread = <<>> /\ snapshot = <<>> /\ sized = <<>>
    /\ facts = NoFacts
    /\ report = <<>>
    /\ seen = {machine} /\ failed = {}

\* Something changes on the machine, in one section of it.
Change ==
    /\ Cardinality(seen) <= MaxChanges[host]
    /\ \E m \in Possible[host] \ seen :
          /\ Cardinality({section \in DOMAIN m : m[section] # machine[section]}) = 1
          /\ machine' = m
    /\ \A p \in ToSet(snapshot), q \in ToSet(machine'.processes) :
          q.pid = p.pid => q = p
    /\ seen' = seen \cup {machine'}
    /\ UNCHANGED <<host, rules, probes, phase, unread, snapshot, sized, facts, report, failed>>

\* A timer or a new bundle starts an evaluation; sample_resources comes first, with
\* INetworkProbe::enumerate, which lists the adapters before it reads them.
collect ==
    /\ phase = "done"
    /\ rules' \in RuleSets[host]
    /\ facts' = NoFacts
    /\ IF "Network" \in caps
       THEN /\ phase' = "adapters"
            /\ unread' = [i \in DOMAIN machine.adapters |-> tolower(machine.adapters[i].name)]
       ELSE phase' = "processes" /\ UNCHANGED unread
    /\ report' = <<>>
    /\ seen' = {machine} /\ failed' = {}
    /\ UNCHANGED <<host, machine, probes, snapshot, sized>>

\* A slip: an adapter that is gone by now counts as it was when it was listed.
ReadAsListed ==
    /\ phase = "adapters" /\ unread # <<>>
    /\ facts' = [facts EXCEPT !.adapters = Append(@, [name |-> Head(unread), link |-> "Connected"])]
    /\ unread' = Tail(unread)
    /\ UNCHANGED <<host, machine, rules, probes, phase, snapshot, sized, report, seen, failed>>

\* The next adapter is read as it is now, if it is still there.
read_adapter ==
    /\ phase = "adapters" /\ unread # <<>>
    /\ \/ /\ \A i \in DOMAIN machine.adapters : tolower(machine.adapters[i].name) # Head(unread)
          /\ UNCHANGED facts
       \/ \E i \in DOMAIN machine.adapters :
             /\ tolower(machine.adapters[i].name) = Head(unread)
             /\ facts' = [facts EXCEPT !.adapters = Append(@, machine.adapters[i])]
    /\ unread' = Tail(unread)
    /\ UNCHANGED <<host, machine, rules, probes, phase, snapshot, sized, report, seen, failed>>

\* It cannot be read, and is passed over; or the list ends, before its first
\* adapter too.
adapter_fails ==
    /\ phase = "adapters" /\ unread # <<>>
    /\ unread' \in {Tail(unread), <<>>}
    /\ failed' = failed \cup {"Network"}
    /\ UNCHANGED <<host, machine, rules, probes, phase, snapshot, sized, facts, report, seen>>

adapters_done ==
    /\ phase = "adapters" /\ unread = <<>>
    /\ phase' = "processes"
    /\ UNCHANGED <<host, machine, rules, probes, unread, snapshot, sized, facts, report, seen,
                   failed>>

\* IProcessProbe::enumerate takes its snapshot.
take_snapshot ==
    /\ phase = "processes" /\ Needs("Process", "Processes")
    /\ snapshot' = machine.processes
    /\ phase' = "versions"
    /\ UNCHANGED <<host, machine, rules, probes, unread, sized, facts, report, seen, failed>>

\* The snapshot cannot be taken: the list is empty.
snapshot_fails ==
    /\ phase = "processes" /\ Needs("Process", "Processes")
    /\ phase' = "services"
    /\ failed' = failed \cup {"Process"}
    /\ UNCHANGED <<host, machine, rules, probes, unread, snapshot, sized, facts, report, seen>>

\* file_version of the next process, if it is still there to be opened.
read_version ==
    /\ phase = "versions" /\ snapshot # <<>>
    /\ LET info == Head(snapshot)
           open == info \in ToSet(machine.processes)
       IN facts' = [facts EXCEPT !.processes =
                      Append(@, [executable |-> info.executable,
                                 version |-> IF open THEN info.version ELSE <<>>])]
    /\ snapshot' = Tail(snapshot)
    /\ UNCHANGED <<host, machine, rules, probes, unread, phase, sized, report, seen, failed>>

\* IServiceProbe::enumerate, if it is needed.
enumerate_services ==
    /\ \/ phase = "processes" /\ ~Needs("Process", "Processes")
       \/ phase = "versions" /\ snapshot = <<>>
       \/ phase = "services"
    /\ facts' = IF Needs("Service", "Services")
                THEN [facts EXCEPT !.services = machine.services] ELSE facts
    /\ phase' = "registry"
    /\ UNCHANGED <<host, machine, rules, probes, unread, snapshot, sized, report, seen, failed>>

\* A map with one more key, or another value for it.
With(map, key, value) ==
    [k \in DOMAIN map \cup {key} |-> IF k = key THEN value ELSE map[k]]
Keep(key, value) == [facts EXCEPT !.registry = With(@, key, value)]

\* IRegistryProbe::read asks for the size of a value first.
read_size ==
    /\ phase = "registry" /\ sized = <<>>
    /\ \E key \in registry_rules \ DOMAIN facts.registry :
          IF machine.values[key].exists
          THEN sized' = <<key, Len(machine.values[key].data)>> /\ UNCHANGED facts
          ELSE facts' = Keep(key, machine.values[key]) /\ UNCHANGED sized
    /\ UNCHANGED <<host, machine, rules, probes, unread, phase, snapshot, report, seen, failed>>

\* A slip: a value that grew is cut to the size that was asked for.
ReadTruncated ==
    /\ sized # <<>>
    /\ LET value == machine.values[sized[1]]
       IN facts' = Keep(sized[1],
              [value EXCEPT !.data = SubSeq(@, 1, Min({Len(@), sized[2]}))])
    /\ sized' = <<>>
    /\ UNCHANGED <<host, machine, rules, probes, unread, phase, snapshot, report, seen, failed>>

\* Then for its data: it can be gone by now, or no longer fit.
read_data ==
    /\ sized # <<>>
    /\ LET value == machine.values[sized[1]]
       IN facts' = Keep(sized[1], IF Len(value.data) > sized[2] THEN Denied ELSE value)
    /\ sized' = <<>>
    /\ UNCHANGED <<host, machine, rules, probes, unread, phase, snapshot, report, seen, failed>>

registry_done ==
    /\ phase = "registry" /\ sized = <<>>
    /\ registry_rules \subseteq DOMAIN facts.registry
    /\ phase' = "dds"
    /\ UNCHANGED <<host, machine, rules, probes, unread, snapshot, sized, facts, report, seen,
                   failed>>

\* IDdsProbe::look at each topic, which can fail for want of a participant.
look ==
    /\ phase = "dds"
    /\ \E key \in dds_topics \ DOMAIN facts.dds :
          \E found \in {machine.topics[key], LookFailed} :
             /\ facts' = [facts EXCEPT !.dds = With(@, key, found)]
             /\ failed' = IF found = LookFailed THEN failed \cup {"Dds"} ELSE failed
    /\ UNCHANGED <<host, machine, rules, probes, unread, phase, snapshot, sized, report, seen>>

\* evaluate() on what was collected.
evaluate_compliance ==
    /\ phase = "dds" /\ dds_topics \subseteq DOMAIN facts.dds
    /\ report' = evaluate(rules, facts, caps)
    /\ phase' = "done"
    /\ UNCHANGED <<host, machine, rules, probes, unread, snapshot, sized, facts, seen, failed>>

Next ==
    \/ Change
    \/ collect \/ read_adapter \/ adapter_fails \/ adapters_done
    \/ take_snapshot \/ snapshot_fails \/ read_version \/ enumerate_services
    \/ read_size \/ read_data \/ registry_done \/ look \/ evaluate_compliance

Spec == Init /\ [][Next]_vars

-----------------------------------------------------------------------------
(***************************************************************************)
(* What is true of the machine: the statuses that a judge who sees all of  *)
(* it at once could give a rule, none when it cannot be judged.            *)
(***************************************************************************)
\* A version is before another if it is less where they differ first.
Before(v, w) ==
    \E i \in 1 .. Len(v) + Len(w) :
        /\ component_at(v, i) < component_at(w, i)
        /\ \A j \in 1 .. i - 1 : component_at(v, j) = component_at(w, j)
Same(v, w) == \A i \in 1 .. Len(v) + Len(w) : component_at(v, i) = component_at(w, i)
Meets(v, constraint) ==
    LET w == constraint.value
    IN CASE constraint.op = "Equal"        -> Same(v, w)
         [] constraint.op = "NotEqual"     -> ~Same(v, w)
         [] constraint.op = "Less"         -> Before(v, w)
         [] constraint.op = "LessEqual"    -> ~Before(w, v)
         [] constraint.op = "Greater"      -> Before(w, v)
         [] constraint.op = "GreaterEqual" -> ~Before(v, w)

Status(ok) == IF ok THEN "Pass" ELSE "Fail"
Named(list, name(_), wanted) == {x \in ToSet(list) : tolower(name(x)) = tolower(wanted)}

ProcessClaims(rule, m) ==
    LET there == Named(m.processes, LAMBDA p : p.executable, rule.payload.executable)
    IN IF rule.version = <<>> \/ there = {} \/ ~MustBePresent(rule)
       THEN {Status((there # {}) = MustBePresent(rule))}
       ELSE {Status(Meets(p.version, rule.version[1])) : p \in {q \in there : q.version # <<>>}}

ServiceClaims(rule, m) ==
    LET there == Named(m.services, LAMBDA s : s.name, rule.payload.service_name)
    IN IF there = {} \/ ~MustBePresent(rule) THEN {Status((there # {}) = MustBePresent(rule))}
       ELSE {Status(rule.payload.expected_state \in {<<>>, <<s.state>>}) : s \in there}

RegistryClaims(rule, m) ==
    LET value == m.values[registry_key(rule.payload)]
        fits  == /\ value.exists
                 /\ \/ rule.payload.match = "Exists"
                    \/ rule.payload.match = "Equals" /\ value.data = rule.payload.expected_value
                    \/ /\ rule.payload.match = "Contains"
                       /\ \E i \in 1 .. Len(value.data) + 1, j \in 0 .. Len(value.data) :
                             SubSeq(value.data, i, j) = rule.payload.expected_value
    IN IF value.error THEN {} ELSE {Status(fits <=> MustBePresent(rule))}

NetworkClaims(rule, m) ==
    LET up == Cardinality({a \in DOMAIN m.adapters : m.adapters[a].link = "Connected"})
        p  == rule.payload
    IN IF p.type = "AdapterCountRule"
       THEN {Status(up \in CASE p.comparison = "AtLeast" -> p.count .. Len(m.adapters)
                             [] p.comparison = "Exactly" -> {p.count}
                             [] p.comparison = "AtMost"  -> 0 .. p.count)}
       ELSE LET there == Named(m.adapters, LAMBDA n : n.name, p.adapter_name)
            IN IF there = {} THEN {Status(~MustBePresent(rule))}
               ELSE {Status((a.link = p.expected) <=> MustBePresent(rule)) : a \in there}

\* A value of a sample answers a rule when it is of the kind that can.
Answers(value, p) ==
    IF p.match \in {"AtLeast", "AtMost"} \/ (p.match = "Equals" /\ value.kind = "number")
    THEN value.kind = "number" /\ stod(p.expected_value) # <<>>
    ELSE TRUE
Agrees(value, p) ==
    /\ Answers(value, p)
    /\ CASE p.match = "AtLeast"  -> stod(p.expected_value)[1] <= value.value
         [] p.match = "AtMost"   -> value.value <= stod(p.expected_value)[1]
         [] p.match = "Equals"   -> IF value.kind = "number"
                                    THEN <<value.value>> = stod(p.expected_value)
                                    ELSE readable(value) = p.expected_value
         [] p.match = "Contains" -> contains_text(readable(value), p.expected_value)

DdsClaims(rule, m) ==
    LET topic  == m.topics[dds_key(rule.payload)]
        found  == resolve_all(topic.json, rule.payload.path)
        values == ToSet(found.values)
    IN IF topic.error THEN {}
       ELSE IF rule.payload.type = "DdsTopicRule"
       THEN {Status(topic.topic_found <=> MustBePresent(rule))}
       ELSE IF ~topic.topic_found THEN {"Fail"}
       ELSE IF ~topic.has_sample \/ Failed(found) THEN {}
       ELSE IF \E v \in values : Agrees(v, rule.payload) THEN {"Pass"}
       ELSE IF values = {} \/ \E v \in values : Answers(v, rule.payload) THEN {"Fail"} ELSE {}

Claims(rule, m) ==
    CASE kind_of(rule) = "Process"  -> ProcessClaims(rule, m)
      [] kind_of(rule) = "Service"  -> ServiceClaims(rule, m)
      [] kind_of(rule) = "Registry" -> RegistryClaims(rule, m)
      [] kind_of(rule) = "Network"  -> NetworkClaims(rule, m)
      [] kind_of(rule) = "Dds"      -> DdsClaims(rule, m)

Judged == {r \in DOMAIN report : report[r].status \in {"Pass", "Fail"}}

(***************************************************************************)
(* Properties                                                              *)
(***************************************************************************)
\* The state is well formed: a finished evaluation has one result for each rule,
\* in the order of the rules (the details of the report are paired with it by
\* position), and the summary counts each of them once.
TypeOK ==
    /\ host \in Hosts
    /\ machine \in Possible[host] /\ rules \in RuleSets[host] /\ probes \in Supplied
    /\ phase \in {"adapters", "processes", "versions", "services", "registry", "dds", "done"}
    /\ report # <<>> =>
         /\ [r \in DOMAIN report |-> report[r].rule_id] = [r \in DOMAIN rules |-> rules[r].id]
         /\ LET sum == summarise(report)
            IN checked(sum) + sum.not_applicable = Len(report)

\* A Pass or a Fail was true of the machine at some moment of the evaluation: it
\* is never the product of reads of different moments.  Not so if the snapshot of
\* the processes, or an adapter, could not be read, which looks like a machine
\* without it; and of the number of adapters that are up, which is counted over
\* several moments, only if none of them changed (collect and evaluate together).
Steady == \A m, n \in seen : m.adapters = n.adapters
ResultsAreTrue ==
    \A r \in Judged :
        \/ \E m \in seen : report[r].status \in Claims(rules[r], m)
        \/ kind_of(rules[r]) \in {"Process", "Network"} \cap failed
        \/ rules[r].payload.type = "AdapterCountRule" /\ ~Steady

\* A rule the client is able to check is read for: an Error has a cause, which is
\* that the machine could not be judged, changed while it was read, or could not
\* be read (never that collect() and evaluate() look facts up differently).
ErrorsAreEarned ==
    \A r \in DOMAIN report : report[r].status = "Error" =>
        /\ report[r].why # "not probed"
        /\ \/ kind_of(rules[r]) \in failed
           \/ Cardinality(seen) > 1
           \/ \E m \in seen : Claims(rules[r], m) = {}
           \/ \E m \in seen : \E p \in ToSet(m.processes) :
                 report[r].why = "version unreadable" /\ p.version = <<>>

\* A machine is reported as breaking a rule only if it can be checked for that
\* rule, and a client without the probe says that the rule does not apply.
OnlyWhatItCanCheck ==
    \A r \in DOMAIN report :
        report[r].status # "NotApplicable" <=>
            required_capability(kind_of(rules[r])) \in Declared \cap probes

\* What compliance.cpp:215 says an Error is for: a rule whose probe could not tell
\* is neither passed nor failed.
CouldNotTellIsAnError ==
    \A r \in Judged : kind_of(rules[r]) \notin failed

\* What compliance.cpp:181 counts, the adapters that are connected, there were so
\* many of at once.
CountsAreOfOneMoment ==
    \A r \in Judged : rules[r].payload.type = "AdapterCountRule" /\ failed = {} =>
        \E m \in seen : report[r].status \in Claims(rules[r], m)
=============================================================================
