------------------------------ MODULE MCClient ------------------------------
(***************************************************************************)
(* What a client reads, judges, sends and runs, for TLC: the network       *)
(* adapters, the look at a topic, a tick's probes and rules, the codec of  *)
(* the messages and the script runner.  They share no state: one part      *)
(* moves and the others rest in an initial state.                          *)
(***************************************************************************)
EXTENDS Integers, Sequences, FiniteSets

CONSTANTS
    Entries, Room, NetworkChanges,                              \* NetworkProbe
    Writers, Offers, Types, Values, Unprojectable, Wait, BusChanges,   \* DdsProbe
    Hosts, RuleSets, Supplied, Declared, Possible, MachineChanges,     \* HostProbes
    Folded, IndexBits,                                          \* Compliance, JsonPath
    Topics, Messages, Base,                                     \* Codec
    Jobs, PipeSize, StreamCap, Attempts, MaxWrites,             \* ScriptRunner
    t1, t2

VARIABLES
    part,                                                       \* the part that moves
    book, card, changes, seen, card_stayed, at, unread, room, connected, listed,
    adapters,                                                   \* NetworkProbe
    offer, kept, bus_changes, registry, participant, reader, listeners, events, watcher,
    matching, inbox, pc, left, type_name, information, data, sample, stayed, owed, met,
    had, refused,                                               \* DdsProbe
    host, machine, rules, probes, phase, waiting, snapshot, sized, facts, report, machines,
    unreadable,                                                 \* HostProbes
    topic, sent, wire, damage, out, taken,                      \* Codec
    step, file, own_ends, tree_kill, shell, descendant, writes, said, exited, pipe, drain,
    cancels, text, outcome                                      \* ScriptRunner

network == <<book, card, changes, seen, card_stayed, at, unread, room, connected, listed, adapters>>
look == <<offer, kept, bus_changes, registry, participant, reader, listeners, events, watcher,
          matching, inbox, pc, left, type_name, information, data, sample, stayed, owed, met,
          had, refused>>
tick == <<host, machine, rules, probes, phase, waiting, snapshot, sized, facts, report, machines,
          unreadable>>
codec == <<topic, sent, wire, damage, out, taken>>
runner == <<step, file, own_ends, tree_kill, shell, descendant, writes, said, exited, pipe, drain,
            cancels, text, outcome>>
vars == <<part, network, look, tick, codec, runner>>

-----------------------------------------------------------------------------
(* Adapters of phonebook entries that come and go, none of which has a     *)
(* name that the card's description mentions.                              *)
Network == INSTANCE NetworkProbe WITH Mentioned <- {}, MaxChanges <- NetworkChanges
ASSUME BoundsAssumption == Network!BoundsAssumption
ASSUME CardAssumption == Network!CardAssumption
ASSUME EntriesAssumption == IsFiniteSet(Entries)

(* One type offered in several ways, and another to be mistaken for it.    *)
Offer(type, durable, complete, minimal) ==
    [type |-> type, durable |-> durable, complete |-> complete, minimal |-> minimal]
OffersOfTwo ==
    {Offer(t1, TRUE, TRUE, TRUE), Offer(t1, FALSE, TRUE, TRUE), Offer(t1, TRUE, FALSE, FALSE),
     Offer(t2, TRUE, TRUE, FALSE)}
Look == INSTANCE DdsProbe WITH changes <- bus_changes, MaxChanges <- BusChanges
ASSUME ProbeAssumption == Look!ProbeAssumption

-----------------------------------------------------------------------------
Rule(id, payload, expectation, version) ==
    [id |-> id, payload |-> payload, expectation |-> expectation, version |-> version]
Version(op, value) == <<[op |-> op, value |-> value]>>
Process(exe) == [type |-> "ProcessRule", executable |-> exe]
Value(match, words) ==
    [type |-> "RegistryRule", hive |-> "HKLM", key_path |-> "Acme", value_name |-> "Mode",
     match |-> match, expected_value |-> words]
FoldedNames == [n \in {"AV.EXE", "Wifi"} |-> IF n = "AV.EXE" THEN "av.exe" ELSE "wifi"]

Present == "MustBePresent"
NotPresent == "MustBeAbsent"
AllProbes == {"Resources", "Processes", "Services", "Registry", "Network", "Dds"}
SomeProbes == {AllProbes, AllProbes \ {"Processes"}, AllProbes \ {"Registry", "Dds"}}
AllDeclared == AllProbes \cup {"Scripts"}

Absent == [exists |-> FALSE, error |-> FALSE, data |-> <<>>]
Denied == [exists |-> FALSE, error |-> TRUE, data |-> <<>>]
Text(s) == [exists |-> TRUE, error |-> FALSE, data |-> s]
NoValues == [k \in {} |-> Absent]
NotFound == [topic_found |-> FALSE, has_sample |-> FALSE, error |-> FALSE]
NoTopics == [k \in {} |-> NotFound]

(* A tick of a client that checks processes.                               *)
ProcessRules ==
    {<<Rule("running", Process("av.exe"), Present, <<>>)>>,
     <<Rule("new", Process("AV.EXE"), Present, Version("GreaterEqual", <<1, 2>>)),
       Rule("gone", Process("av.exe"), NotPresent, Version("Less", <<9>>))>>,
     <<Rule("newer", Process("av.exe"), Present, Version("Greater", <<1, 2, 0>>)),
       Rule("old", Process("av.exe"), Present, Version("LessEqual", <<1>>))>>}
Running(pid, version) == [pid |-> pid, executable |-> "av.exe", version |-> version]
ProcessMachines ==
    LET one(pid, versions) == {<<>>} \cup {<<Running(pid, x)>> : x \in versions}
        old == one(1, {<<>>, <<1, 2>>, <<1, 2, 1>>})
        new == one(2, {<<1, 2, 1>>})
    IN [processes : {x \o y : x \in old, y \in new}, services : {<<>>},
        values : {NoValues}, adapters : {<<>>}, topics : {NoTopics}]

(* Of one that checks registry values.                                     *)
Other == [Value("Equals", <<"on">>) EXCEPT !.value_name = "Other"]
ValueRules ==
    {<<Rule("is", Value("Equals", <<"on">>), Present, <<>>),
       Rule("other", Other, NotPresent, <<>>)>>,
     <<Rule("has", Value("Contains", <<"on">>), NotPresent, <<>>),
       Rule("there", Value("Exists", <<>>), Present, <<>>)>>}
ValueMachines ==
    [processes : {<<>>}, services : {<<>>}, adapters : {<<>>}, topics : {NoTopics},
     values : [{<<"HKLM", "Acme", "Mode">>, <<"HKLM", "Acme", "Other">>} ->
        {Absent, Denied, Text(<<"on">>), Text(<<"off">>), Text(<<"off", "on">>)}]]

(* And of one that checks services, adapters and topics.                   *)
Count(comparison, n) == [type |-> "AdapterCountRule", comparison |-> comparison, count |-> n]
Adapter(name, link) == [type |-> "AdapterStateRule", adapter_name |-> name, expected |-> link]
Service(state) == [type |-> "ServiceRule", service_name |-> "spooler", expected_state |-> state]
Topic == [type |-> "DdsTopicRule", domain_id |-> 0, topic_name |-> "Cart"]
Field(steps, match, words) ==
    [type |-> "DdsValueRule", domain_id |-> 0, topic_name |-> "Cart", path |-> steps,
     match |-> match, expected_value |-> words]

Items == <<"items", "[", "*", "]", ".", "sku">>
BusRules ==
    {<<Rule("some", Count("AtLeast", 1), Present, <<>>), Rule("two", Count("Exactly", 2), Present, <<>>),
       Rule("few", Count("AtMost", 1), Present, <<>>)>>,
     <<Rule("wifi", Adapter("Wifi", "Connected"), Present, <<>>),
       Rule("down", Adapter("wifi", "NoMedia"), NotPresent, <<>>),
       Rule("spooler", Service(<<"Running">>), Present, <<>>),
       Rule("none", Service(<<>>), NotPresent, <<>>)>>,
     <<Rule("cart", Topic, Present, <<>>), Rule("no", Topic, NotPresent, <<>>),
       Rule("count", Field(<<"items", ".", "length">>, "AtLeast", <<"2">>), Present, <<>>),
       Rule("most", Field(Items, "AtMost", <<"1">>), Present, <<>>)>>,
     <<Rule("sku", Field(Items, "Equals", <<"1">>), Present, <<>>),
       Rule("word", Field(Items, "Equals", <<"tea">>), Present, <<>>),
       Rule("part", Field(Items, "Contains", <<"tea">>), Present, <<>>),
       Rule("bad", Field(<<"items", "[">>, "Equals", <<"1">>), Present, <<>>)>>}

Number(n) == [kind |-> "number", value |-> n]
Words(w) == [kind |-> "string", chars |-> w]
Object(fields) == [kind |-> "object", fields |-> fields]
Array(items) == [kind |-> "array", items |-> items]
Sku(x) == Object([f \in {<<"sku">>} |-> x])
Cart(items) ==
    [topic_found |-> TRUE, has_sample |-> TRUE, error |-> FALSE,
     json |-> Object([f \in {<<"items">>} |-> Array(items)])]
Looks ==
    {NotFound,
     [topic_found |-> TRUE, has_sample |-> FALSE, error |-> FALSE],
     [topic_found |-> TRUE, has_sample |-> FALSE, error |-> TRUE],
     Cart(<<>>), Cart(<<Sku(Number(1))>>), Cart(<<Sku(Number(2)), Sku(Words(<<"tea">>))>>),
     Cart(<<Sku(Words(<<"green", "tea">>)), Sku(Number(1))>>), Cart(<<Number(1)>>)}
BusMachines ==
    LET links == {"Connected", "Connecting", "NoMedia"}
        wifi(x) == [name |-> "wifi", link |-> x]
    IN [processes : {<<>>}, values : {NoValues},
        services : {<<>>} \cup {<<[name |-> "spooler", state |-> s]>> : s \in {"Running", "Stopped"}},
        adapters : {<<wifi(x)>> : x \in links}
            \cup {<<[name |-> "eth", link |-> "Connected"], wifi(x)>> : x \in links},
        topics : [{<<0, "Cart">>} -> Looks]]

Hosted(processes, values, bus) ==
    [h \in {"processes", "values", "bus"} |->
        CASE h = "processes" -> processes [] h = "values" -> values [] h = "bus" -> bus]
ThreeHosts == {"processes", "values", "bus"}
RulesByHost == Hosted(ProcessRules, ValueRules, BusRules)
MachinesByHost == Hosted(ProcessMachines, ValueMachines, BusMachines)
ChangesByHost == Hosted(2, 1, 1)

Tick == INSTANCE HostProbes WITH
    seen <- machines, unread <- waiting, failed <- unreadable, MaxChanges <- MachineChanges
ASSUME HostsAssumption == Tick!HostsAssumption
ASSUME IndexBitsAssumption == Tick!IndexBitsAssumption

-----------------------------------------------------------------------------
(* Messages: empty and longer lists and strings, every status and flag.    *)
A == <<1>>
B == <<2, 3>>
No == <<>>
SampleMessages ==
  [announce |-> {<<A, B, 2, TRUE>>, <<B, No, 0, FALSE>>},
   resource |-> {<<A, 1, 2, 3, <<>>, <<>>>>,
                 <<A, 1, 2, 3, <<<<B, 3, 1>>, <<No, 0, 0>>>>, <<<<A, No, B, 1, 0>>>>>>},
   bundle   |-> {<<1, A, B>>, <<0, No, No>>},
   report   |-> {<<A, 1, <<>>>>, <<B, 2, <<<<A, 0, No, B>>, <<No, 1, A, No>>>>>>},
   command  |-> {<<A, B, No, B, 2>>},
   result   |-> {<<A, B, s, No, 2, f, g, A, B, No, 3>> : s \in 0 .. 3, f, g \in BOOLEAN}]
AllTopics == DOMAIN SampleMessages
Coding == INSTANCE Codec
ASSUME CodecAssumption == Coding!CodecAssumption

Runner == INSTANCE ScriptRunner WITH at <- step, reader <- drain
ASSUME RunnerAssumption == Runner!RunnerAssumption

-----------------------------------------------------------------------------
Parts == {"network", "look", "tick", "codec", "runner"}

(* An initial state in which the parts other than the moving one rest.     *)
Resting ==
    /\ part # "network" => book = [e \in Entries |-> "down"] /\ card = FALSE
    /\ offer = [w \in Writers |-> Look!NoOffer]
    /\ part # "tick" =>
          /\ host = (CHOOSE h \in Hosts : TRUE) /\ machine = (CHOOSE m \in Possible[host] : TRUE)
          /\ rules = (CHOOSE r \in RuleSets[host] : TRUE) /\ probes = (CHOOSE p \in Supplied : TRUE)
    /\ part # "codec" =>
          /\ topic = (CHOOSE t \in Topics : TRUE) /\ out = (CHOOSE m \in Messages[topic] : TRUE)

Init ==
    /\ part \in Parts
    /\ Resting
    /\ Network!Init /\ Look!Init /\ Tick!Init /\ Coding!Init /\ Runner!Init

Next ==
    /\ UNCHANGED part
    /\ IF part = "network" THEN Network!Next ELSE UNCHANGED network
    /\ IF part = "look" THEN Look!Next ELSE UNCHANGED look
    /\ IF part = "tick" THEN Tick!Next ELSE UNCHANGED tick
    /\ IF part = "codec" THEN Coding!Next ELSE UNCHANGED codec
    /\ IF part = "runner" THEN Runner!Next ELSE UNCHANGED runner

Spec == Init /\ [][Next]_vars

-----------------------------------------------------------------------------
(* Of the adapters: each card and phonebook entry once, none that was      *)
(* there all along left out, typed as what it is, with a link that it had  *)
(* at some moment of the call.                                             *)
AdaptersAreTrue ==
    part = "network" =>
        /\ Network!TypeOK
        /\ Network!NothingTwice
        /\ Network!EntriesAreShown
        /\ Network!LinkWasTrueOnce
        /\ Network!TypesAreTheirs

(* Of a look at a topic: absent is said of a topic that nobody wrote       *)
(* during the wait, quiet of one that had no value to be heard, an error   *)
(* blames the writers for what they do, and no callback comes to a         *)
(* listener that is gone.                                                  *)
LooksAreTrue ==
    /\ [](part = "look" => Look!TypeOK /\ Look!TornDownInOrder)
    /\ Look!AbsentMeansNobody
    /\ Look!QuietMeansQuiet
    /\ Look!ErrorsAreTrue

(* Of a tick and its rules: a Pass or a Fail was true at some moment of    *)
(* the evaluation, an Error has a cause, and a client is judged by the     *)
(* rules it can check only.                                                *)
VerdictsAreTrue ==
    part = "tick" =>
        /\ Tick!TypeOK
        /\ Tick!ResultsAreTrue
        /\ Tick!ErrorsAreEarned
        /\ Tick!OnlyWhatItCanCheck

(* Of the codec: what arrives whole is read as it was sent, what is cut    *)
(* short is rejected and leaves the sample as it was, and the announce of  *)
(* an older client is read.                                                *)
MessagesArriveWhole ==
    /\ [](part = "codec" =>
            /\ Coding!TypeOK
            /\ Coding!RoundTrip
            /\ Coding!ShortIsRejected
            /\ Coding!OldAnnounceIsRead)
    /\ Coding!RejectedLeavesNothing

(* Of the script runner: the status is the one that the script earned, the *)
(* verdict the one that it wrote last, and nothing of a run is left.       *)
ScriptsAreReported ==
    part = "runner" =>
        Runner!TypeOK /\ Runner!StatusIsTrue /\ Runner!VerdictIsKept /\ Runner!NothingOutlives
=============================================================================
