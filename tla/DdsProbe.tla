------------------------------ MODULE DdsProbe ------------------------------
(***************************************************************************)
(* One look at one topic of a DDS domain, by a client that was not built   *)
(* with its type (dds_probe.cpp).  The thread of the look creates a        *)
(* participant, waits for a writer to be discovered, asks for its type,    *)
(* opens a reader and polls it, each within a wait of its own; Fast DDS    *)
(* calls the two listeners from its threads meanwhile; and the writers of  *)
(* the topic come, write and go as they like.  Another look follows.       *)
(*                                                                         *)
(* Assumed of Fast DDS and the network: what happened on the bus reaches   *)
(* the participant within one tick of a wait.                              *)
(***************************************************************************)
EXTENDS Naturals

CONSTANTS
    Writers,        \* the writers the topic may have, each of one instance
    Offers,         \* what a writer may offer: [type, durable, complete, minimal]
    Types,          \* the types a topic of this name may have
    Values,         \* what a writer may write
    Unprojectable,  \* the values whose JSON cannot be dumped
    Wait,           \* each of the three waits of DdsProbeConfig, in ticks
    MaxChanges      \* bound: what happens on the bus

None == "none"
Disposed == "disposed"
Blank == "blank"      \* the data of a sample that has none

ProbeAssumption ==
    /\ Wait \in Nat \ {0} /\ MaxChanges \in Nat
    /\ Unprojectable \subseteq Values /\ None \notin Types \cup Values
    /\ Offers \subseteq [type : Types, durable : BOOLEAN, complete : BOOLEAN, minimal : BOOLEAN]

VARIABLES
    offer,        \* the bus: what each writer that is there offers, or NoOffer
    kept,         \* the bus: what each writer wrote last
    changes,      \* how often the bus has changed
    registry,     \* the type descriptions that Fast DDS has fetched, <<type, form>>
    participant,  \* the participant of the look is open
    reader,       \* the type the reader was opened with, or None
    listeners,    \* watcher_ and samples_ exist
    events,       \* what discovery has yet to tell: a writer and its offer
    watcher,      \* TopicWatcher: found_, type_name_, type_information_
    matching,     \* the writers the reader is matched with: samples_.matched()
    inbox,        \* by instance, what the reader holds that was not taken
    pc,           \* where run() is
    left,         \* ticks left of the wait that run() is in
    type_name,    \* what run() read of the watcher
    information,
    data,         \* what was taken
    sample,       \* the DdsTopicSample
    stayed,       \* history: the writers that were there all through the look
    owed,         \* history: those a reader should hear of, with a value all along
    met,          \* history: the writers that the reader was ever matched with
    had,          \* history: the descriptions there while there was time to look for one
    refused       \* history: a take failed, and not for want of a sample

bus    == <<offer, kept, changes, registry>>
dds    == <<participant, reader, listeners, events, watcher, matching, inbox>>
run    == <<pc, left, type_name, information, data, sample>>
hist   == <<stayed, owed, met, had, refused>>
vars   == <<bus, dds, run, hist>>

-----------------------------------------------------------------------------
Nothing == [topic_found |-> FALSE, has_sample |-> FALSE, json |-> None, error |-> None]
failed(message) == [Nothing EXCEPT !.error = message]
NoInformation == [type |-> None, complete |-> FALSE, minimal |-> FALSE]
NotFound == [found |-> FALSE, type_name |-> None, information |-> NoInformation]

NoOffer == [type |-> None, durable |-> FALSE, complete |-> FALSE, minimal |-> FALSE]
Here == {w \in Writers : offer[w] # NoOffer}

\* What DDS matches with a reader of TRANSIENT_LOCAL durability.
Compatible(w, type) == w \in Here /\ offer[w].type = type /\ offer[w].durable

Announced(w) == \A e \in events : e.writer # w
Matchable == {w \in Here \ matching : reader # None /\ Announced(w) /\ Compatible(w, reader)}

Init ==
    /\ offer \in [Writers -> Offers \cup {NoOffer}]
    /\ kept = [w \in Writers |-> None]
    /\ changes = 0 /\ registry = {}
    /\ participant = FALSE /\ reader = None /\ listeners = FALSE
    /\ events = {} /\ watcher = NotFound /\ matching = {}
    /\ inbox = [w \in Writers |-> None]
    /\ pc = "idle" /\ left = 0 /\ type_name = None /\ information = NoInformation
    /\ data = None /\ sample = Nothing
    /\ stayed = {} /\ owed = {} /\ met = {} /\ had = {} /\ refused = FALSE

(***************************************************************************)
(* The bus                                                                 *)
(***************************************************************************)
Changing == changes < MaxChanges /\ changes' = changes + 1
Idle == UNCHANGED <<registry, participant, reader, listeners, watcher, run>>

\* The participant is told of the end of a writer as of its beginning.
Tell(w, o) == events' = IF participant THEN events \cup {[writer |-> w, offer |-> o]} ELSE events

WriterJoins(w) ==
    /\ Changing /\ w \notin Here
    /\ \E o \in Offers : offer' = [offer EXCEPT ![w] = o] /\ Tell(w, o)
    /\ kept' = [kept EXCEPT ![w] = None]
    /\ UNCHANGED <<matching, inbox, hist>> /\ Idle

WriterLeaves(w) ==
    /\ Changing /\ w \in Here
    /\ offer' = [offer EXCEPT ![w] = NoOffer]
    /\ kept' = [kept EXCEPT ![w] = None]
    /\ matching' = matching \ {w}
    /\ Tell(w, offer[w])
    /\ stayed' = stayed \ {w} /\ owed' = owed \ {w}
    /\ UNCHANGED <<inbox, met, had, refused>> /\ Idle

\* A write or, with Disposed, a dispose, which a matched reader is sent.
Writes(w, value) ==
    /\ Changing /\ w \in Here
    /\ value = Disposed => kept[w] \in Values
    /\ kept' = [kept EXCEPT ![w] = value]
    /\ inbox' = IF w \in matching THEN [inbox EXCEPT ![w] = value] ELSE inbox
    /\ owed' = IF value = Disposed THEN owed \ {w} ELSE owed
    /\ UNCHANGED <<offer, matching, events, stayed, met, had, refused>> /\ Idle

(***************************************************************************)
(* The threads of Fast DDS                                                 *)
(***************************************************************************)
\* A slip: a writer without a type description is passed over.
ToldIfDescribed(o) ==
    IF o.complete \/ o.minimal
    THEN [found |-> TRUE, type_name |-> o.type,
          information |-> [type |-> o.type, complete |-> o.complete, minimal |-> o.minimal]]
    ELSE watcher

\* What the callback remembers of a writer.
Told(o) ==
    [found |-> TRUE, type_name |-> o.type,
     information |-> [type |-> o.type, complete |-> o.complete, minimal |-> o.minimal]]

\* TopicWatcher::on_data_writer_discovery: the writer told of last is remembered.
on_data_writer_discovery ==
    /\ participant
    /\ \E e \in events : watcher' = Told(e.offer) /\ events' = events \ {e}
    /\ UNCHANGED <<bus, participant, reader, listeners, matching, inbox, run, hist>>

\* The TypeLookup service has fetched the description of a writer that was found.
TypeFetched ==
    /\ participant
    /\ \E i \in {watcher.information, information} :
       \E form \in {f \in {"complete", "minimal"} : i[f]} :
          registry' = registry \cup {<<i.type, form>>}
    /\ registry' # registry
    /\ had' = IF pc = "lookup" /\ left > 0 THEN registry' ELSE had
    /\ UNCHANGED <<offer, kept, changes, dds, run, stayed, owed, met, refused>>

\* A slip: the reader asks for no history.
NoHistory(w) == None

\* What a matched writer sends at once: to TRANSIENT_LOCAL, what it kept.
History(w) == kept[w]

\* on_subscription_matched; a writer then sends what it kept.
on_subscription_matched(w) ==
    /\ w \in Matchable
    /\ matching' = matching \cup {w}
    /\ inbox' = [inbox EXCEPT ![w] = History(w)]
    /\ met' = met \cup {w}
    /\ UNCHANGED <<bus, participant, reader, listeners, events, watcher, run,
                   stayed, owed, had, refused>>

(***************************************************************************)
(* The look                                                                *)
(***************************************************************************)
\* A slip: only a complete description will do.
CompleteOnly == information.complete /\ <<information.type, "complete">> \in registry

\* fetch_type_object: what it looks for, the complete description first.
TypeObjectThere ==
    \E form \in {"complete", "minimal"} :
        information[form] /\ <<information.type, form>> \in registry

\* Time passes when the bus has nothing to deliver and run() nothing to do: it
\* waits to be told of a writer, or sleeps after a look that found nothing.
Tick ==
    /\ left > 0 /\ events = {} /\ Matchable = {}
    /\ \/ pc = "discovery" /\ ~watcher.found
       \/ pc = "lookup" /\ (information.complete \/ information.minimal) /\ ~TypeObjectThere
       \/ pc = "reading" /\ \A w \in Writers : inbox[w] = None
    /\ left' = left - 1
    /\ UNCHANGED <<bus, dds, pc, type_name, information, data, sample, hist>>

\* run() returns `result`: the destructor is next.
Return(result) ==
    /\ sample' = result /\ pc' = "teardown" /\ left' = 0
    /\ UNCHANGED <<bus, dds, type_name, information, data, hist>>

Go(next, wait) == pc' = next /\ left' = wait

\* look(): a Look, and create_participant.
look ==
    /\ pc = "idle"
    /\ listeners' = TRUE /\ participant' = TRUE
    /\ events' = {[writer |-> w, offer |-> offer[w]] : w \in Here}
    /\ watcher' = NotFound
    /\ Go("discovery", Wait)
    /\ sample' = Nothing /\ data' = None
    /\ stayed' = Here /\ owed' = {} /\ met' = {} /\ had' = {} /\ refused' = FALSE
    /\ UNCHANGED <<bus, reader, matching, inbox, type_name, information>>

no_participant ==
    /\ pc = "idle"
    /\ listeners' = TRUE /\ watcher' = NotFound
    /\ sample' = failed("could_not_join_DDS_domain")
    /\ Go("teardown", 0)
    /\ UNCHANGED <<bus, participant, reader, events, matching, inbox,
                   type_name, information, data, hist>>

\* A slip: a wait that ends with nothing starts anew.
WaitAgain ==
    /\ pc = "discovery" /\ left = 0 /\ ~watcher.found
    /\ Go("discovery", Wait)
    /\ UNCHANGED <<bus, dds, type_name, information, data, sample, hist>>

\* watcher.wait(discovery_wait) returns, with or without a writer.
discovery_ends ==
    /\ pc = "discovery" /\ watcher.found
    /\ sample' = [sample EXCEPT !.topic_found = TRUE]
    /\ type_name' = watcher.type_name
    /\ Go("information", 0)
    /\ UNCHANGED <<bus, dds, information, data, hist>>

discovery_times_out ==
    /\ pc = "discovery" /\ left = 0 /\ ~watcher.found
    /\ Return(sample)

\* watcher.type_information(), under the lock for a second time.
read_information ==
    /\ pc = "information"
    /\ information' = watcher.information
    /\ Go("lookup", Wait)
    /\ had' = registry
    /\ UNCHANGED <<bus, dds, type_name, data, sample, stayed, owed, met, refused>>

type_object_found ==
    /\ pc = "lookup" /\ left > 0 /\ TypeObjectThere
    /\ Go("opening", 0)
    /\ had' = {}
    /\ UNCHANGED <<bus, dds, type_name, information, data, sample, stayed, owed, met, refused>>

\* Nothing was advertised, or the wait is over, and what has come since the last
\* look is not looked for.
type_object_missing ==
    /\ pc = "lookup"
    /\ left = 0 \/ ~(information.complete \/ information.minimal)
    /\ Return([sample EXCEPT !.error = "no_type_description"])

\* The type, the topic, the subscriber and the reader are created in turn.
open_reader ==
    /\ pc = "opening"
    /\ reader' = information.type
    /\ owed' = {w \in Here : Compatible(w, reader') /\ kept[w] \in Values}
    /\ Go("reading", Wait)
    /\ UNCHANGED <<bus, participant, listeners, events, watcher, matching, inbox,
                   type_name, information, data, sample, stayed, met, had, refused>>

cannot_open ==
    /\ pc = "opening"
    /\ Return([sample EXCEPT !.error = "could_not_create"])

\* take_next_sample, of any instance; a sample of a disposal has no data.
take_next_sample(w) ==
    /\ pc = "reading" /\ inbox[w] # None
    /\ data' = inbox[w]
    /\ inbox' = [inbox EXCEPT ![w] = None]
    /\ Go("taken", 0)
    /\ UNCHANGED <<bus, participant, reader, listeners, events, watcher, matching,
                   type_name, information, sample, hist>>

\* A take that fails for another reason is taken for one that found nothing: run()
\* sleeps, and time passes as in a Tick.
take_fails ==
    /\ pc = "reading" /\ left > 0 /\ \E w \in Writers : inbox[w] # None
    /\ events = {} /\ Matchable = {}
    /\ left' = left - 1 /\ refused' = TRUE
    /\ UNCHANGED <<bus, dds, pc, type_name, information, data, sample, stayed, owed, met, had>>

\* A slip: a reader that sees nothing is a quiet topic.
QuietAlways ==
    /\ pc = "reading" /\ left = 0
    /\ Return(sample)

\* The deadline passes after a poll that found nothing.
reading_times_out ==
    /\ pc = "reading" /\ left = 0
    /\ Return(IF matching = {} THEN [sample EXCEPT !.error = "no_reader_could_be_matched"]
              ELSE sample)

\* A slip: valid_data is not looked at.
ProjectUnchecked ==
    /\ pc = "taken"
    /\ Return([sample EXCEPT !.json = IF data = Disposed THEN Blank ELSE data,
                             !.has_sample = TRUE])

\* to_json(data).dump(), of a sample with data.
project ==
    /\ pc = "taken"
    /\ Return(IF data = Disposed THEN sample
              ELSE IF data \in Unprojectable
              THEN [sample EXCEPT !.error = "could_not_be_projected"]
              ELSE [sample EXCEPT !.json = data, !.has_sample = TRUE])

\* An exception leaves run(): the Look is destroyed, look() answers for it.
look_throws ==
    /\ pc \in {"information", "opening", "taken"}
    /\ Return(failed("reading_the_DDS_bus_failed"))

\* A slip: the listeners are locals of run(), gone before the destructor starts.
ListenersFirst ==
    /\ pc = "teardown" /\ listeners
    /\ listeners' = FALSE
    /\ UNCHANGED <<bus, participant, reader, events, watcher, matching, inbox, run, hist>>

\* ~Look: delete_contained_entities, then delete_participant, then the members.
delete_contained_entities ==
    /\ pc = "teardown" /\ participant /\ reader # None
    /\ reader' = None /\ matching' = {} /\ inbox' = [w \in Writers |-> None]
    /\ UNCHANGED <<bus, participant, listeners, events, watcher, run, hist>>

delete_participant ==
    /\ pc = "teardown" /\ participant /\ reader = None
    /\ participant' = FALSE /\ events' = {}
    /\ UNCHANGED <<bus, reader, listeners, watcher, matching, inbox, run, hist>>

members_destroyed ==
    /\ pc = "teardown" /\ ~participant
    /\ listeners' = FALSE /\ watcher' = NotFound
    /\ pc' = "idle"
    /\ type_name' = None /\ information' = NoInformation /\ data' = None
    /\ stayed' = {} /\ owed' = {} /\ met' = {} /\ had' = {} /\ refused' = FALSE
    /\ UNCHANGED <<bus, participant, reader, events, matching, inbox, left, sample>>

Looking ==
    \/ look \/ no_participant
    \/ discovery_ends \/ discovery_times_out \/ read_information
    \/ type_object_found \/ type_object_missing \/ open_reader \/ cannot_open
    \/ \E w \in Writers : take_next_sample(w)
    \/ take_fails
    \/ reading_times_out \/ project \/ look_throws
    \/ delete_contained_entities \/ delete_participant \/ members_destroyed

Callbacks ==
    \/ on_data_writer_discovery
    \/ \E w \in Writers : on_subscription_matched(w)

Bus ==
    \/ \E w \in Writers : WriterJoins(w)
    \/ \E w \in Writers : WriterLeaves(w)
    \/ \E w \in Writers, value \in Values \cup {Disposed} : Writes(w, value)
    \/ TypeFetched

Next == Bus \/ Callbacks \/ Tick \/ Looking

\* The client's thread runs, its clock too, and Fast DDS delivers.
Fairness == WF_vars(Looking) /\ WF_vars(Callbacks) /\ WF_vars(Tick)

Spec == Init /\ [][Next]_vars
FairSpec == Spec /\ Fairness

(***************************************************************************)
(* Properties                                                              *)
(***************************************************************************)
\* The state is well formed; a sample that is reported has no error beside it.
TypeOK ==
    /\ offer \in [Writers -> Offers \cup {NoOffer}]
    /\ kept \in [Writers -> Values \cup {None, Disposed}]
    /\ inbox \in [Writers -> Values \cup {None, Disposed}]
    /\ changes \in 0 .. MaxChanges /\ left \in 0 .. Wait
    /\ registry \subseteq Types \X {"complete", "minimal"}
    /\ events \subseteq [writer : Writers, offer : Offers] /\ matching \subseteq Writers
    /\ sample.has_sample => sample.topic_found /\ sample.error = None /\ sample.json \in Values

\* Fast DDS never calls into a listener of a look that is over: the listeners are
\* there as long as an entity they are attached to, and a look leaves no
\* participant behind, of which one every 30 s would exhaust the host (~Look).
TornDownInOrder ==
    /\ participant \/ reader # None => listeners
    /\ pc = "idle" => ~participant /\ ~listeners

\* What is decided in this step.
Decided == pc # "teardown" /\ pc' = "teardown"

\* "Absent" is said only when nobody was there for the whole of the discovery
\* wait: not of a topic whose writer describes no type, not for a writer that was
\* told of too early or too late (TopicWatcher and discovery_wait).
AbsentMeansNobody ==
    [][Decided /\ ~sample'.topic_found /\ sample'.error = None => stayed = {}]_vars

\* A topic is "quiet" only if no writer that the reader can hear has had a value
\* for it since it was opened, or the reader was given a disposal, or a take failed.
QuietMeansQuiet ==
    [][Decided /\ sample'.topic_found /\ ~sample'.has_sample /\ sample'.error = None
        => owed = {} \/ data = Disposed \/ refused]_vars

\* An error blames the writers for what they do: no reader could be matched only
\* if no writer is there that it matches, and a description is missing only if
\* none of the writer that was asked for came while there was time to look.
ErrorsAreTrue ==
    [][Decided =>
        /\ sample'.error = "no_reader_could_be_matched" => owed = {}
        /\ sample'.error = "no_type_description" =>
              \A form \in {"complete", "minimal"} :
                 ~(information[form] /\ <<information.type, form>> \in had)]_vars

\* A look ends, whatever the bus does (its three waits).
LooksEnd == []<>(pc = "idle")

\* What dds_probe.cpp:114 says: that no reader could be matched is a mismatch of
\* QoS or of type, so that no writer was ever matched.
UnmatchedIsAMismatch ==
    [][Decided /\ sample'.error = "no_reader_could_be_matched" => met = {}]_vars

\* What dds_probe.cpp:385 says: a reader does not insist on a durability that the
\* writer does not provide.
WritersOfAnyDurabilityAreRead ==
    [][Decided /\ sample'.error = "no_reader_could_be_matched"
        => ~(\E w \in stayed : offer[w].type = information.type)]_vars

\* What dds_probe.cpp:429 says of a reader that is matched: nothing has been
\* published.
QuietIsUnpublished ==
    [][Decided /\ sample'.topic_found /\ ~sample'.has_sample /\ sample'.error = None
        => owed = {} \/ data = Disposed]_vars

\* What the error of dds_probe.cpp:349 says: the publisher does not advertise a
\* type description.
UnreadableIsUnadvertised ==
    [][Decided /\ sample'.error = "no_type_description"
        => ~(information.complete \/ information.minimal)]_vars

\* What dds_probe.cpp:435 says of a disposal: there is no value to compare with.
DisposalMeansNoValue ==
    [][Decided /\ data = Disposed /\ ~sample'.has_sample /\ sample'.error = None
        => owed = {}]_vars
=============================================================================
