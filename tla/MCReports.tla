----------------------------- MODULE MCReports -----------------------------
(***************************************************************************)
(* What is typed and what the fleet table shows, for TLC: the paths of     *)
(* topic rules, the table, and the task that starts the client.  They walk *)
(* data, the last two with recursive operators.  They share no state: one  *)
(* part moves and the others rest in an initial state.                     *)
(***************************************************************************)
EXTENDS Integers, Sequences, FiniteSets, SequencesExt

VARIABLES
    part,                                                       \* the part that moves
    path, document,                                             \* JsonPathReading
    view, reports, samples, filter, ribbon, table,              \* FleetTable
    task, given, message                                        \* AutostartTask

reading == <<path, document>>
fleet_table == <<view, reports, samples, filter, ribbon, table>>
autostart == <<task, given, message>>
vars == <<part, reading, fleet_table, autostart>>

-----------------------------------------------------------------------------
Number(n) == [kind |-> "number", value |-> n]
Words(w) == [kind |-> "string", chars |-> w]
Object(fields) == [kind |-> "object", fields |-> fields]
Array(items) == [kind |-> "array", items |-> items]

(* Single keystrokes of a path, over a sample that has a field named length. *)
Keystrokes == {<<k>> : k \in {"a", "length", ".", "[", "]", "*", "1", "6"}}
Lettered(x) == [f \in {<<"a">>} |-> x]
Sixes == Words(<<"6", "6">>)
OneCart ==
    Object([f \in {<<"a">>, <<"length">>} |->
        IF f = <<"a">>
        THEN Array(<<Object(Lettered(Sixes)),
                     Object([g \in {<<"length">>} |-> Object(Lettered(Number(1)))])>>)
        ELSE Object(Lettered(Sixes))])
Typed == INSTANCE JsonPathReading WITH
    Keys <- Keystrokes, Documents <- {OneCart}, MaxPath <- 5, IndexBits <- 4
ASSUME Typed!PathAssumption /\ Typed!IndexBitsAssumption

(* Whole steps, over samples of three levels and two elements a sequence.  *)
Steps == {<<"a">>, <<"[", "*", "]">>, <<"[", "*", "]", ".", "a">>, <<"[", "1", "]", ".", "a">>, <<".", "length">>}
Bare == Object([f \in {} |-> Sixes])
Lists == {<<>>, <<Bare, Object(Lettered(Number(1)))>>, <<Object(Lettered(Number(1))), Number(1)>>}
Middle == {Bare, Object(Lettered(Sixes))} \cup {Object(Lettered(Array(s))) : s \in Lists}
Carts == {Object(Lettered(Number(1)))} \cup {Object(Lettered(Array(s))) : s \in BoundedSeq(Middle, 2)}
Walked == INSTANCE JsonPathReading WITH
    Keys <- Steps, Documents <- Carts, MaxPath <- 11, IndexBits <- 16

-----------------------------------------------------------------------------
Entry(is, caps, stale) == [state |-> is, caps |-> caps, stale |-> stale]
Online == Entry("Online", TRUE, FALSE)
Mixed == << <<"x", "Error">>, <<"y", "Pass">>, <<"z", "Fail">> >>
Halved == << <<"x", "Pass">>, <<"y", "Fail">> >>
Passing == << <<"x", "Pass">> >>

(* Two hosts with reports and samples.                                     *)
Heard == INSTANCE FleetTable WITH
    fleet <- view, Hosts <- {1, 2}, Entries <- {Online, Entry("Offline", TRUE, FALSE)},
    Reports <- {Halved, Passing}, Samples <- {[load |-> 10, adapters |-> 1]}, Texts <- {{1, 2}},
    Counters <- {}, Clicked <- {1, 2}
ASSUME Heard!TableAssumption

(* Two hosts under every filter: their entries differ in one thing.        *)
Filtered == INSTANCE FleetTable WITH
    fleet <- view, Hosts <- {1, 2},
    Entries <- {Online, Entry("Online", TRUE, TRUE), Entry("Paused", TRUE, FALSE)},
    Reports <- {Passing}, Samples <- {}, Texts <- {{1, 2}, {2}},
    Counters <- {"Online", "Stale"}, Clicked <- {1}
ASSUME Filtered!TableAssumption

(* Three hosts that come and go, and pass a third or a half of their rules. *)
Ranked == INSTANCE FleetTable WITH
    fleet <- view, Hosts <- {1, 2, 3},
    Entries <- {Online, Entry("Missing", FALSE, FALSE)},
    Reports <- {Mixed, Halved}, Samples <- {}, Texts <- {{1, 2, 3}}, Counters <- {}, Clicked <- {}
ASSUME Ranked!TableAssumption

-----------------------------------------------------------------------------
(* A path with a slash and a space inside, a folder with a space that is   *)
(* named with its last slash, and one with a letter outside ASCII; a level *)
(* that is empty.                                                          *)
Autostart == INSTANCE AutostartTask WITH
    Values <- {<<"c", "\\", "d", " ", "e">>, <<"c", " ", "d", "\\">>, <<"c", "eacute">>},
    Levels <- {<<"w">>, <<>>}, Peers <- {<<>>, <<<<"1">>, <<"2">>>>},
    Foreign <- {"eacute"}

-----------------------------------------------------------------------------
Paths == {"typed", "walked"}
Tables == {"heard", "filtered", "ranked"}
Parts == Paths \cup Tables \cup {"autostart"}

(* An initial state in which the parts other than the moving one rest.     *)
Resting == part # "walked" => document = OneCart

Init ==
    /\ part \in Parts
    /\ Resting
    /\ IF part = "walked" THEN Walked!Init ELSE Typed!Init
    /\ CASE part = "ranked"   -> Ranked!Init
         [] part = "filtered" -> Filtered!Init
         [] OTHER             -> Heard!Init
    /\ Autostart!Init

Next ==
    /\ UNCHANGED part
    /\ CASE part = "typed"  -> Typed!Next
         [] part = "walked" -> Walked!Next
         [] OTHER           -> UNCHANGED reading
    /\ CASE part = "heard"    -> Heard!Next
         [] part = "filtered" -> Filtered!Next
         [] part = "ranked"   -> Ranked!Next
         [] OTHER             -> UNCHANGED fleet_table
    /\ IF part = "autostart" THEN Autostart!Next ELSE UNCHANGED autostart

Spec == Init /\ [][Next]_vars

-----------------------------------------------------------------------------
(* Of a path: what is typed is what is read, what is found is what it      *)
(* addresses, in its order, a failure means that it addresses nothing, and *)
(* a path with [*] never gives its first value for its only one.           *)
PathsAreFollowed ==
    /\ part = "typed" => Typed!TypeOK /\ Typed!ReadsWhatIsTyped /\ Typed!OneMeansOnly
    /\ part = "walked" => Walked!TypeOK /\ Walked!FindsWhatIsAddressed /\ Walked!FailureIsTrue

(* Of the fleet table: a row for each host of the view, in its order, with *)
(* what was heard of it, painted as it is; hosts in trouble come first,    *)
(* the detail pane is about the selected one, the filter is the one the    *)
(* status line says, and what was heard outlasts a host's absence.         *)
HostsAreShown ==
    /\ [](part = "heard" =>
            /\ Heard!TypeOK
            /\ Heard!RowsAreAsHeard
            /\ Heard!PaintedIsCurrent
            /\ Heard!DetailIsOfTheSelected
            /\ Heard!MostUrgentFirst)
    /\ [](part = "filtered" => Filtered!TypeOK /\ Filtered!FilterIsAsSaid /\ Filtered!MostUrgentFirst)
    /\ [](part = "ranked" => Ranked!TypeOK /\ Ranked!RowsAreTheView /\ Ranked!MostUrgentFirst)
    /\ Heard!NothingIsForgotten

(* Of the autostart task: the client starts with the options asked for, if *)
(* a line of words carries them, and runs scripts only if the dialog said  *)
(* so.                                                                     *)
AutostartIsAsAsked ==
    part = "autostart" =>
        Autostart!TypeOK /\ Autostart!TaskRunsAsAsked /\ Autostart!EnrolledAsAnnounced
=============================================================================
