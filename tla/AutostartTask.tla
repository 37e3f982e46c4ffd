--------------------------- MODULE AutostartTask ---------------------------
(***************************************************************************)
(* The logon task of the client: --install-autostart makes a command line  *)
(* of the options it was given (client main.cpp), hands it to schtasks.exe *)
(* on another command line (autostart_windows.cpp), and at each logon what *)
(* was stored is parsed into options again.  Text goes through two levels  *)
(* of quoting, so that it is modelled character by character; the exe's    *)
(* path and the names of the options are one character each.               *)
(*                                                                         *)
(* Assumed of Windows: a program splits its command line by the rules of   *)
(* the C runtime, schtasks stores the value of /TR as it receives it, and  *)
(* argv is in the ANSI code page, of which ASCII is read alike as UTF-8.   *)
(***************************************************************************)
EXTENDS Integers, Sequences, FiniteSets, SequencesExt

CONSTANTS
    Values,     \* what is given to --config: sequences of characters
    Levels,     \* and to --log-level
    Peers,      \* what is given to --peer: sequences of values
    Foreign     \* the characters whose bytes in the code page are not UTF-8

Quote == "\""
Slash == "\\"
Space == " "

Flag(name) == <<name>>
NoTask == <<>>
Replaced == "?"         \* U+FFFD, and what the code page makes of it

VARIABLES
    task,      \* the command line stored under \LabMonitor\Client, or NoTask
    given,     \* history: the options of the last invocation that registered it
    message    \* what the last invocation told the operator

vars == <<task, given, message>>

Messages == {"none", "enrolled", "not enrolled", "removed", "failed", "invalid syntax", "doing neither"}

\* The default of --log-level; those of the others are empty.
Info == <<"info">>

\* The options that decide how the agent behaves.  Any value may be given empty.
Options == [domain : {<<"0">>, <<"4">>}, config : Values \cup {<<>>}, level : Levels \cup {Info},
            peers : Peers, offline : BOOLEAN, allow : BOOLEAN]

Defaults == [domain |-> <<"0">>, config |-> <<>>, level |-> Info, peers |-> <<>>,
             offline |-> FALSE, allow |-> FALSE]

-----------------------------------------------------------------------------
\* A slip: the registered task always enrols.
ArgumentsThatEnrol(options) ==
    <<Flag("--domain-id"), options.domain, Flag("--allow-scripts")>>

\* A slip: the peers are forgotten.
ArgumentsWithoutPeers(options) ==
    <<Flag("--domain-id"), options.domain>>
    \o (IF options.config # <<>> THEN <<Flag("--config"), options.config>> ELSE <<>>)
    \o (IF options.level # Info THEN <<Flag("--log-level"), options.level>> ELSE <<>>)
    \o (IF options.offline THEN <<Flag("--offline")>> ELSE <<>>)
    \o (IF options.allow THEN <<Flag("--allow-scripts")>> ELSE <<>>)

\* A level that was given is carried, an empty one too; a --config only if it says
\* something.
arguments_for_autostart_task(options) ==
    <<Flag("--domain-id"), options.domain>>
    \o (IF options.config # <<>> THEN <<Flag("--config"), options.config>> ELSE <<>>)
    \o (IF options.level # Info THEN <<Flag("--log-level"), options.level>> ELSE <<>>)
    \o FlattenSeq([i \in DOMAIN options.peers |-> <<Flag("--peer"), options.peers[i]>>])
    \o (IF options.offline THEN <<Flag("--offline")>> ELSE <<>>)
    \o (IF options.allow THEN <<Flag("--allow-scripts")>> ELSE <<>>)

\* A slip: a value with a space is left bare.
LineUnquoted(arguments) ==
    <<Quote, "exe", Quote>> \o FlattenSeq([i \in DOMAIN arguments |-> <<Space>> \o arguments[i]])

\* Bytes of argv, taken for UTF-8.
widen(narrowed) == [i \in DOMAIN narrowed |-> IF narrowed[i] \in Foreign THEN Replaced ELSE narrowed[i]]

task_command_line(arguments) ==
    LET Worded(argument) == IF Contains(argument, Space)
                            THEN <<Quote>> \o widen(argument) \o <<Quote>> ELSE widen(argument)
    IN <<Quote, "exe", Quote>>
       \o FlattenSeq([i \in DOMAIN arguments |-> <<Space>> \o Worded(arguments[i])])

escaped_for_schtasks(line) ==
    FlattenSeq([i \in DOMAIN line |-> IF line[i] = Quote THEN <<Slash, Quote>> ELSE <<line[i]>>])

-----------------------------------------------------------------------------
\* How the C runtime splits a command line.  Of n slashes before a quote n \div 2
\* are taken, and the quote is a character if n is odd; otherwise it opens or
\* closes, except that of two quotes between quotes the second is a character.
RECURSIVE Split(_, _, _, _, _)
Split(line, quoted, slashes, word, words) ==
    LET some(n) == [i \in 1 .. n |-> Slash]
        rest    == Tail(line)
    IN IF line = <<>>
       THEN IF word = <<>> /\ slashes = 0 THEN words ELSE Append(words, word \o some(slashes))
       ELSE CASE Head(line) = Slash -> Split(rest, quoted, slashes + 1, word, words)
              [] Head(line) = Quote /\ slashes % 2 = 1 ->
                    Split(rest, quoted, 0, word \o some(slashes \div 2) \o <<Quote>>, words)
              [] Head(line) = Quote /\ slashes % 2 = 0 ->
                    IF quoted /\ rest # <<>> /\ Head(rest) = Quote
                    THEN Split(Tail(rest), quoted, 0, word \o some(slashes \div 2) \o <<Quote>>, words)
                    ELSE Split(rest, ~quoted, 0, word \o some(slashes \div 2), words)
              [] Head(line) = Space /\ ~quoted ->
                    Split(rest, FALSE, 0, <<>>,
                          IF word = <<>> /\ slashes = 0 THEN words
                          ELSE Append(words, word \o some(slashes)))
              [] OTHER -> Split(rest, quoted, 0, word \o some(slashes) \o <<Head(line)>>, words)

argv(line) == Split(line, FALSE, 0, <<>>, <<>>)

\* What schtasks reads of its own command line from /TR on; "/SC" stands for
\* the arguments that follow the value.
Received(line) == argv(<<Quote>> \o escaped_for_schtasks(line) \o <<Quote, Space, "/SC">>)

\* parse_command_line: words into options, or an error.
Valued == {"--domain-id", "--config", "--log-level", "--peer"}
Field(name) == CASE name = "--domain-id" -> "domain" [] name = "--config" -> "config"
                 [] name = "--log-level" -> "level"

RECURSIVE Parsed(_, _)
Parsed(words, options) ==
    IF words = <<>> THEN <<options>>
    ELSE LET name == Head(words)
         IN CASE name = Flag("--offline") -> Parsed(Tail(words), [options EXCEPT !.offline = TRUE])
              [] name = Flag("--allow-scripts") -> Parsed(Tail(words), [options EXCEPT !.allow = TRUE])
              [] Len(name) = 1 /\ name[1] \in Valued ->
                    IF Len(words) = 1 \/ Head(words[2]) \in Valued \cup {"--offline", "--allow-scripts"}
                    THEN <<>>
                    ELSE Parsed(SubSeq(words, 3, Len(words)),
                                IF name = Flag("--peer")
                                THEN [options EXCEPT !.peers = Append(@, words[2])]
                                ELSE [options EXCEPT ![Field(name[1])] = words[2]])
              [] OTHER -> <<>>

parse_options(line) == Parsed(Tail(argv(line)), Defaults)

-----------------------------------------------------------------------------
Init == task = NoTask /\ given = Defaults /\ message = "none"

\* run_capturing_output and failure_message: any step before the operation itself
\* failed, or schtasks refused a caller who is not elevated.
fail == message' = "failed" /\ UNCHANGED <<task, given>>

\* A line that schtasks reads as anything but one value, followed by its other
\* arguments, is an error to it.
install_autostart_task(options) ==
    LET line == task_command_line(arguments_for_autostart_task(options))
        read == Received(line)
    IN \/ fail
       \/ /\ Len(read) # 2 \/ Last(read) # <<"/SC">>
          /\ message' = "invalid syntax"
          /\ UNCHANGED <<task, given>>
       \/ /\ Len(read) = 2 /\ Last(read) = <<"/SC">>
          /\ task' = Head(read)
          /\ given' = options
          /\ message' = IF options.allow THEN "enrolled" ELSE "not enrolled"

\* schtasks fails to delete a task that does not exist.
uninstall_autostart_task ==
    \/ fail
    \/ /\ task # NoTask
       /\ task' = NoTask
       /\ message' = "removed"
       /\ UNCHANGED given

both_given == message' = "doing neither" /\ UNCHANGED <<task, given>>

Next ==
    \/ \E options \in Options : install_autostart_task(options)
    \/ uninstall_autostart_task
    \/ both_given

Spec == Init /\ [][Next]_vars

-----------------------------------------------------------------------------
\* Every variable has its type; what is stored begins with the program.
TypeOK ==
    /\ task = NoTask \/ Head(argv(task)) = <<"exe">>
    /\ given \in Options
    /\ message \in Messages

\* What a line of words can carry: every value has a character, and each of them is
\* one that is read back as it was written.
Carried(options) ==
    LET needed == {options.level} \cup Range(options.peers)
    IN <<>> \notin needed /\ \A value \in needed \cup {options.config} : Range(value) \cap Foreign = {}

\* The task carries what was asked for through both levels of quoting: at the
\* next logon the client starts with the options of the invocation that
\* registered it, no less and no more (autostart.hpp on the arguments).  Options
\* that no line carries are excepted (see TaskAlwaysRunsAsAsked).
TaskRunsAsAsked == task # NoTask /\ Carried(given) => parse_options(task) = <<given>>

\* Elevation is not enrolment: after the dialog said which of the two it is, a
\* client that starts at logon runs scripts only if the dialog said so, whatever
\* the options were.
EnrolledAsAnnounced ==
    message \in {"enrolled", "not enrolled"} =>
        \A options \in Range(parse_options(task)) : options.allow = (message = "enrolled")

\* What autostart.hpp says of all options: the task must "read the same config and
\* log at the same level as the command that installed it".  An empty level leaves
\* --log-level without a value, and the client does not start; a path outside ASCII
\* is read as another.
TaskAlwaysRunsAsAsked == task # NoTask => parse_options(task) = <<given>>

\* Every quote arrives at schtasks as it was meant (the comment above
\* escaped_for_schtasks): no options can be given that schtasks does not read as
\* one value of /TR.
EveryQuoteArrives == message # "invalid syntax"
=============================================================================
