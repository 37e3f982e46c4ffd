------------------------------- MODULE Codec -------------------------------
(***************************************************************************)
(* The messages on the wire: encode() and decode() of every topic, and a   *)
(* reader that decodes what a writer encoded after it was cut short,       *)
(* altered or lengthened on its way, or written by an older client.        *)
(*                                                                         *)
(* The wire is a sequence of cells.  A number is one cell whatever its     *)
(* width, a string its length, its characters and a terminator, a list its *)
(* count and its elements: what is misread is misread as Fast CDR would.   *)
(***************************************************************************)
EXTENDS Integers, Sequences, FiniteSets, SequencesExt

CONSTANTS
    Topics,     \* the topics checked, of DOMAIN Schema
    Messages,   \* what is published on each: a function of topic
    Base        \* cells are 0 .. Base - 1

Cell == 0 .. Base - 1
End == 0   \* the terminator of strings; no character

\* The highest value of the enumerations; the numbers stand for the codes.
Highest == [type |-> 1, link |-> 1, check |-> 1]
Error == 3

Disk    == <<"string", "number", "number">>
Adapter == <<"string", "string", "string", "type", "link">>
Result  == <<"string", "check", "string", "string">>

Schema ==
  [announce |-> <<"string", "string", "number", "late flag">>,
   resource |-> <<"string", "number", "number", "number", "disk", "adapter">>,
   bundle   |-> <<"number", "string", "string">>,
   report   |-> <<"string", "number", "result">>,
   command  |-> <<"string", "string", "string", "string", "number">>,
   result   |-> <<"string", "string", "status", "string", "number", "flag", "flag",
                  "string", "string", "string", "number">>]

(* The kinds of list, with what an element of each holds. *)
Lists == [disk |-> Disk, adapter |-> Adapter, result |-> Result]

VARIABLES
    topic,    \* the topic of this reader
    sent,     \* history: the message that was encoded
    wire,     \* the payload on its way, or taken
    damage,   \* history: what happened to it on its way
    out,      \* the reader's sample, one for all takes of a batch
    taken     \* what decode() returned: "not yet", "accepted", "rejected"

vars == <<topic, sent, wire, damage, out, taken>>

-----------------------------------------------------------------------------
(* Writing. *)

WriteSimple(kind, value) ==
    CASE kind = "string" -> <<Len(value) + 1>> \o value \o <<End>>
      [] kind \in {"flag", "late flag"} -> <<IF value THEN 1 ELSE 0>>
      [] OTHER -> <<value>>

WriteAll(kinds, values) ==
    FlattenSeq([i \in DOMAIN kinds |-> WriteSimple(kinds[i], values[i])])

(* A slip: the elements without their count. *)
WriteWithoutCount(kind, value) ==
    IF kind \notin DOMAIN Lists THEN WriteSimple(kind, value)
    ELSE FlattenSeq([i \in DOMAIN value |-> WriteAll(Lists[kind], value[i])])

WriteField(kind, value) ==
    IF kind \notin DOMAIN Lists THEN WriteSimple(kind, value)
    ELSE <<Len(value)>> \o FlattenSeq([i \in DOMAIN value |-> WriteAll(Lists[kind], value[i])])

encode(t, message) ==
    FlattenSeq([i \in DOMAIN message |-> WriteField(Schema[t][i], message[i])])

-----------------------------------------------------------------------------
(* Reading.  A cursor is what is left, what was read, whether nothing was  *)
(* thrown, and whether every enumeration was in range.                     *)

Cursor(bytes) == [rest |-> bytes, read |-> <<>>, ok |-> TRUE, valid |-> TRUE]
Thrown(c) == [c EXCEPT !.ok = FALSE]
Took(c, n, value, valid) ==
    [rest |-> SubSeq(c.rest, n + 1, Len(c.rest)), read |-> Append(c.read, value),
     ok |-> TRUE, valid |-> c.valid /\ valid]

ReadString(c) ==
    LET length == Head(c.rest)
        text   == SubSeq(c.rest, 2, length + 1)
    IN IF c.rest = <<>> \/ Len(c.rest) <= length THEN Thrown(c)
       ELSE Took(c, length + 1,
                 IF text # <<>> /\ Last(text) = End THEN Front(text) ELSE text, TRUE)

(* Slips: the flag that was appended later is read like any other; an      *)
(* enumeration is taken as it comes.                                       *)
ReadPausedAlways(c, kind) ==
    IF c.rest # <<>> /\ Head(c.rest) \in {0, 1} THEN Took(c, 1, Head(c.rest) = 1, TRUE) ELSE Thrown(c)
ReadUnchecked(c, kind) == IF c.rest = <<>> THEN Thrown(c) ELSE Took(c, 1, Head(c.rest), TRUE)

(* A flag is 0 or 1, or Fast CDR throws.  Of an announce that ends before  *)
(* its last flag, or has another value in it, paused reads false.          *)
ReadFlag(c, kind) ==
    IF c.rest # <<>> /\ Head(c.rest) \in {0, 1} THEN Took(c, 1, Head(c.rest) = 1, TRUE)
    ELSE IF kind = "late flag" THEN Took(c, 0, FALSE, TRUE) ELSE Thrown(c)

InRange(kind, value) == kind \in DOMAIN Highest => value <= Highest[kind]

ReadNumber(c, kind) ==
    LET value == IF kind = "status" /\ Head(c.rest) > Error THEN Error ELSE Head(c.rest)
    IN IF c.rest = <<>> THEN Thrown(c) ELSE Took(c, 1, value, InRange(kind, value))

ReadSimple(c, kind) ==
    CASE ~c.ok -> c
      [] c.ok /\ kind = "string" -> ReadString(c)
      [] c.ok /\ kind \in {"flag", "late flag"} -> ReadFlag(c, kind)
      [] OTHER -> ReadNumber(c, kind)

(* A list: its count, then elements until that many or until one throws.   *)
ReadElement(c, kinds) ==
    LET upto[n \in 0 .. Len(kinds)] ==
            IF n = 0 THEN [c EXCEPT !.read = <<>>] ELSE ReadSimple(upto[n - 1], kinds[n])
        element == upto[Len(kinds)]
    IN IF ~c.ok THEN c ELSE [element EXCEPT !.read = Append(c.read, @)]

ReadList(c, kinds) ==
    LET counted  == ReadSimple([c EXCEPT !.read = <<>>], "number")
        upto[n \in 0 .. Head(counted.read)] ==
            IF n = 0 THEN [counted EXCEPT !.read = <<>>] ELSE ReadElement(upto[n - 1], kinds)
        elements == upto[Head(counted.read)]
    IN IF ~c.ok \/ ~counted.ok THEN Thrown(c)
       ELSE [elements EXCEPT !.read = Append(c.read, @)]

ReadField(c, kind) == IF kind \notin DOMAIN Lists THEN ReadSimple(c, kind) ELSE ReadList(c, Lists[kind])

read(t, bytes) ==
    LET upto[n \in 0 .. Len(Schema[t])] ==
            IF n = 0 THEN Cursor(bytes) ELSE ReadField(upto[n - 1], Schema[t][n])
    IN upto[Len(Schema[t])]

(* Slips: what was thrown is ignored; the sample is filled in directly.    *)
AcceptAnything(t, bytes) == bytes # <<>> /\ read(t, bytes).valid
FillInPlace(t, bytes, sample) ==
    LET c == read(t, bytes)
    IN [i \in DOMAIN sample |-> IF i <= Len(c.read) THEN c.read[i] ELSE sample[i]]

accepts(t, bytes) ==
    LET c == read(t, bytes) IN bytes # <<>> /\ c.ok /\ c.valid

decode(t, bytes, sample) ==
    IF accepts(t, bytes) THEN read(t, bytes).read ELSE sample

-----------------------------------------------------------------------------
Init ==
    /\ topic \in Topics
    /\ sent = <<>> /\ wire = <<>> /\ damage = "none"
    /\ out \in Messages[topic]
    /\ taken = "not yet"

(* MessageTopicDataType::serialize(). *)
serialize ==
    /\ sent = <<>>
    /\ \E message \in Messages[topic] :
          sent' = message /\ wire' = encode(topic, message)
    /\ UNCHANGED <<topic, damage, out, taken>>

OnItsWay == sent # <<>> /\ taken = "not yet" /\ damage = "none"

cut_short ==
    /\ OnItsWay
    /\ \E n \in 0 .. Len(wire) - 1 : wire' = SubSeq(wire, 1, n)
    /\ damage' = "short"
    /\ UNCHANGED <<topic, sent, out, taken>>

altered ==
    /\ OnItsWay
    /\ \E i \in DOMAIN wire, cell \in Cell :
          wire[i] # cell /\ wire' = [wire EXCEPT ![i] = cell]
    /\ damage' = "altered"
    /\ UNCHANGED <<topic, sent, out, taken>>

(* A newer writer: fields that this reader does not know are appended. *)
lengthened ==
    /\ OnItsWay
    /\ \E cell \in Cell : wire' = Append(wire, cell)
    /\ damage' = "longer"
    /\ UNCHANGED <<topic, sent, out, taken>>

(* MessageTopicDataType::deserialize(). *)
deserialize ==
    /\ sent # <<>> /\ taken = "not yet"
    /\ out' = decode(topic, wire, out)
    /\ taken' = IF accepts(topic, wire) THEN "accepted" ELSE "rejected"
    /\ UNCHANGED <<topic, sent, wire, damage>>

(* Another batch: its sample is as a take before this one left it. *)
next_batch ==
    /\ taken # "not yet"
    /\ sent' = <<>> /\ wire' = <<>> /\ damage' = "none" /\ taken' = "not yet"
    /\ out' \in Messages[topic]
    /\ UNCHANGED topic

Next == serialize \/ cut_short \/ altered \/ lengthened \/ deserialize \/ next_batch

Spec == Init /\ [][Next]_vars

-----------------------------------------------------------------------------
IsValue(kind, value) ==
    CASE kind = "string" -> value \in Seq(Nat)
      [] kind \in {"flag", "late flag"} -> value \in BOOLEAN
      [] kind = "number" -> value \in Nat
      [] kind = "status" -> value \in 0 .. Error
      [] OTHER -> value \in 0 .. Highest[kind]

(* A tuple with a value of each kind. *)
AreValues(kinds, values) ==
    /\ DOMAIN values = 1 .. Len(kinds)
    /\ values = [i \in 1 .. Len(kinds) |-> values[i]]
    /\ \A i \in DOMAIN kinds : IsValue(kinds[i], values[i])

IsList(kinds, list) ==
    /\ Len(list) \in Nat /\ list = [j \in 1 .. Len(list) |-> list[j]]
    /\ \A j \in 1 .. Len(list) : AreValues(kinds, list[j])

IsMessage(t, message) ==
    /\ DOMAIN message = 1 .. Len(Schema[t])
    /\ message = [i \in 1 .. Len(Schema[t]) |-> message[i]]
    /\ \A i \in DOMAIN Schema[t] :
          LET kind == Schema[t][i]
          IN IF kind \notin DOMAIN Lists THEN IsValue(kind, message[i])
             ELSE IsList(Lists[kind], message[i])

CodecAssumption ==
    /\ Base \in Nat
    /\ Topics \subseteq DOMAIN Schema
    /\ \A t \in Topics : \A message \in Messages[t] : IsMessage(t, message)

(* The sample is a message of the topic whatever came in, and every        *)
(* enumeration in it is one of its values: an enum from the wire is an     *)
(* integer until it has been checked.                                      *)
TypeOK ==
    /\ topic \in Topics
    /\ wire \in Seq(Nat)
    /\ damage \in {"none", "short", "altered", "longer"}
    /\ taken \in {"not yet", "accepted", "rejected"}
    /\ IsMessage(topic, out)

(* What arrives as it was written, with or without fields of a newer       *)
(* version behind it, is read as what was sent.                            *)
RoundTrip ==
    taken # "not yet" /\ damage \in {"none", "longer"} => taken = "accepted" /\ out = sent

(* A message that was cut short is rejected: a half-read command is a      *)
(* half-read script.  Only an announce may end before its last flag.       *)
ShortIsRejected ==
    taken = "accepted" /\ damage = "short" =>
        topic = "announce" /\ Len(wire) = Len(encode(topic, sent)) - 1

(* A rejected payload leaves the sample as it was (codec.hpp): never       *)
(* partially populated in a way the caller could mistake for success.      *)
RejectedLeavesNothing == [][taken' = "rejected" => out' = out]_vars

(* The announce of a client that was built before the pause flag is read   *)
(* as that of a client that is not paused, and not dropped.                *)
OldAnnounceIsRead ==
    /\ topic = "announce" /\ damage = "short" /\ taken # "not yet"
    /\ Len(wire) = Len(encode(topic, sent)) - 1
    => taken = "accepted" /\ out = [sent EXCEPT ![4] = FALSE]
=============================================================================
