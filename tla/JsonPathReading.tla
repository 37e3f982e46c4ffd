--------------------------- MODULE JsonPathReading ---------------------------
(***************************************************************************)
(* An operator types the path of a rule while samples of the topic arrive. *)
(* The module says what a path means without walking it, and compares the  *)
(* values JsonPath finds with that.                                        *)
(***************************************************************************)
EXTENDS JsonPath

CONSTANTS
    Keys,        \* what one keystroke or paste adds to a path
    Documents,   \* the samples that can arrive
    MaxPath      \* bound: the characters of a path

PathAssumption == MaxPath \in Nat

VARIABLES
    path,      \* the text in the rule's path field
    document   \* the latest sample on the topic

vars == <<path, document>>

-----------------------------------------------------------------------------
Init ==
    /\ path = <<>>
    /\ document \in Documents

\* The operator types into the path field.
Type(key) ==
    /\ Len(path) + Len(key) <= MaxPath
    /\ path' = path \o key
    /\ UNCHANGED document

\* Or starts it again.
Clear ==
    /\ path # <<>>
    /\ path' = <<>>
    /\ UNCHANGED document

\* A look at the topic brings a sample.
Sample ==
    /\ document' \in Documents \ {document}
    /\ UNCHANGED path

Next == (\E key \in Keys : Type(key)) \/ Clear \/ Sample

Spec == Init /\ [][Next]_vars

-----------------------------------------------------------------------------
(***************************************************************************)
(* What a path means, without walking it: a place is a sequence of fields  *)
(* and indexes, and a path names every place that it can be read as.       *)
(***************************************************************************)
At(node, place) ==
    FoldLeft(LAMBDA here, step : IF here = <<>> THEN <<>> ELSE Step(here[1], step), <<node>>, place)

\* The places of a node under segments, in document order: one level at a time.
Level(node, places, segment) ==
    LET below(place) ==
            LET here == At(node, place)[1]
            IN IF segment.kind # "AnyIndex" THEN <<Append(place, segment)>>
               ELSE IF here.kind # "array" THEN <<>>
               ELSE [e \in 1 .. Len(here.items) |-> Append(place, Index(e - 1))]
    IN SelectSeq(FlattenSeq([p \in DOMAIN places |-> below(places[p])]),
                 LAMBDA place : At(node, place) # <<>>)

PlacesUnder(node, segments) ==
    FoldLeft(LAMBDA places, segment : Level(node, places, segment), <<(<<>>)>>, segments)

Found == resolve_all(document, path)
Parsed == parse(path)
Measurable(place) ==
    Parsed.length_projection => At(document, place)[1].kind # "number"
Addressed ==
    SelectSeq(PlacesUnder(document, Parsed.segments), Measurable)

(***************************************************************************)
(* Properties                                                              *)
(***************************************************************************)
\* The state is a text within the bound and a sample; the text is a bad path or
\* a list of segments whose indexes fit in a size_t.
TypeOK ==
    /\ path \in Seq(UNION {ToSet(key) : key \in Keys}) /\ Len(path) <= MaxPath
    /\ document \in Documents
    /\ ~Failed(Parsed) => \A segment \in ToSet(Parsed.segments) :
           \/ segment.kind = "AnyIndex"
           \/ segment.kind = "Index" /\ segment.index < 2 ^ IndexBits
           \/ segment.kind = "Field" /\ segment.field # <<>>

\* Whatever is found is every value the path addresses, in document order, and
\* their sizes when the path ends in .length (json_path.hpp, resolve_all): the
\* depth-first walk that forks at each [*] skips and repeats nothing.
FindsWhatIsAddressed ==
    path # <<>> /\ ~Failed(Found) =>
        Found.values =
            [a \in DOMAIN Addressed |->
                LET node == At(document, Addressed[a])[1]
                IN IF Parsed.length_projection
                   THEN [kind |-> "number", value |-> Size(node)] ELSE node]

\* A failure other than a bad path means that the path addresses nothing, and it
\* speaks of a place the sample has (the name quoted in the message).
FailureIsTrue ==
    LET found == Found
    IN Failed(found) /\ found.error = "NoSuchField" =>
        Addressed = <<>> /\ At(document, found.at) # <<>>

\* A single answer is given only when the path has a single one: a path with [*]
\* never quietly gives its first (json_path.hpp, resolve_path).
OneMeansOnly ==
    LET one == resolve_path(document, path)
    IN ~Failed(one) => Found = one /\ Len(one.values) = 1

\* The text that segments stand for; an index has one digit.
Spelled ==
    LET spell(segment, first) ==
            CASE segment.kind = "Field"    -> (IF first THEN <<>> ELSE <<".">>) \o segment.field
              [] segment.kind = "AnyIndex" -> <<"[", "*", "]">>
              [] segment.kind = "Index"    ->
                   <<"[", CHOOSE d \in DOMAIN Digit : Digit[d] = segment.index, "]">>
        steps == IF Parsed.length_projection
                 THEN Append(Parsed.segments, Field(<<"length">>)) ELSE Parsed.segments
    IN FlattenSeq([s \in DOMAIN steps |-> spell(steps[s], s = 1)])

\* The only freedom the parser leaves: a dot before a bracket is passed over.
DotsDropped ==
    LET kept == SelectSeq([i \in DOMAIN path |-> i],
                          LAMBDA i : ~(path[i] = "." /\ path[i + 1] = "["))
    IN [k \in DOMAIN kept |-> path[kept[k]]]

LongIndex == \E i \in 1 .. Len(path) - 1 : path[i] \in DOMAIN Digit /\ path[i + 1] \in DOMAIN Digit

\* A path that is accepted is read as it was typed: its segments and its final
\* .length, spelled again, are the text in the field, so that no character is
\* passed over and length stays a field wherever something follows it (parse).
ReadsWhatIsTyped ==
    path # <<>> /\ ~Failed(Parsed) /\ ~LongIndex => Spelled = DotsDropped

\* What json_path.hpp:61 says of a path that fails: the rest of it fails for
\* every element of the sequence under its first [*].
OnlyWhenEveryElementFails ==
    LET found == Found
        star  == Min({s \in DOMAIN Parsed.segments : Parsed.segments[s].kind = "AnyIndex"})
        rest  == [Parsed EXCEPT !.segments = SubSeq(@, star + 1, Len(@))]
        node  == At(document, SubSeq(Parsed.segments, 1, star - 1))
    IN /\ Failed(found) /\ found.error = "NoSuchField"
       /\ AnyIndex \in ToSet(Parsed.segments)
       /\ node # <<>> /\ node[1].kind = "array"
       => \A e \in DOMAIN node[1].items : Failed(walk(node[1].items[e], rest))

\* What test_json_path.cpp:74 says of an index: the number written is past the
\* end of the sequence, so that there is nothing there.
PastTheEndFails ==
    \A s \in DOMAIN path : \A e \in s .. Len(path) :
        /\ path[s] = "[" /\ path[e] = "]" /\ e > s + 1
        /\ ToSet(SubSeq(path, s + 1, e - 1)) \subseteq DOMAIN Digit
        /\ FoldLeft(LAMBDA n, c : n * 10 + Digit[c], 0, SubSeq(path, s + 1, e - 1)) > 2
        => Failed(Found)
=============================================================================
