------------------------------ MODULE JsonPath ------------------------------
(***************************************************************************)
(* The path of a DdsValueRule, as the operator types it, and the values it *)
(* addresses in a sample (json_path.cpp).  A path is the sequence of its   *)
(* characters, a run of letters being one of them; a JSON value is a       *)
(* record of its kind.  JsonPathReading says what a path ought to address. *)
(***************************************************************************)
EXTENDS Naturals, Sequences, FiniteSetsExt, SequencesExt

CONSTANT IndexBits    \* the width of std::size_t

IndexBitsAssumption == IndexBits \in Nat \ {0}

Digit == [d \in {"0", "1", "2", "6"} |->
             CASE d = "0" -> 0 [] d = "1" -> 1 [] d = "2" -> 2 [] d = "6" -> 6]

\* A slip: the index is kept in something wider.
NumberUnbounded(digits) ==
    FoldLeft(LAMBDA n, c : n * 10 + Digit[c], 0, digits)

\* index = index * 10 + digit, in a size_t.
number(digits) ==
    FoldLeft(LAMBDA n, c : (n * 10 + Digit[c]) % 2 ^ IndexBits, 0, digits)

Field(name) == [kind |-> "Field", field |-> name]
Index(n)    == [kind |-> "Index", index |-> n]
AnyIndex    == [kind |-> "AnyIndex"]

(***************************************************************************)
(* The outcomes: values in document order, or a failure and the place it   *)
(* speaks of, which is how far the walk had come.                          *)
(***************************************************************************)
ValuesFound(vs) == [values |-> vs]
malformed       == [error |-> "Malformed"]
missing(at)     == [error |-> "NoSuchField", at |-> at]
Failed(found)   == "error" \in DOMAIN found

-----------------------------------------------------------------------------
(***************************************************************************)
(* parse()                                                                 *)
(***************************************************************************)
\* find_first_of: the first of these characters from i on, or the end.
find_first_of(text, chars, i) ==
    Min({j \in i .. Len(text) : text[j] \in chars} \cup {Len(text) + 1})

\* The segments from the start on, or a malformed path.
scan(text) ==
    LET from[i \in 1 .. Len(text) + 1] ==
            LET bracket == text[i] = "["
                close   == find_first_of(text, {"]"}, i)
                digits  == SubSeq(text, i + 1, close - 1)
                next    == IF bracket THEN close + 1 ELSE find_first_of(text, {".", "["}, i)
                dot     == next <= Len(text) /\ text[next] = "."
                bad     == \/ bracket /\ \/ i = 1
                                         \/ close > Len(text)
                                         \/ digits = <<>>
                                         \/ digits # <<"*">> /\ ~(ToSet(digits) \subseteq DOMAIN Digit)
                                         \/ next <= Len(text) /\ text[next] \notin {".", "["}
                           \/ ~bracket /\ next = i
                           \/ dot /\ next = Len(text)
                segment == IF ~bracket THEN Field(SubSeq(text, i, next - 1))
                           ELSE IF digits = <<"*">> THEN AnyIndex ELSE Index(number(digits))
                rest    == from[IF dot THEN next + 1 ELSE next]
            IN IF i > Len(text) THEN [segments |-> <<>>]
               ELSE IF bad THEN malformed
               ELSE IF Failed(rest) THEN rest
               ELSE [segments |-> <<segment>> \o rest.segments]
    IN from[1]

\* A slip: a field named length is a projection wherever it stands.
LengthAnywhere(text) ==
    LET all == scan(text)
        is  == \E i \in DOMAIN all.segments : all.segments[i] = Field(<<"length">>)
    IN IF Failed(all) THEN all
       ELSE [segments |-> SelectSeq(all.segments, LAMBDA s : s # Field(<<"length">>)),
             length_projection |-> is]

\* parse: only a last field named length is the projection.
Projected(segments) ==
    LET is == segments # <<>> /\ Last(segments) = Field(<<"length">>)
    IN [segments |-> IF is THEN Front(segments) ELSE segments, length_projection |-> is]
parse(text) ==
    LET all == scan(text)
    IN IF Failed(all) THEN all ELSE Projected(all.segments)

-----------------------------------------------------------------------------
(***************************************************************************)
(* walk()                                                                  *)
(***************************************************************************)
Size(node) == CASE node.kind = "object" -> Cardinality(DOMAIN node.fields)
                [] node.kind = "array"  -> Len(node.items)
                [] node.kind = "string" -> Len(node.chars)

\* A slip: nlohmann::json::size(), which is 1 for a string.
LeafUnmeasured(node, parsed, walked) ==
    IF ~parsed.length_projection THEN ValuesFound(<<node>>)
    ELSE IF node.kind = "number" THEN missing(walked)
    ELSE ValuesFound(<<[kind |-> "number", value |-> IF node.kind = "string" THEN 1 ELSE Size(node)]>>)

\* append_leaf
append_leaf(node, parsed, walked) ==
    IF ~parsed.length_projection THEN ValuesFound(<<node>>)
    ELSE IF node.kind = "number" THEN missing(walked)
    ELSE ValuesFound(<<[kind |-> "number", value |-> Size(node)]>>)

\* A slip: one element that has nothing there fails the whole path.
JoinStrictly(branches) ==
    LET failures == SelectSeq(branches, Failed)
    IN IF failures # <<>> THEN failures[1]
       ELSE ValuesFound(FlattenSeq([b \in DOMAIN branches |-> branches[b].values]))

\* The branches of a [*]: what came back, or the first failure when nothing did.
Join(branches) ==
    LET values   == FlattenSeq([b \in DOMAIN branches |->
                        IF Failed(branches[b]) THEN <<>> ELSE branches[b].values])
        failures == SelectSeq(branches, Failed)
    IN IF values = <<>> /\ failures # <<>> THEN failures[1] ELSE ValuesFound(values)

\* The node a Field or an Index leads to, as a sequence of none or one.
Step(node, segment) ==
    IF /\ segment.kind = "Field"
       /\ node.kind = "object"
       /\ segment.field \in DOMAIN node.fields
    THEN <<node.fields[segment.field]>>
    ELSE IF /\ segment.kind = "Index"
            /\ node.kind = "array"
            /\ segment.index < Len(node.items)
    THEN <<node.items[segment.index + 1]>>
    ELSE <<>>

\* The node at a place of the document: a place is Fields and Indexes.
Places == Seq([kind : {"Field"}, field : Seq(STRING)] \cup [kind : {"Index"}, index : Nat])
NodeAt(doc, place) == FoldLeft(LAMBDA node, segment : Step(node, segment)[1], doc, place)

\* walk: from the place it has come to, and one branch for each element of a [*].
walk(doc, parsed) ==
    LET from[walked \in Places] ==
            LET node    == NodeAt(doc, walked)
                segment == parsed.segments[Len(walked) + 1]
                nothing == IF segment.kind = "AnyIndex" THEN node.kind # "array"
                           ELSE Step(node, segment) = <<>>
            IN IF Len(walked) = Len(parsed.segments) THEN append_leaf(node, parsed, walked)
               ELSE IF nothing THEN missing(walked)
               ELSE IF segment.kind # "AnyIndex" THEN from[Append(walked, segment)]
               ELSE Join([e \in DOMAIN node.items |-> from[Append(walked, Index(e - 1))]])
    IN from[<<>>]

\* resolve_all: an empty path is the whole document.
Resolved(doc, parsed) == IF Failed(parsed) THEN parsed ELSE walk(doc, parsed)
resolve_all(doc, text) ==
    IF text = <<>> THEN ValuesFound(<<doc>>) ELSE Resolved(doc, parse(text))

\* A slip: the first of several values is taken for the one.
ResolveFirst(doc, text) ==
    LET found == resolve_all(doc, text)
    IN IF Failed(found) THEN found
       ELSE IF found.values = <<>> THEN missing(<<>>)
       ELSE ValuesFound(<<found.values[1]>>)

\* What is left of an outcome when one value is asked for.
Single(found) ==
    IF Failed(found) THEN found
    ELSE CASE Len(found.values) = 0 -> missing(<<>>)
           [] Len(found.values) = 1 -> found
           [] Len(found.values) > 1 -> malformed

\* resolve_path: the one value, or a failure when there is none or are several.
resolve_path(doc, text) == Single(resolve_all(doc, text))
=============================================================================
