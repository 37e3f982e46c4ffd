-------------------------- MODULE BundlePublisher --------------------------
(***************************************************************************)
(* The server's template bundle: the draft an operator edits, the bundle   *)
(* that is published, the file it is kept in and the sample that the DDS   *)
(* writer holds for clients to come (apps/server/server_controller.cpp).   *)
(*                                                                         *)
(* What a bundle says is abstracted to its content, which is what          *)
(* content_hash() tells apart.                                             *)
(***************************************************************************)
EXTENDS Naturals

CONSTANTS
    Contents,     \* what a bundle can say
    Empty,        \* the bundle with no rules, templates or assignments
    MaxRevision   \* bound on the revisions published

ASSUME ContentsAssumption == Empty \in Contents
ASSUME MaxRevisionAssumption == MaxRevision \in Nat

Bundle == [revision : 0 .. MaxRevision, content : Contents]

(* A bundle, or none. *)
OptionalBundle == {{}} \cup {{b} : b \in Bundle}

(* A default-constructed TemplateBundle. *)
Blank == [revision |-> 0, content |-> Empty]

VARIABLES
    draft,        \* draft_, by its content
    published,    \* published_
    bundle_file,  \* bundle.json: the bundle it holds, or none if it is absent
                  \* or cannot be parsed
    offered,      \* the sample the writer retains, none before the first
    lost          \* history: a server has started from an older bundle than
                  \* the one published last

publisher == <<draft, published, bundle_file, offered, lost>>

PublisherTypeOK ==
    /\ draft \in Contents
    /\ published \in Bundle
    /\ bundle_file \in OptionalBundle
    /\ offered \in OptionalBundle
    /\ lost \in BOOLEAN

(* A first run, with an empty configuration directory. *)
PublisherInit ==
    /\ draft = Empty
    /\ published = Blank
    /\ bundle_file = {}
    /\ offered = {}
    /\ lost = FALSE

(* draft() is edited in place by the dialogs. *)
edit_draft(content) ==
    /\ draft' = content
    /\ UNCHANGED <<published, bundle_file, offered, lost>>

can_publish == draft # published.content /\ published.revision < MaxRevision

NextBundle == [revision |-> published.revision + 1, content |-> draft]

(* save_published_bundle() truncates the file and writes it: it is the new *)
(* bundle, or what it was when it could not be opened, or a torn one.      *)
save_published_bundle(b) == bundle_file' \in {{b}, bundle_file, {}}

(* A slip: an edit reuses the revision published. *)
ReuseTheRevision ==
    LET b == [published EXCEPT !.content = draft, !.revision = IF @ = 0 THEN 1 ELSE @]
    IN  /\ can_publish
        /\ published' = b
        /\ save_published_bundle(b)
        /\ offered' = {b}
        /\ UNCHANGED <<draft, lost>>

(* publish().  Whether the save worked changes nothing that follows. *)
publish ==
    /\ can_publish
    /\ published' = NextBundle
    /\ save_published_bundle(NextBundle)
    /\ offered' = {NextBundle}
    /\ UNCHANGED <<draft, lost>>

(* load_config() and announce_published(): what the file holds is offered  *)
(* as it is, and nothing is offered if it holds nothing.  The draft may be *)
(* repaired by deduplicate_rule_ids(), which is one more edit.             *)
StartFrom(file) ==
    \E b \in (IF file = {} THEN {Blank} ELSE file) :
        /\ bundle_file' = file
        /\ published' = b
        /\ draft' = b.content
        /\ offered' = {x \in {b} : x.revision # 0}
        /\ lost' = (lost \/ b.revision < published.revision)

restart_server == StartFrom(bundle_file)

(* The server dies inside publish(), before it writes the sample. *)
crash_in_publish ==
    /\ can_publish
    /\ \E file \in {{NextBundle}, bundle_file, {}} : StartFrom(file)
============================================================================
