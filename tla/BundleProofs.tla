--------------------------- MODULE BundleProofs ---------------------------
(***************************************************************************)
(* Proofs about the distribution of template bundles, for any clients, any *)
(* contents and any bounds.                                                *)
(*                                                                         *)
(* The invariant is inductive as it stands.  Every step but Publish and    *)
(* Restart moves bundles that are somewhere already, so that the set       *)
(* Everywhere only shrinks; Publish adds one under a revision that is      *)
(* above all others; a Restart that loses nothing comes back with the      *)
(* bundle published last, or with the one it was publishing.               *)
(***************************************************************************)
EXTENDS BundleDistribution, TLAPS

(* What a queue holds: nothing comes out of it or goes in but its elements *)
(* and what is appended.                                                   *)
LEMMA QueuedAppend ==
    ASSUME NEW q \in Seq(Bundle), NEW b \in Bundle
    PROVE  /\ Append(q, b) \in Seq(Bundle)
           /\ Queued(Append(q, b)) \subseteq Queued(q) \cup {b}
<1>1. Append(q, b) \in Seq(Bundle)
  OBVIOUS
<1>2. \A i \in DOMAIN Append(q, b) : Append(q, b)[i] \in Queued(q) \cup {b}
  <2> SUFFICES ASSUME NEW i \in DOMAIN Append(q, b)
               PROVE  Append(q, b)[i] \in Queued(q) \cup {b}
    OBVIOUS
  <2>1. CASE i = Len(q) + 1
    BY <2>1
  <2>2. CASE i \in DOMAIN q
    <3>1. Append(q, b)[i] = q[i]
      BY <2>2
    <3> QED BY <3>1, <2>2 DEF Queued
  <2> QED BY <2>1, <2>2
<1> QED BY <1>1, <1>2 DEF Queued

LEMMA QueuedTail ==
    ASSUME NEW q \in Seq(Bundle), q # <<>>
    PROVE  /\ Tail(q) \in Seq(Bundle)
           /\ Queued(Tail(q)) \subseteq Queued(q)
           /\ Head(q) \in Queued(q) /\ Head(q) \in Bundle
<1>1. /\ Tail(q) \in Seq(Bundle) /\ Head(q) = q[1] /\ 1 \in DOMAIN q
      /\ Head(q) \in Bundle
  OBVIOUS
<1>2. \A i \in DOMAIN Tail(q) : Tail(q)[i] = q[i + 1] /\ i + 1 \in DOMAIN q
  OBVIOUS
<1> QED BY <1>1, <1>2 DEF Queued

(* The bundles of the publisher have the type of bundles. *)
LEMMA BundleTypes ==
    /\ Blank \in Bundle
    /\ \A x \in OptionalBundle : x \subseteq Bundle
    /\ {} \in OptionalBundle
    /\ \A b \in Bundle : {b} \in OptionalBundle
<1>1. 0 \in 0 .. MaxRevision
  BY MaxRevisionAssumption
<1> QED BY <1>1, ContentsAssumption DEF Blank, Bundle, OptionalBundle

LEMMA NextBundleType ==
    ASSUME TypeOK, can_publish
    PROVE  /\ NextBundle \in Bundle
           /\ NextBundle.revision = published.revision + 1
           /\ NextBundle.content = draft
<1>1. published.revision + 1 \in 0 .. MaxRevision
  BY MaxRevisionAssumption DEF TypeOK, PublisherTypeOK, Bundle, can_publish
<1> QED BY <1>1 DEF TypeOK, PublisherTypeOK, Bundle, NextBundle

---------------------------------------------------------------------------
LEMMA TypeInit == Init => TypeOK
<1> SUFFICES ASSUME Init PROVE TypeOK
  OBVIOUS
<1>1. PublisherTypeOK
  BY BundleTypes, ContentsAssumption DEF Init, PublisherInit, PublisherTypeOK
<1>2. ReceiverTypeOK
  BY BundleTypes DEF Init, ReceiverInit, ReceiverTypeOK
<1> QED BY <1>1, <1>2, BundleTypes DEF Init, TypeOK

(* What a (re)started server makes of its file. *)
LEMMA StartFromType ==
    ASSUME TypeOK, NEW file \in OptionalBundle, StartFrom(file)
    PROVE  /\ PublisherTypeOK'
           /\ published' \in file \/ (file = {} /\ published' = Blank)
           /\ offered' \subseteq {published'}
           /\ bundle_file' = file
           /\ lost' = (lost \/ published'.revision < published.revision)
<1>1. PICK b \in (IF file = {} THEN {Blank} ELSE file) :
        /\ bundle_file' = file
        /\ published' = b
        /\ draft' = b.content
        /\ offered' = {x \in {b} : x.revision # 0}
        /\ lost' = (lost \/ b.revision < published.revision)
  BY DEF StartFrom
<1>2. b \in Bundle /\ b \in {Blank} \cup file
  BY BundleTypes
<1>3. b.content \in Contents
  BY <1>2 DEF Bundle
<1>4. offered' = {} \/ offered' = {b}
  BY <1>1
<1>5. offered' \in OptionalBundle
  BY <1>2, <1>4, BundleTypes
<1>6. lost' \in BOOLEAN
  BY <1>1
<1> QED BY <1>1, <1>2, <1>3, <1>4, <1>5, <1>6 DEF PublisherTypeOK

(* The file a server may start from. *)
LEMMA RestartFile ==
    ASSUME TypeOK, restart_server \/ crash_in_publish
    PROVE  \E file \in OptionalBundle :
              /\ StartFrom(file)
              /\ \/ file \subseteq bundle_file
                 \/ can_publish /\ file = {NextBundle}
<1>1. CASE restart_server
  BY <1>1 DEF restart_server, TypeOK, PublisherTypeOK
<1>2. CASE crash_in_publish
  <2>1. PICK file \in {{NextBundle}, bundle_file, {}} : can_publish /\ StartFrom(file)
    BY <1>2 DEF crash_in_publish
  <2>2. file \in OptionalBundle
    BY <2>1, NextBundleType, BundleTypes DEF TypeOK, PublisherTypeOK
  <2> QED BY <2>1, <2>2
<1> QED BY <1>1, <1>2

LEMMA PublishType ==
    ASSUME TypeOK, publish
    PROVE  PublisherTypeOK' /\ bundle_file' \subseteq bundle_file \cup {NextBundle}
<1>1. NextBundle \in Bundle /\ {NextBundle} \in OptionalBundle /\ {} \in OptionalBundle
  BY NextBundleType, BundleTypes DEF publish
<1>2. bundle_file' \in {{NextBundle}, bundle_file, {}}
  BY DEF publish, save_published_bundle
<1>3. bundle_file' \in OptionalBundle
  BY <1>1, <1>2 DEF TypeOK, PublisherTypeOK
<1> QED BY <1>1, <1>2, <1>3 DEF publish, TypeOK, PublisherTypeOK

---------------------------------------------------------------------------
(* What a step of a client may do: move what its client has, take what is  *)
(* offered, or forget.                                                     *)
Moves == \A d \in Clients : BundlesAt(d)' \subseteq BundlesAt(d) \cup offered \cup {Blank}

ClientStep(c) ==
    \/ Transport(c) /\ UNCHANGED <<publisher, believed>>
    \/ stop_client(c)
    \/ apply_bundle(c)
    \/ evaluate_compliance(c)
    \/ on_report(c)
    \/ mark_lost(c)

LEMMA PublisherStays ==
    ASSUME TypeOK, UNCHANGED publisher
    PROVE  PublisherTypeOK'
BY DEF TypeOK, PublisherTypeOK, publisher

LEMMA TransportMoves ==
    ASSUME TypeOK, NEW c \in Clients, Transport(c), UNCHANGED <<publisher, believed>>
    PROVE  TypeOK' /\ Moves
<1>1. PublisherTypeOK'
  BY PublisherStays DEF publisher
<1>2. /\ UNCHANGED <<reported, reports, applied>>
      /\ reported' \in [Clients -> OptionalBundle]
      /\ reports' \in [Clients -> OptionalBundle]
      /\ applied' \in [Clients -> OptionalBundle]
  BY DEF believed, TypeOK
<1>3. CASE construct(c)
  <2>1. ReceiverTypeOK'
    BY <1>3 DEF construct, TypeOK, ReceiverTypeOK
  <2>2. Moves
    BY <1>3, <1>2 DEF construct, Moves, BundlesAt
  <2> QED BY <1>1, <1>2, <2>1, <2>2 DEF TypeOK
<1>4. CASE register_handler(c)
  <2>1. ReceiverTypeOK'
    BY <1>4 DEF register_handler, TypeOK, ReceiverTypeOK
  <2>2. Moves
    BY <1>4, <1>2 DEF register_handler, Moves, BundlesAt, TypeOK, ReceiverTypeOK
  <2> QED BY <1>1, <1>2, <2>1, <2>2 DEF TypeOK
<1>5. CASE replay_retained(c)
  <2>1. CASE UNCHANGED queue
    <3>1. ReceiverTypeOK'
      BY <1>5, <2>1, BundleTypes DEF replay_retained, TypeOK, ReceiverTypeOK
    <3>2. Moves
      BY <1>5, <1>2, <2>1 DEF replay_retained, Moves, BundlesAt, TypeOK, ReceiverTypeOK
    <3> QED BY <1>1, <1>2, <3>1, <3>2 DEF TypeOK
  <2>2. ASSUME NEW b \in replaying[c], queue' = [queue EXCEPT ![c] = Append(@, b)]
        PROVE  TypeOK' /\ Moves
    <3>1. queue[c] \in Seq(Bundle) /\ b \in Bundle
      BY BundleTypes DEF TypeOK, ReceiverTypeOK
    <3>2. /\ Append(queue[c], b) \in Seq(Bundle)
          /\ Queued(Append(queue[c], b)) \subseteq Queued(queue[c]) \cup {b}
      BY <3>1, QueuedAppend
    <3>3. ReceiverTypeOK'
      BY <1>5, <2>2, <3>2, BundleTypes DEF replay_retained, TypeOK, ReceiverTypeOK
    <3>4. \A d \in Clients : Queued(queue[d])' \subseteq Queued(queue[d]) \cup replaying[d]
      <4> SUFFICES ASSUME NEW d \in Clients
                   PROVE  Queued(queue'[d]) \subseteq Queued(queue[d]) \cup replaying[d]
        BY DEF Queued
      <4>1. CASE d = c
        <5>1. queue'[d] = Append(queue[c], b)
          BY <2>2, <4>1 DEF TypeOK, ReceiverTypeOK
        <5> QED BY <5>1, <4>1, <3>2
      <4>2. CASE d # c
        <5>1. queue'[d] = queue[d]
          BY <2>2, <4>2 DEF TypeOK, ReceiverTypeOK
        <5> QED BY <5>1
      <4> QED BY <4>1, <4>2
    <3>5. Moves
      BY <1>5, <1>2, <3>4 DEF replay_retained, Moves, BundlesAt, TypeOK, ReceiverTypeOK
    <3> QED BY <1>1, <1>2, <3>3, <3>5 DEF TypeOK
  <2> QED BY <1>5, <2>1, <2>2 DEF replay_retained
<1>6. CASE handle_bundle(c)
  <2>1. PICK b \in offered :
          /\ retained' = [retained EXCEPT ![c] = {b}]
          /\ delivering' = IF phase[c] = "up" THEN delivering
                           ELSE [delivering EXCEPT ![c] = {b}]
    BY <1>6 DEF handle_bundle
  <2>2. b \in Bundle /\ {b} \in OptionalBundle
    BY BundleTypes DEF TypeOK, PublisherTypeOK
  <2>3. ReceiverTypeOK'
    BY <1>6, <2>1, <2>2 DEF handle_bundle, TypeOK, ReceiverTypeOK
  <2>4. Moves
    BY <1>6, <1>2, <2>1 DEF handle_bundle, Moves, BundlesAt, TypeOK, ReceiverTypeOK
  <2> QED BY <1>1, <1>2, <2>3, <2>4 DEF TypeOK
<1>7. CASE post_bundle(c)
  <2>1. PICK b \in delivering[c] : queue' = [queue EXCEPT ![c] = Append(@, b)]
    BY <1>7 DEF post_bundle
  <2>2. queue[c] \in Seq(Bundle) /\ b \in Bundle
    BY BundleTypes DEF TypeOK, ReceiverTypeOK
  <2>3. /\ Append(queue[c], b) \in Seq(Bundle)
        /\ Queued(Append(queue[c], b)) \subseteq Queued(queue[c]) \cup {b}
    BY <2>2, QueuedAppend
  <2>4. ReceiverTypeOK'
    BY <1>7, <2>1, <2>3, BundleTypes DEF post_bundle, TypeOK, ReceiverTypeOK
  <2>5. \A d \in Clients : Queued(queue[d])' \subseteq Queued(queue[d]) \cup delivering[d]
    <3> SUFFICES ASSUME NEW d \in Clients
                 PROVE  Queued(queue'[d]) \subseteq Queued(queue[d]) \cup delivering[d]
      BY DEF Queued
    <3>1. CASE d = c
      <4>1. queue'[d] = Append(queue[c], b)
        BY <2>1, <3>1 DEF TypeOK, ReceiverTypeOK
      <4> QED BY <4>1, <3>1, <2>3
    <3>2. CASE d # c
      <4>1. queue'[d] = queue[d]
        BY <2>1, <3>2 DEF TypeOK, ReceiverTypeOK
      <4> QED BY <4>1
    <3> QED BY <3>1, <3>2
  <2>6. Moves
    BY <1>7, <1>2, <2>5 DEF post_bundle, Moves, BundlesAt, TypeOK, ReceiverTypeOK
  <2> QED BY <1>1, <1>2, <2>4, <2>6 DEF TypeOK
<1> QED BY <1>3, <1>4, <1>5, <1>6, <1>7 DEF Transport

LEMMA StopMoves ==
    ASSUME TypeOK, NEW c \in Clients, stop_client(c)
    PROVE  TypeOK' /\ Moves
<1>1. PublisherTypeOK'
  BY PublisherStays DEF stop_client
<1>2. destroy(c) /\ UNCHANGED applied /\ reported' = [reported EXCEPT ![c] = {}]
  BY DEF stop_client
<1>3. reports' \in [Clients -> OptionalBundle] /\ \A d \in Clients : reports'[d] \subseteq reports[d]
  BY BundleTypes DEF stop_client, TypeOK
<1>4. <<>> \in Seq(Bundle) /\ Queued(<<>>) = {}
  BY DEF Queued
<1>5. ReceiverTypeOK'
  BY <1>2, <1>4, BundleTypes DEF destroy, TypeOK, ReceiverTypeOK
<1>6. reported' \in [Clients -> OptionalBundle] /\ applied' \in [Clients -> OptionalBundle]
  BY <1>2, BundleTypes DEF TypeOK
<1>7. \A d \in Clients : Queued(queue[d])' \subseteq Queued(queue[d])
  <2> SUFFICES ASSUME NEW d \in Clients PROVE Queued(queue'[d]) \subseteq Queued(queue[d])
    BY DEF Queued
  <2>1. queue'[d] = <<>> \/ queue'[d] = queue[d]
    BY <1>2 DEF destroy, TypeOK, ReceiverTypeOK
  <2> QED BY <2>1, <1>4
<1>8. Moves
  BY <1>2, <1>3, <1>7 DEF destroy, Moves, BundlesAt, TypeOK, ReceiverTypeOK
<1> QED BY <1>1, <1>3, <1>5, <1>6, <1>8 DEF TypeOK

LEMMA ApplyMoves ==
    ASSUME TypeOK, NEW c \in Clients, apply_bundle(c)
    PROVE  TypeOK' /\ Moves
<1>1. PublisherTypeOK'
  BY PublisherStays DEF apply_bundle
<1>2. /\ queue[c] \in Seq(Bundle) /\ queue[c] # <<>>
      /\ Apply(c, Head(queue[c]))
      /\ queue' = [queue EXCEPT ![c] = Tail(@)]
      /\ UNCHANGED <<phase, untaken, retained, replaying, delivering, applied>>
  BY DEF apply_bundle, on_bundle, TypeOK, ReceiverTypeOK
<1>3. /\ Tail(queue[c]) \in Seq(Bundle) /\ Head(queue[c]) \in Bundle
      /\ Queued(Tail(queue[c])) \subseteq Queued(queue[c])
      /\ Head(queue[c]) \in Queued(queue[c])
  BY <1>2, QueuedTail
<1>4. held' = held \/ held' = [held EXCEPT ![c] = Head(queue[c])]
  BY <1>2 DEF Apply
<1>5. ReceiverTypeOK'
  BY <1>2, <1>3, <1>4 DEF TypeOK, ReceiverTypeOK
<1>6. \A d \in Clients : /\ Queued(queue[d])' \subseteq Queued(queue[d])
                         /\ held'[d] \in Queued(queue[d]) \cup {held[d]}
  <2> SUFFICES ASSUME NEW d \in Clients
               PROVE  /\ Queued(queue'[d]) \subseteq Queued(queue[d])
                      /\ held'[d] \in Queued(queue[d]) \cup {held[d]}
    BY DEF Queued
  <2>1. CASE d = c
    <3>1. queue'[d] = Tail(queue[c])
      BY <1>2, <2>1 DEF TypeOK, ReceiverTypeOK
    <3>2. held'[d] = held[d] \/ held'[d] = Head(queue[c])
      BY <1>4, <2>1 DEF TypeOK, ReceiverTypeOK
    <3> QED BY <3>1, <3>2, <2>1, <1>3
  <2>2. CASE d # c
    <3>1. queue'[d] = queue[d] /\ held'[d] = held[d]
      BY <1>2, <1>4, <2>2 DEF TypeOK, ReceiverTypeOK
    <3> QED BY <3>1
  <2> QED BY <2>1, <2>2
<1>7. held'[c] \in Bundle /\ {held'[c]} \in OptionalBundle
  BY <1>5, BundleTypes DEF ReceiverTypeOK
<1>8. \A d \in Clients :
        /\ BundlesAt(d)' = retained[d] \cup replaying[d] \cup delivering[d] \cup Queued(queue[d])'
                              \cup {held'[d]} \cup reported'[d] \cup reports'[d] \cup applied[d]
        /\ {held'[d]} \subseteq Queued(queue[d]) \cup {held[d]}
  BY <1>2, <1>6 DEF BundlesAt
<1>9. CASE UNCHANGED <<reported, reports>>
  <2>1. Moves
    BY <1>8, <1>6, <1>9 DEF Moves, BundlesAt
  <2> QED BY <1>1, <1>2, <1>5, <1>9, <2>1 DEF TypeOK
<1>10. CASE publish_report(c, held'[c])
  <2>1. /\ reported' \in [Clients -> OptionalBundle] /\ reports' \in [Clients -> OptionalBundle]
        /\ \A d \in Clients : /\ reported'[d] \subseteq reported[d] \cup {held'[d]}
                              /\ reports'[d] \subseteq reports[d] \cup {held'[d]}
    BY <1>7, <1>10 DEF publish_report, TypeOK
  <2>2. Moves
    <3> SUFFICES ASSUME NEW d \in Clients
                 PROVE  BundlesAt(d)' \subseteq BundlesAt(d) \cup offered \cup {Blank}
      BY DEF Moves
    <3>1. Queued(queue[d])' \subseteq Queued(queue[d])
      BY <1>6
    <3> QED BY <1>8, <3>1, <2>1 DEF BundlesAt
  <2> QED BY <1>1, <1>2, <1>5, <2>1, <2>2 DEF TypeOK
<1> QED BY <1>9, <1>10 DEF apply_bundle

LEMMA ReportMoves ==
    ASSUME TypeOK, NEW c \in Clients,
           evaluate_compliance(c) \/ on_report(c) \/ mark_lost(c)
    PROVE  TypeOK' /\ Moves
<1>1. UNCHANGED <<publisher, receiver>>
  BY DEF evaluate_compliance, on_report, mark_lost
<1>2. PublisherTypeOK'
  BY <1>1, PublisherStays DEF publisher
<1>3. ReceiverTypeOK'
  BY <1>1 DEF receiver, TypeOK, ReceiverTypeOK
<1>4. \A d \in Clients : {held[d]} \in OptionalBundle /\ {} \in OptionalBundle
  BY BundleTypes DEF TypeOK, ReceiverTypeOK
<1>5. /\ reported' \in [Clients -> OptionalBundle]
      /\ reports' \in [Clients -> OptionalBundle]
      /\ applied' \in [Clients -> OptionalBundle]
  BY <1>4 DEF evaluate_compliance, publish_report, on_report, mark_lost, TypeOK
<1>6. \A d \in Clients : /\ reported'[d] \subseteq reported[d] \cup {held[d]}
                         /\ reports'[d] \subseteq reports[d] \cup {held[d]}
                         /\ applied'[d] \subseteq applied[d] \cup reports[d]
  BY DEF evaluate_compliance, publish_report, on_report, mark_lost, TypeOK
<1>7. Moves
  BY <1>1, <1>6 DEF Moves, BundlesAt, receiver, Queued
<1> QED BY <1>2, <1>3, <1>5, <1>7 DEF TypeOK

LEMMA ClientMoves ==
    ASSUME TypeOK, NEW c \in Clients, ClientStep(c)
    PROVE  TypeOK' /\ Moves /\ UNCHANGED publisher
<1>1. UNCHANGED publisher
  BY DEF ClientStep, stop_client, apply_bundle, evaluate_compliance, on_report, mark_lost, publisher
<1> QED BY <1>1, TransportMoves, StopMoves, ApplyMoves, ReportMoves DEF ClientStep

---------------------------------------------------------------------------
(* A step that brings in no bundle keeps the invariant. *)
LEMMA NothingNew ==
    ASSUME RevisionNamesContent, Everywhere' \subseteq Everywhere,
           UNCHANGED published, UNCHANGED lost
    PROVE  RevisionNamesContent'
BY DEF RevisionNamesContent

LEMMA MovesAreNothingNew ==
    ASSUME Moves, UNCHANGED publisher
    PROVE  Everywhere' \subseteq Everywhere
<1>1. \A d \in Clients : BundlesAt(d)' \subseteq Everywhere
  BY DEF Moves, Everywhere
<1> QED BY <1>1 DEF Everywhere, publisher, Blank

(* The clients do not move when the server does. *)
LEMMA ServerLeavesClients ==
    ASSUME UNCHANGED <<retained, replaying, delivering, queue, held, reported>>,
           \/ UNCHANGED <<reports, applied>>
           \/ reports' = reported /\ applied' = [c \in Clients |-> {}]
    PROVE  \A d \in Clients : BundlesAt(d)' \subseteq BundlesAt(d)
BY DEF BundlesAt, Queued

LEMMA EverywhereHasRevisions ==
    ASSUME TypeOK
    PROVE  \A a \in Everywhere : a.revision \in Nat
<1>1. \A d \in Clients : BundlesAt(d) \subseteq Bundle
  <2> SUFFICES ASSUME NEW d \in Clients PROVE BundlesAt(d) \subseteq Bundle
    OBVIOUS
  <2>1. Queued(queue[d]) \subseteq Bundle
    BY DEF Queued, TypeOK, ReceiverTypeOK
  <2> QED BY <2>1, BundleTypes DEF BundlesAt, TypeOK, ReceiverTypeOK
<1>2. Everywhere \subseteq Bundle
  BY <1>1, BundleTypes DEF Everywhere, TypeOK, PublisherTypeOK
<1> QED BY <1>2 DEF Bundle

LEMMA EditStep ==
    ASSUME TypeOK, RevisionNamesContent, Edit
    PROVE  TypeOK' /\ RevisionNamesContent'
<1>1. PICK content \in Contents : edit_draft(content)
  BY DEF Edit
<1>2. TypeOK'
  BY <1>1 DEF Edit, edit_draft, TypeOK, PublisherTypeOK, ReceiverTypeOK, receiver, believed
<1>3. \A d \in Clients : BundlesAt(d)' \subseteq BundlesAt(d)
  BY ServerLeavesClients DEF Edit, receiver, believed
<1>4. Everywhere' \subseteq Everywhere
  BY <1>1, <1>3 DEF edit_draft, Everywhere, Blank
<1> QED BY <1>1, <1>2, <1>4, NothingNew DEF edit_draft

LEMMA ReceiverKept ==
    ASSUME TypeOK, offer,
           UNCHANGED <<phase, retained, replaying, delivering, queue, held>>
    PROVE  ReceiverTypeOK'
BY DEF TypeOK, ReceiverTypeOK, offer

LEMMA PublishStep ==
    ASSUME TypeOK, RevisionNamesContent, Publish
    PROVE  TypeOK' /\ RevisionNamesContent'
<1>1. /\ publish /\ offer
      /\ UNCHANGED <<phase, retained, replaying, delivering, queue, held>>
      /\ UNCHANGED <<reported, reports, applied>>
  BY DEF Publish, believed
<1>2. PublisherTypeOK' /\ bundle_file' \subseteq bundle_file \cup {NextBundle}
  BY <1>1, PublishType
<1>3. TypeOK'
  BY <1>1, <1>2, ReceiverKept DEF TypeOK
<1>4. \A d \in Clients : BundlesAt(d)' \subseteq BundlesAt(d)
  BY <1>1, ServerLeavesClients
<1>5. published' = NextBundle /\ offered' = {NextBundle} /\ lost' = lost
  BY <1>1 DEF publish
<1>6. Everywhere' \subseteq Everywhere \cup {NextBundle}
  BY <1>2, <1>4, <1>5 DEF Everywhere, Blank
<1>7. NextBundle.revision = published.revision + 1 /\ published.revision \in Nat
  BY <1>1, NextBundleType DEF publish, TypeOK, PublisherTypeOK, Bundle
<1>8. ASSUME ~lost
      PROVE  \A a, b \in Everywhere \cup {NextBundle} :
                /\ a.revision = b.revision => a = b
                /\ a.revision <= NextBundle.revision
  BY <1>7, <1>8, EverywhereHasRevisions DEF RevisionNamesContent
<1>9. RevisionNamesContent'
  BY <1>5, <1>6, <1>8 DEF RevisionNamesContent
<1> QED BY <1>3, <1>9

LEMMA RestartStep ==
    ASSUME TypeOK, RevisionNamesContent, Restart
    PROVE  TypeOK' /\ RevisionNamesContent'
<1>1. /\ restart_server \/ crash_in_publish
      /\ offer
      /\ UNCHANGED <<phase, retained, replaying, delivering, queue, held>>
      /\ reported' = reported /\ reports' = reported
      /\ applied' = [c \in Clients |-> {}]
  BY DEF Restart
<1>2. PICK file \in OptionalBundle :
        /\ StartFrom(file)
        /\ \/ file \subseteq bundle_file
           \/ can_publish /\ file = {NextBundle}
  BY <1>1, RestartFile
<1>3. /\ PublisherTypeOK'
      /\ published' \in file \/ (file = {} /\ published' = Blank)
      /\ offered' \subseteq {published'}
      /\ bundle_file' = file
      /\ lost' = (lost \/ published'.revision < published.revision)
  BY <1>2, StartFromType
<1>4. TypeOK'
  BY <1>1, <1>3, ReceiverKept, BundleTypes DEF TypeOK
<1>5. \A d \in Clients : BundlesAt(d)' \subseteq BundlesAt(d)
  BY <1>1, ServerLeavesClients
<1>6. SUFFICES ASSUME ~lost'
               PROVE  RevisionNamesContent'
  BY <1>4 DEF RevisionNamesContent
<1>7. ~lost /\ ~(published'.revision < published.revision)
  BY <1>3, <1>6
<1>8. /\ \A a, b \in Everywhere : /\ a.revision = b.revision => a = b
                                  /\ a.revision <= published.revision
      /\ \A a \in Everywhere : a.revision \in Nat
      /\ published \in Everywhere
  BY <1>7, EverywhereHasRevisions DEF RevisionNamesContent, Everywhere
<1>9. CASE file \subseteq bundle_file
  <2>1. published' \in Everywhere
    BY <1>3, <1>9 DEF Everywhere
  <2>2. published' = published
    BY <1>7, <1>8, <2>1
  <2>3. Everywhere' \subseteq Everywhere
    BY <1>3, <1>5, <1>9, <2>2 DEF Everywhere, Blank
  <2> QED BY <2>2, <2>3, <1>8 DEF RevisionNamesContent
<1>10. CASE can_publish /\ file = {NextBundle}
  <2>1. published' = NextBundle
    BY <1>3, <1>10
  <2>2. Everywhere' \subseteq Everywhere \cup {NextBundle}
    BY <1>3, <1>5, <1>10, <2>1 DEF Everywhere, Blank
  <2>3. NextBundle.revision = published.revision + 1
    BY <1>10, NextBundleType
  <2>4. \A a, b \in Everywhere \cup {NextBundle} :
           /\ a.revision = b.revision => a = b
           /\ a.revision <= NextBundle.revision
    BY <1>8, <2>3
  <2> QED BY <2>1, <2>2, <2>4 DEF RevisionNamesContent
<1> QED BY <1>2, <1>9, <1>10

LEMMA InvInit == Init => TypeOK /\ RevisionNamesContent
<1> SUFFICES ASSUME Init PROVE RevisionNamesContent
  BY TypeInit
<1>1. \A d \in Clients : BundlesAt(d) \subseteq {Blank}
  BY DEF Init, ReceiverInit, BundlesAt, Queued
<1>2. Everywhere \subseteq {Blank} /\ published = Blank
  BY <1>1 DEF Everywhere, Init, PublisherInit
<1>3. Blank.revision <= Blank.revision
  BY DEF Blank
<1> QED BY <1>2, <1>3 DEF RevisionNamesContent

LEMMA InvStep ==
    TypeOK /\ RevisionNamesContent /\ [Next]_vars => TypeOK' /\ RevisionNamesContent'
<1> SUFFICES ASSUME TypeOK, RevisionNamesContent, [Next]_vars
             PROVE  TypeOK' /\ RevisionNamesContent'
  OBVIOUS
<1>1. CASE Edit
  BY <1>1, EditStep
<1>2. CASE Publish
  BY <1>2, PublishStep
<1>3. CASE Restart
  BY <1>3, RestartStep
<1>4. ASSUME NEW c \in Clients, ClientStep(c)
      PROVE  TypeOK' /\ RevisionNamesContent'
  <2>1. TypeOK' /\ Moves /\ UNCHANGED publisher
    BY <1>4, ClientMoves
  <2> QED BY <2>1, MovesAreNothingNew, NothingNew DEF publisher
<1>5. CASE UNCHANGED vars
  <2>1. TypeOK'
    BY <1>5, PublisherStays DEF vars, receiver, believed, TypeOK, ReceiverTypeOK
  <2>2. \A d \in Clients : BundlesAt(d)' \subseteq BundlesAt(d)
    BY <1>5, ServerLeavesClients DEF vars, receiver, believed
  <2>3. Everywhere' \subseteq Everywhere
    BY <1>5, <2>2 DEF vars, publisher, Everywhere, Blank
  <2> QED BY <1>5, <2>1, <2>3, NothingNew DEF vars, publisher
<1> QED BY <1>1, <1>2, <1>3, <1>4, <1>5 DEF Next, ClientStep

(* Every variable keeps its type (BundleDistribution). *)
THEOREM BundleTypeCorrect == Spec => []TypeOK
BY InvInit, InvStep, PTL DEF Spec

(* A revision names one content and published_ is the newest, wherever the *)
(* bundle is (server_controller.cpp:239), until a server starts from an    *)
(* older bundle than the last published.                                   *)
THEOREM RevisionsNameContents == Spec => []RevisionNamesContent
BY InvInit, InvStep, PTL DEF Spec

(* So a host that is not drawn as stale evaluates the published rules, on  *)
(* a server that lost nothing (fleet.cpp:70).                              *)
THEOREM UpToDateUnlessLost == Spec => [](~lost => UpToDateMeansEvaluated)
<1>1. TypeOK /\ RevisionNamesContent => (~lost => UpToDateMeansEvaluated)
  <2> SUFFICES ASSUME TypeOK, RevisionNamesContent, ~lost,
                      NEW c \in Clients, ~ShownStale(c)
               PROVE  applied[c] \subseteq {published}
    BY DEF UpToDateMeansEvaluated
  <2>1. CASE applied[c] = {}
    BY <2>1
  <2>2. CASE applied[c] # {}
    <3>1. PICK b \in Bundle : applied[c] = {b}
      BY <2>2 DEF TypeOK, OptionalBundle
    <3>2. published.revision = b.revision
      BY <2>2, <3>1 DEF ShownStale, AppliedRevision
    <3>3. b \in Everywhere /\ published \in Everywhere
      BY <3>1 DEF Everywhere, BundlesAt
    <3> QED BY <3>1, <3>2, <3>3 DEF RevisionNamesContent
  <2> QED BY <2>1, <2>2
<1> QED BY <1>1, InvInit, InvStep, PTL DEF Spec
===========================================================================
