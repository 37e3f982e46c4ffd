---------------------------- MODULE NetworkProbe ----------------------------
(***************************************************************************)
(* One call of WindowsNetworkProbe::enumerate(): the Network Connections   *)
(* folder completed from the list of interfaces, or, where there is no     *)
(* folder to ask, the interfaces completed from the RAS phonebook.  The    *)
(* lists are read one after another while connections are dialled, hung    *)
(* up, added and removed, and two are read twice when they outgrow their   *)
(* buffer.  Any of the calls can fail: what it would have told is left     *)
(* out, and the sample is made of the rest.                                *)
(*                                                                         *)
(* One Wi-Fi card stands for the hardware, every phonebook entry is a VPN. *)
(* Assumed of Windows: a dialled entry has an interface that is described  *)
(* by the entry's name, and both lists of interfaces spell a GUID alike.   *)
(***************************************************************************)
EXTENDS Integers, FiniteSets

CONSTANTS
    Entries,    \* names of phonebook entries
    Mentioned,  \* those whose name is part of the card's description
    Room,       \* how many entries the first buffer for them holds
    MaxChanges  \* bound on the changes during one call

NamesAssumption == Mentioned \subseteq Entries
BoundsAssumption == Room \in Nat /\ MaxChanges \in Nat

Card == "card"
CardAssumption == Card \notin Entries

VARIABLES
    book,        \* the world: how each entry is
    card,        \* the world: the card is present
    changes,     \* history: how often the world changed during this call
    seen,        \* history: how each entry has been during this call
    card_stayed, \* history: the card was present all along
    at,          \* the next call to make
    unread,      \* history: what could not be read, for a failing call
    room,        \* what the second buffer holds
    connected,   \* names that RasEnumConnections returned
    listed,      \* names that RasEnumEntries returned
    adapters     \* what is returned, or built so far

world == <<book, card, changes, seen, card_stayed>>
vars == <<world, at, unread, room, connected, listed, adapters>>

Status == {"absent", "down", "up"}
InBook(b) == {e \in Entries : b[e] # "absent"}
Dialled == {e \in Entries : book[e] = "up"}

Adapter == [of : Entries \cup {Card}, from : {"folder", "interfaces", "phonebook"},
            type : {"Ethernet", "WiFi", "Ppp", "Tunnel", "Modem"},
            link : {"Connected", "Disconnected"}]

(* The calls that can fail, by what they read.                             *)
Lists == {"folder", "interfaces", "connections", "entries", "types"}

Steps == {"folder", "match", "interfaces", "connections", "connections_again",
          "entries", "entries_again", "types", "done"}

Init ==
    /\ book \in [Entries -> Status]
    /\ card \in BOOLEAN
    /\ changes = 0
    /\ seen = [e \in Entries |-> {book[e]}]
    /\ card_stayed = card
    /\ at = "folder"
    /\ unread = {}
    /\ room = Room
    /\ connected = {} /\ listed = {} /\ adapters = {}

-----------------------------------------------------------------------------
(* The world. *)

entry_changes(e, status) ==
    /\ at # "done" /\ changes < MaxChanges
    /\ book[e] # status
    /\ book' = [book EXCEPT ![e] = status]
    /\ seen' = [seen EXCEPT ![e] = @ \cup {status}]
    /\ changes' = changes + 1
    /\ UNCHANGED <<card, card_stayed, at, unread, room, connected, listed, adapters>>

card_changes ==
    /\ at # "done" /\ changes < MaxChanges
    /\ card' = ~card
    /\ card_stayed' = FALSE
    /\ changes' = changes + 1
    /\ UNCHANGED <<book, seen, at, unread, room, connected, listed, adapters>>

Link(up) == IF up THEN "Connected" ELSE "Disconnected"

-----------------------------------------------------------------------------
(* The folder.  Its media type cannot tell Wi-Fi from Ethernet.            *)

FolderNow ==
    {[of |-> e, from |-> "folder", type |-> "Tunnel", link |-> Link(book[e] = "up")] : e \in InBook(book)}
    \cup IF card
         THEN {[of |-> Card, from |-> "folder", type |-> "Ethernet", link |-> "Connected"]} ELSE {}

Unread(list) == unread' = unread \cup {list}

(* A connection whose GetProperties fails is passed over, and a Next that  *)
(* fails ends the list.  No COM or no session: the other half of           *)
(* enumerate() follows.                                                    *)
enumerate_network_connections ==
    /\ at = "folder"
    /\ \/ at' = "match" /\ adapters' = FolderNow /\ UNCHANGED unread
       \/ at' = "match" /\ adapters' \in SUBSET FolderNow \ {FolderNow} /\ Unread("folder")
       \/ at' = "interfaces" /\ UNCHANGED <<unread, adapters>>
    /\ UNCHANGED <<world, room, connected, listed>>

(* enumerate_interfaces(): an error other than a small buffer reads as no  *)
(* interface at all.                                                       *)
InterfacesNow ==
    {[of |-> e, from |-> "interfaces", type |-> "Ppp", link |-> "Connected"] : e \in Dialled}
    \cup IF card
         THEN {[of |-> Card, from |-> "interfaces", type |-> "WiFi", link |-> "Connected"]} ELSE {}

interfaces_read(interfaces) ==
    \/ interfaces = InterfacesNow /\ UNCHANGED unread
    \/ interfaces = {} /\ Unread("interfaces")

(* A slip: the types of the folder are kept. *)
MatchNothing ==
    /\ at = "match"
    /\ \E interfaces \in {InterfacesNow, {}} : interfaces_read(interfaces)
    /\ at' = "done"
    /\ UNCHANGED <<world, room, connected, listed, adapters>>

match_interfaces ==
    /\ at = "match"
    /\ \E interfaces \in {InterfacesNow, {}} :
          /\ interfaces_read(interfaces)
          /\ adapters' = {LET matches == {i \in interfaces : i.of = a.of}
                          IN IF matches = {} THEN a
                             ELSE [a EXCEPT !.type = (CHOOSE i \in matches : TRUE).type]
                          : a \in adapters}
    /\ at' = "done"
    /\ UNCHANGED <<world, room, connected, listed>>

-----------------------------------------------------------------------------
(* The fallback. *)

enumerate_interfaces ==
    /\ at = "interfaces"
    /\ \E interfaces \in {InterfacesNow, {}} :
          interfaces_read(interfaces) /\ adapters' = interfaces
    /\ at' = "connections"
    /\ UNCHANGED <<world, room, connected, listed>>

(* A list that does not fit is asked for once more, with room for one      *)
(* entry more than there are now; after any other error nothing is dialled.*)
ras_enum_connections ==
    /\ at \in {"connections", "connections_again"}
    /\ \/ /\ Cardinality(Dialled) <= room
          /\ connected' = Dialled
          /\ at' = "entries" /\ room' = Room
       \/ /\ Cardinality(Dialled) > room /\ at = "connections"
          /\ at' = "connections_again" /\ room' = Cardinality(Dialled) + 1
          /\ UNCHANGED connected
       \/ /\ Cardinality(Dialled) > room /\ at = "connections_again"
          /\ at' = "entries" /\ room' = Room
          /\ UNCHANGED connected
    /\ UNCHANGED <<world, unread, listed, adapters>>

ras_connections_fail ==
    /\ at \in {"connections", "connections_again"}
    /\ at' = "entries" /\ room' = Room
    /\ Unread("connections")
    /\ UNCHANGED <<world, connected, listed, adapters>>

(* A slip: a buffer that is too small is an error like any other. *)
AskEntriesOnce ==
    /\ at = "entries"
    /\ IF Cardinality(InBook(book)) <= room
       THEN listed' = InBook(book) /\ at' = "types"
       ELSE at' = "done" /\ UNCHANGED listed
    /\ UNCHANGED <<world, unread, room, connected, adapters>>

ras_enum_entries ==
    /\ at \in {"entries", "entries_again"}
    /\ LET entries == InBook(book)
       IN \/ /\ Cardinality(entries) <= room
             /\ listed' = entries
             /\ at' = "types" /\ UNCHANGED room
          \/ /\ Cardinality(entries) > room /\ at = "entries"
             /\ at' = "entries_again" /\ room' = Cardinality(entries) + 1
             /\ UNCHANGED listed
          \/ /\ Cardinality(entries) > room /\ at = "entries_again"
             /\ at' = "done"
             /\ UNCHANGED <<listed, room>>
    /\ UNCHANGED <<world, unread, connected, adapters>>

(* RAS could not be asked: the list of interfaces is what there is.        *)
ras_entries_fail ==
    /\ at \in {"entries", "entries_again"}
    /\ at' = "done"
    /\ Unread("entries")
    /\ UNCHANGED <<world, room, connected, listed, adapters>>

(* Slips: an entry whose properties cannot be read gets the default; the   *)
(* result of the search is read the wrong way round.                       *)
DefaultType(e, told) == IF book[e] = "absent" \/ ~told THEN "Other" ELSE "Tunnel"
LinkIfNotFound(e, told) ==
    [of |-> e, from |-> "phonebook", type |-> "Tunnel", link |-> Link(e \notin connected)]

(* The properties of an entry that is gone by now cannot be read, and      *)
(* asking for those of another can fail.                                   *)
ras_entry_type(e, told) == IF book[e] = "absent" \/ ~told THEN "Modem" ELSE "Tunnel"

RasEntry(e, told) ==
    [of |-> e, from |-> "phonebook", type |-> ras_entry_type(e, told), link |-> Link(e \in connected)]

(* A slip: every phonebook entry is added. *)
NeverListed(e) == FALSE

(* The name is looked for in the descriptions: the card may mention it.    *)
already_listed(e) ==
    \E existing \in adapters :
        existing.of = e \/ (existing.of = Card /\ e \in Mentioned)

(* The loop reads the type of one entry after another; entries do not      *)
(* depend on each other, so that one step stands for the loop.             *)
add_ras_entries ==
    /\ at = "types"
    /\ \E untold \in SUBSET listed :
          /\ unread' = IF untold = {} THEN unread ELSE unread \cup {"types"}
          /\ adapters' = adapters \cup {RasEntry(e, e \notin untold) :
                                          e \in {f \in listed : ~already_listed(f)}}
    /\ at' = "done"
    /\ UNCHANGED <<world, room, connected, listed>>

(* The next sample. *)
call_again ==
    /\ at = "done" /\ at' = "folder"
    /\ changes' = 0
    /\ seen' = [e \in Entries |-> {book[e]}]
    /\ card_stayed' = card
    /\ unread' = {} /\ room' = Room
    /\ connected' = {} /\ listed' = {} /\ adapters' = {}
    /\ UNCHANGED <<book, card>>

Next ==
    \/ \E e \in Entries, status \in Status : entry_changes(e, status)
    \/ card_changes
    \/ enumerate_network_connections
    \/ match_interfaces
    \/ enumerate_interfaces
    \/ ras_enum_connections
    \/ ras_connections_fail
    \/ ras_enum_entries
    \/ ras_entries_fail
    \/ add_ras_entries
    \/ call_again

Spec == Init /\ [][Next]_vars

-----------------------------------------------------------------------------
(* Every variable has its type. *)
TypeOK ==
    /\ book \in [Entries -> Status] /\ card \in BOOLEAN
    /\ changes \in 0 .. MaxChanges
    /\ seen \in [Entries -> SUBSET Status] /\ card_stayed \in BOOLEAN
    /\ at \in Steps /\ unread \subseteq Lists
    /\ room = Room \/ room \in 1 .. Cardinality(Entries) + 1
    /\ connected \subseteq Entries /\ listed \subseteq Entries
    /\ adapters \subseteq Adapter

(* A dialled entry, which is both an interface and in the phonebook, is    *)
(* returned once, however it changes between the two lists.                *)
NothingTwice == \A a, b \in adapters : a.of = b.of => a = b

(* An entry that was in the phonebook all along is returned, unless the    *)
(* phonebook itself changed during the call or a list that names it could  *)
(* not be read.                                                            *)
PhonebookStayed ==
    \A e \in Entries : "absent" \in seen[e] => seen[e] = {"absent"}
EntriesAreShown ==
    at = "done" /\ PhonebookStayed /\ unread \cap {"folder", "entries"} = {} =>
        \A e \in InBook(book) : \E a \in adapters : a.of = e

(* What an entry's link is shown as it was at some moment of the call; but *)
(* a dialled entry, if the interfaces could not be read and neither could  *)
(* the connections, or the second list of them was too small as well,      *)
(* reads Disconnected.                                                     *)
LinkWasTrueOnce ==
    at = "done" => \A a \in adapters : a.of \in Entries =>
        /\ a.link = "Connected" => "up" \in seen[a.of]
        /\ a.link = "Disconnected"
              /\ ("interfaces" \notin unread \/ (changes < 2 /\ "connections" \notin unread))
           => seen[a.of] # {"up"}

(* The card reads Wi-Fi, which the folder does not know, if it was there   *)
(* all along and the interfaces could be read; an entry that stayed and is *)
(* returned from the phonebook is typed by its own properties, if they     *)
(* could be read.                                                          *)
TypesAreTheirs ==
    at = "done" => \A a \in adapters :
        /\ a.of = Card /\ card_stayed /\ "interfaces" \notin unread => a.type = "WiFi"
        /\ a.from = "phonebook" /\ "absent" \notin seen[a.of] /\ "types" \notin unread
           => a.type = "Tunnel"
=============================================================================
