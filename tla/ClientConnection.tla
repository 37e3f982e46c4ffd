-------------------------- MODULE ClientConnection --------------------------
(***************************************************************************)
(* The client's connection state, from the matched callbacks of Fast DDS   *)
(* to the tray icon: handle_match_change() of DdsClientTransport on        *)
(* listener threads, the handler that MonitorWorker's constructor          *)
(* registers, the queued signal that main() connects after that, and       *)
(* TrayController::set_connected() on the GUI thread.                      *)
(*                                                                         *)
(* matched_entities_ and state_ are two atomics, and the handler is called *)
(* after both: a callback can be overtaken between any two of the three.   *)
(***************************************************************************)
EXTENDS Integers, Sequences, FiniteSets, FiniteSetTheorems, TLAPS

CONSTANTS
    Endpoints,  \* pairs of one of our writers or readers and one of a server's
    Threads,    \* Fast DDS threads that call handle_match_change
    MaxQueue    \* bound on the set_connected events waiting for the GUI thread

VARIABLES
    matched,           \* the pairs that Fast DDS has matched
    calls,             \* what each thread has still to do of its callback
    matched_entities,  \* matched_entities_
    state,             \* state_
    startup,           \* how far main() is
    queue,             \* set_connected events posted to the GUI thread
    connected,         \* connected_ of the tray
    heard              \* history: some change of state_ reached a connected signal

vars == <<matched, calls, matched_entities, state, startup, queue, connected, heard>>

State == {"Connected", "Disconnected"}

Idle == [at |-> "idle"]
Call ==
         {Idle}
    \cup [at : {"count"}, delta : {-1, 1}]
    \cup [at : {"exchange", "notify"}, new : State]

TypeOK ==
    /\ matched \subseteq Endpoints
    /\ calls \in [Threads -> Call]
    /\ matched_entities \in -Cardinality(Endpoints) .. Cardinality(Endpoints)
    /\ state \in State
    /\ startup \in {"transport", "worker", "wired"}
    /\ queue \in Seq(State)
    /\ connected \in BOOLEAN
    /\ heard \in BOOLEAN

(* The transport exists: its entities may be matched at any time from now. *)
Init ==
    /\ matched = {}
    /\ calls = [t \in Threads |-> Idle]
    /\ matched_entities = 0
    /\ state = "Disconnected"
    /\ startup = "transport"
    /\ queue = <<>>
    /\ connected = FALSE
    /\ heard = FALSE

(* Fast DDS matches or unmatches a pair and calls its listener.            *)
Callback(t, delta) ==
    /\ calls[t] = Idle
    /\ calls' = [calls EXCEPT ![t] = [at |-> "count", delta |-> delta]]
    /\ UNCHANGED <<matched_entities, state, startup, queue, connected, heard>>

on_matched(t) ==
    \E e \in Endpoints \ matched : matched' = matched \cup {e} /\ Callback(t, 1)

on_unmatched(t) ==
    \E e \in matched : matched' = matched \ {e} /\ Callback(t, -1)

(* Slips: every callback counts one more; the count before the change      *)
(* decides the state.                                                      *)
CountEveryChange(t) ==
    /\ calls[t].at = "count"
    /\ matched_entities' = matched_entities + 1
    /\ calls' = [calls EXCEPT ![t] = [at |-> "exchange", new |-> "Connected"]]
    /\ UNCHANGED <<matched, state, startup, queue, connected, heard>>
DecideByOldCount(t) ==
    /\ calls[t].at = "count"
    /\ matched_entities' = matched_entities + calls[t].delta
    /\ calls' = [calls EXCEPT ![t] =
                    [at |-> "exchange",
                     new |-> IF matched_entities > 0 THEN "Connected" ELSE "Disconnected"]]
    /\ UNCHANGED <<matched, state, startup, queue, connected, heard>>

(* matched_entities_.fetch_add(delta) + delta, and what follows from it.   *)
fetch_add(t) ==
    /\ calls[t].at = "count"
    /\ LET new_count == matched_entities + calls[t].delta
           new_state == IF new_count > 0 THEN "Connected" ELSE "Disconnected"
       IN  /\ matched_entities' = new_count
           /\ calls' = [calls EXCEPT ![t] = [at |-> "exchange", new |-> new_state]]
    /\ UNCHANGED <<matched, state, startup, queue, connected, heard>>

(* A slip: a change back to Disconnected is not passed on. *)
NotifyOnlyConnected(t) ==
    /\ calls[t].at = "exchange"
    /\ state' = calls[t].new
    /\ calls' = [calls EXCEPT ![t] =
                    IF state = @.new \/ @.new = "Disconnected" THEN Idle
                    ELSE [@ EXCEPT !.at = "notify"]]
    /\ UNCHANGED <<matched, matched_entities, startup, queue, connected, heard>>

(* state_.exchange(new_state); no change, no call. *)
exchange(t) ==
    /\ calls[t].at = "exchange"
    /\ state' = calls[t].new
    /\ calls' = [calls EXCEPT ![t] =
                    IF state = @.new THEN Idle ELSE [@ EXCEPT !.at = "notify"]]
    /\ UNCHANGED <<matched, matched_entities, startup, queue, connected, heard>>

(* The handler is copied and called.  It emits connection_changed, which   *)
(* posts to the GUI thread if main() has connected it, and to nobody       *)
(* before; without a worker there is no handler either.                    *)
notify(t) ==
    /\ calls[t].at = "notify"
    /\ IF startup = "wired"
       THEN /\ Len(queue) < MaxQueue
            /\ queue' = Append(queue, calls[t].new)
            /\ heard' = TRUE
       ELSE UNCHANGED <<queue, heard>>
    /\ calls' = [calls EXCEPT ![t] = Idle]
    /\ UNCHANGED <<matched, matched_entities, state, startup, connected>>

(* MonitorWorker's constructor: on_connection_changed() stores the handler *)
(* and does not look at state_.                                            *)
construct_worker ==
    /\ startup = "transport"
    /\ startup' = "worker"
    /\ UNCHANGED <<matched, calls, matched_entities, state, queue, connected, heard>>

(* main() connects the signal to the tray and to the window. *)
connect_signals ==
    /\ startup = "worker"
    /\ startup' = "wired"
    /\ UNCHANGED <<matched, calls, matched_entities, state, queue, connected, heard>>

(* A slip: the newest event is looked at and the others stay. *)
SetNewest ==
    /\ queue # <<>>
    /\ connected' = (queue[Len(queue)] = "Connected")
    /\ queue' = SubSeq(queue, 1, Len(queue) - 1)
    /\ UNCHANGED <<matched, calls, matched_entities, state, startup, heard>>

(* On the GUI thread. *)
set_connected ==
    /\ queue # <<>>
    /\ connected' = (Head(queue) = "Connected")
    /\ queue' = Tail(queue)
    /\ UNCHANGED <<matched, calls, matched_entities, state, startup, heard>>

handle_match_change(t) == fetch_add(t) \/ exchange(t) \/ notify(t)

Next ==
    \/ \E t \in Threads : on_matched(t) \/ on_unmatched(t) \/ handle_match_change(t)
    \/ construct_worker
    \/ connect_signals
    \/ set_connected

Spec == Init /\ [][Next]_vars

(* A callback that began ends, main() goes on, and the GUI thread handles  *)
(* its events.  Fast DDS need never match or unmatch anything.             *)
Fairness ==
    /\ \A t \in Threads : WF_vars(handle_match_change(t))
    /\ WF_vars(construct_worker)
    /\ WF_vars(connect_signals)
    /\ WF_vars(set_connected)

FairSpec == Spec /\ Fairness

---------------------------------------------------------------------------
(* state_ says whether a server is matched whenever no callback is under   *)
(* way (fast_dds_transport.cpp:542): the count and the state are two       *)
(* atomics, and the second must not be left behind the first.              *)
Quiet == \A t \in Threads : calls[t] = Idle
StateFollowsMatches ==
    Quiet => state = IF matched = {} THEN "Disconnected" ELSE "Connected"

(* Once any change reached the GUI, the tray shows the last one as soon as *)
(* nothing is under way: changes arrive in the order they happened in.     *)
ShownIsLast ==
    Quiet /\ queue = <<>> /\ heard => (connected <=> state = "Connected")

(* Matches that settle end up on the screen (the design's error handling:  *)
(* transport loss shows as a disconnected badge), if the tray has been     *)
(* told anything before.                                                   *)
LossIsShown == [](heard /\ [](matched = {}) => <>[]~connected)

(* A client that a server is matched with for good ends up shown as        *)
(* connected, however its start and its discovery interleave.              *)
MatchIsShown == <>[](matched # {}) => <>[]connected

---------------------------------------------------------------------------
(* With callbacks one at a time, the count lacks what the callback that is *)
(* under way has still to add, the state follows the count before anyone   *)
(* is told, and what the GUI was told last is the state before that.       *)
Shows(s) == s = IF matched = {} THEN "Disconnected" ELSE "Connected"
LastShown == IF queue = <<>> THEN connected ELSE queue[Len(queue)] = "Connected"

StateIsBehind(call) ==
    CASE call.at = "idle" -> Shows(state) /\ matched_entities = Cardinality(matched)
      [] call.at = "count" -> matched_entities + call.delta = Cardinality(matched)
      [] call.at = "exchange" -> Shows(call.new) /\ matched_entities = Cardinality(matched)
      [] call.at = "notify" -> /\ Shows(state) /\ call.new = state
                               /\ matched_entities = Cardinality(matched)

ToldInOrder(call) ==
    heard => /\ startup = "wired"
             /\ IF call.at = "notify" THEN LastShown <=> state # "Connected"
                                      ELSE LastShown <=> state = "Connected"

ConnectionInv == TypeOK /\ \A t \in Threads : StateIsBehind(calls[t]) /\ ToldInOrder(calls[t])

LEMMA MatchedAreCounted ==
    ASSUME IsFiniteSet(Endpoints), NEW S \in SUBSET Endpoints
    PROVE  /\ IsFiniteSet(S)
           /\ Cardinality(S) \in 0 .. Cardinality(Endpoints) /\ Cardinality(Endpoints) \in Nat
           /\ Cardinality(S) = 0 <=> S = {}
           /\ \A e \in Endpoints \ S : Cardinality(S \cup {e}) = Cardinality(S) + 1
           /\ \A e \in S : Cardinality(S \ {e}) = Cardinality(S) - 1
<1>1. IsFiniteSet(S) /\ Cardinality(S) <= Cardinality(Endpoints)
  BY FS_Subset
<1>2. Cardinality(S) \in Nat /\ Cardinality(Endpoints) \in Nat
  BY <1>1, FS_CardinalityType
<1>3. Cardinality(S) = 0 <=> S = {}
  BY <1>1, FS_EmptySet
<1>4. \A e \in Endpoints \ S : Cardinality(S \cup {e}) = Cardinality(S) + 1
  BY <1>1, FS_AddElement
<1>5. \A e \in S : Cardinality(S \ {e}) = Cardinality(S) - 1
  BY <1>1, FS_RemoveElement
<1> QED
  BY <1>1, <1>2, <1>3, <1>4, <1>5

LEMMA ConnectionInit == IsFiniteSet(Endpoints) /\ Init => ConnectionInv
<1> SUFFICES ASSUME IsFiniteSet(Endpoints), Init PROVE ConnectionInv
  OBVIOUS
<1>1. Cardinality(Endpoints) \in Nat /\ Cardinality({}) = 0
  BY FS_CardinalityType, FS_EmptySet
<1>2. TypeOK
  <2>1. queue \in Seq(State)
    BY DEF Init
  <2>2. calls \in [Threads -> Call]
    BY DEF Init, Call
  <2>3. matched_entities \in -Cardinality(Endpoints) .. Cardinality(Endpoints)
    BY <1>1 DEF Init
  <2> QED
    BY <2>1, <2>2, <2>3, Zenon DEF Init, TypeOK, State
<1>3. \A t \in Threads : StateIsBehind(calls[t]) /\ ToldInOrder(calls[t])
  BY <1>1 DEF Init, StateIsBehind, ToldInOrder, Shows, Idle
<1> QED
  BY <1>2, <1>3 DEF ConnectionInv

LEMMA ConnectionStep ==
    ASSUME IsFiniteSet(Endpoints), NEW t, Threads = {t}, ConnectionInv, [Next]_vars
    PROVE  ConnectionInv'
<1> USE DEF TypeOK, State
<1> DEFINE call == calls[t]
<1>1. /\ calls \in [{t} -> Call] /\ call \in Call
      /\ StateIsBehind(call) /\ ToldInOrder(call)
  BY DEF ConnectionInv
<1>2. SUFFICES TypeOK' /\ StateIsBehind(calls[t])' /\ ToldInOrder(calls[t])'
  BY DEF ConnectionInv
<1>3. /\ Cardinality(matched) \in 0 .. Cardinality(Endpoints) /\ Cardinality(Endpoints) \in Nat
      /\ Cardinality(matched) = 0 <=> matched = {}
  BY MatchedAreCounted DEF ConnectionInv
<1>4. ASSUME NEW e \in Endpoints \ matched, matched' = matched \cup {e}, Callback(t, 1)
      PROVE  TypeOK' /\ StateIsBehind(calls[t])' /\ ToldInOrder(calls[t])'
  <2>1. Cardinality(matched') = Cardinality(matched) + 1
    BY <1>4, MatchedAreCounted DEF ConnectionInv
  <2>2. call = Idle /\ calls' = [u \in {t} |-> [at |-> "count", delta |-> 1]]
    BY <1>1, <1>4 DEF Callback
  <2>3. calls' \in [Threads -> Call]
    BY <2>2 DEF Call
  <2> QED
    BY <1>1, <1>4, <2>1, <2>2, <2>3
       DEF Callback, ConnectionInv, StateIsBehind, ToldInOrder, LastShown, Idle
<1>5. ASSUME NEW e \in matched, matched' = matched \ {e}, Callback(t, -1)
      PROVE  TypeOK' /\ StateIsBehind(calls[t])' /\ ToldInOrder(calls[t])'
  <2>1. Cardinality(matched') = Cardinality(matched) - 1
    BY <1>5, MatchedAreCounted DEF ConnectionInv
  <2>2. call = Idle /\ calls' = [u \in {t} |-> [at |-> "count", delta |-> -1]]
    BY <1>1, <1>5 DEF Callback
  <2>3. calls' \in [Threads -> Call]
    BY <2>2 DEF Call
  <2> QED
    BY <1>1, <1>5, <2>1, <2>2, <2>3
       DEF Callback, ConnectionInv, StateIsBehind, ToldInOrder, LastShown, Idle
<1>6. CASE fetch_add(t)
  <2> DEFINE new == IF matched = {} THEN "Disconnected" ELSE "Connected"
  <2>1. call.at = "count" /\ matched_entities' = Cardinality(matched)
    BY <1>1, <1>6 DEF fetch_add, StateIsBehind
  <2>2. calls' = [u \in {t} |-> [at |-> "exchange", new |-> new]]
    <3>1. matched_entities + call.delta = Cardinality(matched)
      BY <1>1, <2>1 DEF StateIsBehind
    <3>2. new = IF matched_entities + call.delta > 0 THEN "Connected" ELSE "Disconnected"
      BY <1>3, <3>1
    <3> QED
      BY <1>1, <1>6, <3>2, Zenon DEF fetch_add
  <2>3. calls' \in [Threads -> Call]
    BY <2>2 DEF Call
  <2> QED
    BY <1>1, <1>3, <1>6, <2>1, <2>2, <2>3
       DEF fetch_add, ConnectionInv, StateIsBehind, ToldInOrder, LastShown, Shows
<1>7. CASE exchange(t)
  <2>1. /\ call.at = "exchange" /\ call.new \in State /\ state' = call.new
        /\ call = [at |-> "exchange", new |-> call.new]
    BY <1>1, <1>7 DEF exchange, Call, Idle
  <2>2. calls' = [u \in {t} |-> IF state = call.new THEN Idle
                                ELSE [at |-> "notify", new |-> call.new]]
    <3>1. calls' = [calls EXCEPT ![t] =
                      IF state = call.new THEN Idle ELSE [call EXCEPT !.at = "notify"]]
      BY <1>7 DEF exchange
    <3>2. [call EXCEPT !.at = "notify"] = [at |-> "notify", new |-> call.new]
      BY <2>1
    <3> QED
      BY <1>1, <3>1, <3>2
  <2>3. calls' \in [Threads -> Call]
    BY <2>1, <2>2 DEF Call
  <2>4. ToldInOrder(calls[t])'
    BY <1>1, <1>7, <2>1, <2>2 DEF exchange, ConnectionInv, ToldInOrder, LastShown, Idle
  <2>5. StateIsBehind(calls[t])'
    <3>1. UNCHANGED <<matched, matched_entities>> /\ Shows(call.new)
          /\ matched_entities = Cardinality(matched)
      BY <1>1, <1>7, <2>1 DEF exchange, StateIsBehind
    <3>2. Shows(state)' /\ matched_entities' = Cardinality(matched')
      BY <2>1, <3>1 DEF Shows
    <3>3. CASE state = call.new
      <4>1. calls'[t].at = "idle"
        BY <2>2, <3>3 DEF Idle
      <4> QED
        BY <3>2, <4>1 DEF StateIsBehind
    <3>4. CASE state # call.new
      <4>1. calls'[t].at = "notify" /\ calls'[t].new = state'
        BY <2>1, <2>2, <3>4
      <4> QED
        BY <3>2, <4>1 DEF StateIsBehind
    <3> QED
      BY <3>3, <3>4
  <2> QED
    BY <1>7, <2>1, <2>3, <2>4, <2>5 DEF exchange, ConnectionInv
<1>8. CASE notify(t)
  <2>1. call.at = "notify" /\ call.new = state /\ calls' = [u \in {t} |-> Idle]
    BY <1>1, <1>8 DEF notify, StateIsBehind
  <2>2. calls' \in [Threads -> Call]
    BY <2>1 DEF Call
  <2>3. StateIsBehind(calls[t])'
    BY <1>1, <1>8, <2>1 DEF notify, StateIsBehind, Shows, Idle
  <2>4. CASE startup = "wired"
    <3>1. queue' = Append(queue, state) /\ queue' \in Seq(State)
      BY <1>8, <2>1, <2>4 DEF notify, ConnectionInv
    <3>2. queue' # <<>> /\ queue'[Len(queue')] = state
      BY <3>1 DEF ConnectionInv
    <3> QED
      BY <1>8, <2>1, <2>2, <2>3, <2>4, <3>1, <3>2
         DEF notify, ConnectionInv, ToldInOrder, LastShown, Idle
  <2>5. CASE startup # "wired"
    BY <1>1, <1>8, <2>1, <2>2, <2>3, <2>5
       DEF notify, ConnectionInv, ToldInOrder, LastShown, Idle
  <2> QED
    BY <2>4, <2>5
<1>9. CASE construct_worker \/ connect_signals
  <2>1. /\ UNCHANGED <<matched, calls, matched_entities, state, queue, connected, heard>>
        /\ startup # "wired" /\ startup' \in {"worker", "wired"}
    BY <1>9 DEF construct_worker, connect_signals
  <2>2. TypeOK'
    BY <2>1 DEF ConnectionInv
  <2>3. StateIsBehind(calls[t])'
    BY <1>1, <2>1 DEF StateIsBehind, Shows
  <2>4. ToldInOrder(calls[t])'
    BY <1>1, <2>1 DEF ToldInOrder
  <2> QED
    BY <2>2, <2>3, <2>4
<1>10. CASE set_connected
  <2>1. /\ queue # <<>> /\ queue \in Seq(State) /\ queue' = Tail(queue)
        /\ connected' = (queue[1] = "Connected") /\ queue' \in Seq(State)
    BY <1>10 DEF set_connected, ConnectionInv
  <2>2. LastShown' <=> queue[Len(queue)] = "Connected"
    <3>1. CASE Len(queue) = 1
      <4>1. queue' = <<>>
        BY <2>1, <3>1
      <4> QED
        BY <2>1, <3>1, <4>1 DEF LastShown
    <3>2. CASE Len(queue) # 1
      <4>1. Len(queue) \in Nat \ {0, 1} /\ Len(queue') = Len(queue) - 1
        BY <2>1, <3>2
      <4>2. \A i \in 1 .. Len(queue) - 1 : Tail(queue)[i] = queue[i + 1]
        BY <2>1
      <4>3. queue'[Len(queue) - 1] = queue[Len(queue)]
        <5>1. Len(queue) - 1 \in 1 .. Len(queue) - 1 /\ (Len(queue) - 1) + 1 = Len(queue)
          BY <4>1
        <5> QED
          BY <2>1, <4>2, <5>1
      <4>4. queue' # <<>> /\ queue'[Len(queue')] = queue[Len(queue)]
        <5>1. Len(queue') # 0
          BY <4>1
        <5>2. Len(<<>>) = 0
          OBVIOUS
        <5> QED
          BY <4>1, <4>3, <5>1, <5>2, Zenon
      <4> QED
        BY <4>4 DEF LastShown
    <3> QED
      BY <3>1, <3>2
  <2>3. ToldInOrder(calls[t])'
    BY <1>1, <1>10, <2>1, <2>2 DEF set_connected, ToldInOrder, LastShown
  <2> QED
    BY <1>1, <1>10, <2>1, <2>3 DEF set_connected, ConnectionInv, StateIsBehind, Shows
<1>11. CASE UNCHANGED vars
  BY <1>1, <1>11 DEF vars, ConnectionInv, StateIsBehind, ToldInOrder, LastShown, Shows
<1> QED
  BY <1>4, <1>5, <1>6, <1>7, <1>8, <1>9, <1>10, <1>11
     DEF Next, on_matched, on_unmatched, handle_match_change

(* Where Fast DDS runs one matched callback at a time: state_ says whether *)
(* any server is matched, and the tray shows the last change that it was   *)
(* told of, for any number of endpoints (handle_match_change).             *)
THEOREM OneCallbackAtATime ==
    ASSUME IsFiniteSet(Endpoints), NEW t, Threads = {t}
    PROVE  Spec => [](TypeOK /\ StateFollowsMatches /\ ShownIsLast)
<1>1. ConnectionInv => TypeOK /\ StateFollowsMatches /\ ShownIsLast
  <2> SUFFICES ASSUME ConnectionInv PROVE StateFollowsMatches /\ ShownIsLast
    BY DEF ConnectionInv
  <2>1. Quiet => StateIsBehind(Idle) /\ ToldInOrder(Idle)
    BY Zenon DEF ConnectionInv, Quiet
  <2>2. Quiet => Shows(state)
    BY <2>1 DEF StateIsBehind, Idle
  <2>3. Quiet /\ heard => (LastShown <=> state = "Connected")
    BY <2>1 DEF ToldInOrder, Idle
  <2> QED
    BY <2>2, <2>3 DEF StateFollowsMatches, ShownIsLast, Shows, LastShown
<1>2. Init => ConnectionInv
  BY ConnectionInit
<1>3. ConnectionInv /\ [Next]_vars => ConnectionInv'
  BY ConnectionStep
<1> QED
  BY <1>1, <1>2, <1>3, PTL DEF Spec
===========================================================================
