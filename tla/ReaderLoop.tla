----------------------------- MODULE ReaderLoop -----------------------------
(***************************************************************************)
(* How samples leave a DataReader: on_data_available() of a listener       *)
(* drains all there is and returns; the two script readers are polled by a *)
(* thread of their own.  Either must pass a sample that does not decode,   *)
(* without spinning for ever on a reader that fails whatever is queued.    *)
(*                                                                         *)
(* Of Fast DDS: a take that fails to decode consumes the sample, a take    *)
(* that fails for the reader's own reasons consumes nothing, an instance   *)
(* that ends is a sample without valid data, and the listener is called    *)
(* again for what arrives while it runs.                                   *)
(***************************************************************************)
EXTENDS Integers, Sequences, SequencesExt, TLAPS

CONSTANTS
    Polled,                   \* a polling thread or a listener
    MaxArrivals,              \* bound on the samples that arrive
    kMaxConsecutiveFailures   \* 64 in the code

LoopAssumption ==
    Polled \in BOOLEAN /\ MaxArrivals \in Nat /\ kMaxConsecutiveFailures \in Nat \ {0}

VARIABLES
    queue,       \* what the reader holds
    failing,     \* the reader fails whatever is queued
    notified,    \* a call of the listener is due
    running,     \* the loop runs
    consecutive_failures,
    sample,      \* the local that every take of a batch fills
    registered,  \* a handler is set
    arrived,     \* history: every sample, in order
    handled,     \* history: what was given to the handler
    dropped,     \* history: what was taken when there was no handler
    abandoned    \* history: the last batch ended with the queue not empty

vars == <<queue, failing, notified, running, consecutive_failures, sample,
          registered, arrived, handled, dropped, abandoned>>

Kinds == {"valid", "malformed", "ended"}
Sample == [kind : Kinds, number : 1 .. MaxArrivals]
NoSample == [kind |-> "none", number |-> 0]
Valid(s) == s.kind = "valid"

Init ==
    /\ queue = <<>> /\ failing = FALSE
    /\ notified = FALSE /\ running = Polled
    /\ consecutive_failures = 0
    /\ sample = NoSample
    /\ registered = FALSE
    /\ arrived = <<>> /\ handled = <<>> /\ dropped = <<>>
    /\ abandoned = FALSE

arrive(kind) ==
    /\ Len(arrived) < MaxArrivals
    /\ LET s == [kind |-> kind, number |-> Len(arrived) + 1]
       IN queue' = Append(queue, s) /\ arrived' = Append(arrived, s)
    /\ notified' = ~Polled
    /\ UNCHANGED <<failing, running, consecutive_failures, sample, registered, handled, dropped, abandoned>>

reader_fails ==
    /\ failing' = ~failing
    /\ UNCHANGED <<queue, notified, running, consecutive_failures, sample, registered,
                   arrived, handled, dropped, abandoned>>

register_handler ==
    /\ ~registered /\ registered' = TRUE
    /\ UNCHANGED <<queue, failing, notified, running, consecutive_failures, sample,
                   arrived, handled, dropped, abandoned>>

on_data_available ==
    /\ ~Polled /\ notified /\ ~running
    /\ notified' = FALSE /\ running' = TRUE
    /\ consecutive_failures' = 0
    /\ sample' = NoSample
    /\ abandoned' = FALSE
    /\ UNCHANGED <<queue, failing, registered, arrived, handled, dropped>>

(* RETCODE_NO_DATA ends a batch; the polling thread sleeps. *)
take_no_data ==
    /\ running /\ ~failing /\ queue = <<>>
    /\ running' = Polled
    /\ consecutive_failures' = 0
    /\ UNCHANGED <<queue, failing, notified, sample, registered, arrived, handled, dropped, abandoned>>

Consumed == IF failing THEN queue ELSE Tail(queue)
CanFail == running /\ (failing \/ (queue # <<>> /\ Head(queue).kind = "malformed"))

(* Slips: break instead of continue; a polling thread that gives up; no    *)
(* cap at all; a cap one too late.                                         *)
BreakOnFailure ==
    /\ CanFail
    /\ queue' = Consumed
    /\ running' = Polled
    /\ abandoned' = FALSE
    /\ UNCHANGED <<failing, notified, consecutive_failures, sample, registered, arrived, handled, dropped>>
GiveUpPolling ==
    /\ CanFail
    /\ queue' = Consumed
    /\ running' = FALSE
    /\ UNCHANGED <<failing, notified, consecutive_failures, sample, registered, arrived,
                   handled, dropped, abandoned>>
NoCap ==
    /\ CanFail
    /\ queue' = Consumed
    /\ UNCHANGED <<failing, notified, running, consecutive_failures, sample, registered,
                   arrived, handled, dropped, abandoned>>

CapTooLate ==
    /\ CanFail
    /\ queue' = Consumed
    /\ IF consecutive_failures >= kMaxConsecutiveFailures
       THEN running' = Polled /\ consecutive_failures' = 0
       ELSE consecutive_failures' = consecutive_failures + 1 /\ UNCHANGED running
    /\ UNCHANGED <<failing, notified, sample, registered, arrived, handled, dropped, abandoned>>

(* Any other code: go on, up to the cap.  There the listener abandons its  *)
(* batch and the polling thread counts anew.                               *)
take_fails ==
    /\ CanFail
    /\ queue' = Consumed
    /\ IF consecutive_failures + 1 >= kMaxConsecutiveFailures
       THEN /\ running' = Polled
            /\ consecutive_failures' = 0
            /\ abandoned' = (~Polled /\ queue' # <<>>)
       ELSE /\ consecutive_failures' = consecutive_failures + 1
            /\ UNCHANGED <<running, abandoned>>
    /\ UNCHANGED <<failing, notified, sample, registered, arrived, handled, dropped>>

(* The polling thread has a new local for every take; a sample without     *)
(* valid data leaves it as it was.                                         *)
Filled(s) == IF Valid(s) THEN s ELSE IF Polled THEN NoSample ELSE sample

(* The handler is copied under its mutex and called, if there is one. *)
Handle(s) ==
    IF registered THEN handled' = Append(handled, s) /\ UNCHANGED dropped
                  ELSE dropped' = Append(dropped, s) /\ UNCHANGED handled

(* A slip: info.valid_data is not looked at. *)
TakeInvalidToo ==
    /\ running /\ ~failing /\ queue # <<>> /\ Head(queue).kind # "malformed"
    /\ queue' = Tail(queue)
    /\ consecutive_failures' = 0
    /\ sample' = Filled(Head(queue))
    /\ Handle(sample')
    /\ UNCHANGED <<failing, notified, running, registered, arrived, abandoned>>

(* RETCODE_OK. *)
take_ok ==
    /\ running /\ ~failing /\ queue # <<>> /\ Head(queue).kind # "malformed"
    /\ queue' = Tail(queue)
    /\ consecutive_failures' = 0
    /\ sample' = Filled(Head(queue))
    /\ IF Valid(Head(queue)) THEN Handle(sample') ELSE UNCHANGED <<handled, dropped>>
    /\ UNCHANGED <<failing, notified, running, registered, arrived, abandoned>>

Loop == on_data_available \/ take_no_data \/ take_fails \/ take_ok

Next ==
    \/ \E kind \in Kinds : arrive(kind)
    \/ reader_fails
    \/ register_handler
    \/ Loop

(* The threads run; nothing is assumed of what arrives, of failures or of  *)
(* the application.                                                        *)
Fairness == WF_vars(Loop)

Spec == Init /\ [][Next]_vars
FairSpec == Spec /\ Fairness

-----------------------------------------------------------------------------
(* Every variable has its type, and a loop never counts past its cap. *)
TypeOK ==
    /\ queue \in Seq(Sample) /\ arrived \in Seq(Sample) /\ handled \in Seq(Sample)
    /\ dropped \in Seq(Sample)
    /\ failing \in BOOLEAN /\ notified \in BOOLEAN /\ running \in BOOLEAN
    /\ registered \in BOOLEAN /\ abandoned \in BOOLEAN
    /\ consecutive_failures \in 0 .. kMaxConsecutiveFailures - 1
    /\ sample \in Sample \cup {NoSample}

(* Every well-formed sample is handled once, in order, whatever malformed  *)
(* samples, ended instances and failures lie between; only those that were *)
(* taken before there was a handler are dropped.                           *)
Taken == dropped \o handled
HandledInOrder ==
    /\ \A i \in DOMAIN Taken :
          /\ Taken[i].number \in DOMAIN arrived /\ Taken[i] = arrived[Taken[i].number]
          /\ Valid(Taken[i])
          /\ \A j \in DOMAIN Taken : i < j => Taken[i].number < Taken[j].number
          /\ \A j \in DOMAIN queue : Taken[i].number < queue[j].number
    /\ \A n \in DOMAIN arrived : Valid(arrived[n]) => arrived[n] \in ToSet(Taken) \cup ToSet(queue)

(* Nothing well-formed is left waiting once traffic ends and the reader    *)
(* works, unless a listener met 64 failures in a row: then the rest waits  *)
(* for the next sample to arrive.                                          *)
NothingIsWedged == <>[]~failing => <>[](queue = <<>> \/ abandoned)

(* A listener's thread always returns from its batch, even if the reader   *)
(* fails for ever (no spinning at 100% CPU).                               *)
BatchesEnd == (running /\ ~Polled) ~> ~running

-----------------------------------------------------------------------------
(* The queue is what arrived last, and what came before it was taken.      *)
Gone == Len(arrived) - Len(queue)

QueueFits ==
    /\ Gone \in Nat
    /\ \A n \in DOMAIN arrived : arrived[n].number = n
    /\ \A i \in DOMAIN queue : queue[i] = arrived[Gone + i]

TakenFit ==
    /\ \A i \in DOMAIN Taken :
          /\ Taken[i].number \in 1 .. Gone /\ Taken[i] = arrived[Taken[i].number]
          /\ Valid(Taken[i])
          /\ \A j \in DOMAIN Taken : i < j => Taken[i].number < Taken[j].number
    /\ \A n \in 1 .. Gone : Valid(arrived[n]) => \E i \in DOMAIN Taken : Taken[i] = arrived[n]

LoopInv == TypeOK /\ (handled # <<>> => registered) /\ QueueFits /\ TakenFit

LEMMA LoopInit == LoopAssumption /\ Init => LoopInv
<1> SUFFICES ASSUME LoopAssumption, Init PROVE LoopInv
  OBVIOUS
<1>1. <<>> \in Seq(Sample) /\ 0 \in 0 .. kMaxConsecutiveFailures - 1 /\ Polled \in BOOLEAN
  BY DEF LoopAssumption
<1>2. TypeOK
  BY <1>1, Zenon DEF Init, TypeOK
<1>3. QueueFits
  BY DEF Init, QueueFits, Gone
<1>4. Taken = <<>> /\ Gone = 0
  BY DEF Init, Taken, Gone
<1>5. TakenFit
  BY <1>4 DEF TakenFit
<1> QED
  BY <1>2, <1>3, <1>5 DEF LoopInv, Init

LEMMA ConcatAppend ==
    ASSUME NEW S, NEW x \in Seq(S), NEW y \in Seq(S), NEW e \in S
    PROVE  x \o Append(y, e) = Append(x \o y, e)
<1> DEFINE left == x \o Append(y, e)
           right == Append(x \o y, e)
<1>1. left \in Seq(S) /\ right \in Seq(S) /\ Len(left) = Len(right)
  OBVIOUS
<1>2. ASSUME NEW i \in 1 .. Len(left) PROVE left[i] = right[i]
  <2>1. CASE i <= Len(x)
    BY <2>1
  <2>2. CASE Len(x) < i /\ i <= Len(x) + Len(y)
    <3>1. i - Len(x) \in 1 .. Len(y)
      BY <2>2
    <3>2. left[i] = y[i - Len(x)] /\ (x \o y)[i] = y[i - Len(x)]
      BY <2>2, <3>1
    <3> QED
      BY <2>2, <3>2
  <2>3. CASE i = Len(x) + Len(y) + 1
    <3>1. i - Len(x) = Len(y) + 1
      BY <2>3
    <3> QED
      BY <2>3, <3>1
  <2> QED
    BY <1>1, <2>1, <2>2, <2>3
<1> HIDE DEF left, right
<1>3. left = right
  BY <1>1, <1>2
<1> QED
  BY <1>3 DEF left, right

(* A sample is given to the handler, or there is none yet.                 *)
LEMMA OneMoreTaken ==
    ASSUME LoopInv, NEW s \in Sample, Handle(s)
    PROVE  /\ Taken \in Seq(Sample) /\ Taken' = Append(Taken, s)
           /\ dropped' \in Seq(Sample) /\ handled' \in Seq(Sample)
           /\ handled' # <<>> => registered
<1> USE DEF LoopInv, TypeOK, Taken
<1>1. CASE registered
  <2>1. handled' = Append(handled, s) /\ dropped' = dropped
    BY <1>1 DEF Handle
  <2>2. dropped \o Append(handled, s) = Append(dropped \o handled, s)
    BY ConcatAppend
  <2> QED
    BY <1>1, <2>1, <2>2
<1>2. CASE ~registered
  <2>1. handled = <<>> /\ handled' = <<>> /\ dropped' = Append(dropped, s)
    BY <1>2 DEF Handle
  <2> QED
    BY <1>2, <2>1
<1> QED
  BY <1>1, <1>2

(* The head of the queue is consumed: its place is the next one.           *)
LEMMA HeadIsNext ==
    ASSUME LoopInv, queue # <<>>, queue' = Tail(queue), arrived' = arrived
    PROVE  /\ Gone' = Gone + 1 /\ Gone + 1 \in DOMAIN arrived
           /\ Head(queue) = arrived[Gone + 1] /\ Head(queue) \in Sample
           /\ queue' \in Seq(Sample) /\ QueueFits'
<1> USE DEF LoopInv, TypeOK
<1>1. /\ Len(queue) \in Nat \ {0} /\ Len(arrived) \in Nat /\ Len(queue') = Len(queue) - 1
      /\ Gone \in Nat /\ queue' \in Seq(Sample)
  BY DEF QueueFits
<1>2. Gone' = Gone + 1 /\ Gone + 1 \in DOMAIN arrived
  BY <1>1 DEF Gone
<1>3. Head(queue) = arrived[Gone + 1] /\ Head(queue) \in Sample
  <2>1. 1 \in DOMAIN queue /\ Head(queue) = queue[1] /\ queue[1] \in Sample
    BY <1>1
  <2> QED
    BY <2>1 DEF QueueFits
<1>4. ASSUME NEW i \in DOMAIN queue' PROVE queue'[i] = arrived[Gone' + i]
  <2>1. i \in 1 .. Len(queue) - 1
    BY <1>1
  <2>2. queue'[i] = queue[i + 1] /\ i + 1 \in DOMAIN queue
    BY <1>1, <2>1
  <2>3. Gone' + i = Gone + (i + 1)
    BY <1>1, <1>2, <2>1
  <2> QED
    BY <2>2, <2>3 DEF QueueFits
<1> QED
  BY <1>1, <1>2, <1>3, <1>4 DEF QueueFits

LEMMA TakenGrows ==
    ASSUME LoopInv, queue # <<>>, queue' = Tail(queue), arrived' = arrived,
           Taken \in Seq(Sample),
           IF Valid(Head(queue)) THEN Taken' = Append(Taken, Head(queue)) ELSE Taken' = Taken
    PROVE  TakenFit'
<1> USE DEF LoopInv, TypeOK
<1>1. /\ Gone' = Gone + 1 /\ Gone \in Nat /\ Head(queue) \in Sample
      /\ Head(queue) = arrived[Gone + 1] /\ arrived[Gone + 1].number = Gone + 1
  BY HeadIsNext DEF QueueFits
<1>2. CASE ~Valid(Head(queue))
  <2>1. \A n \in 1 .. Gone' : n \in 1 .. Gone \/ n = Gone + 1
    BY <1>1
  <2>2. 1 .. Gone \subseteq 1 .. Gone' /\ Taken' = Taken /\ ~Valid(arrived[Gone + 1])
    BY <1>1, <1>2
  <2> QED
    BY <2>1, <2>2, Zenon DEF TakenFit
<1>3. CASE Valid(Head(queue))
  <2> DEFINE last == Len(Taken) + 1
  <2>1. /\ Len(Taken) \in Nat /\ DOMAIN Taken = 1 .. Len(Taken) /\ DOMAIN Taken' = 1 .. last
        /\ \A i \in 1 .. Len(Taken) : Taken'[i] = Taken[i]
        /\ Taken'[last] = Head(queue)
    <3>1. Taken' = Append(Taken, Head(queue))
      BY <1>3
    <3> QED
      BY <1>1, <3>1
  <2>2. ASSUME NEW i \in DOMAIN Taken'
        PROVE  /\ Taken'[i].number \in 1 .. Gone' /\ Taken'[i] = arrived[Taken'[i].number]
               /\ Valid(Taken'[i])
    <3>1. CASE i = last
      <4>1. Gone + 1 \in 1 .. Gone'
        BY <1>1
      <4>2. Taken'[i] = arrived[Gone + 1] /\ Taken'[i].number = Gone + 1
        BY <1>1, <2>1, <3>1, Zenon
      <4> QED
        BY <1>1, <1>3, <4>1, <4>2, Zenon
    <3>2. CASE i # last
      <4>1. i \in DOMAIN Taken /\ Taken'[i] = Taken[i]
        BY <2>1, <3>2
      <4> QED
        <5>1. Taken[i].number \in 1 .. Gone /\ Taken[i] = arrived[Taken[i].number] /\ Valid(Taken[i])
          BY <4>1, Zenon DEF TakenFit
        <5>2. Taken[i].number \in 1 .. Gone'
          BY <1>1, <5>1
        <5> QED
          BY <4>1, <5>1, <5>2
    <3> QED
      BY <3>1, <3>2
  <2>3. ASSUME NEW i \in DOMAIN Taken', NEW j \in DOMAIN Taken', i < j
        PROVE  Taken'[i].number < Taken'[j].number
    <3>1. i \in DOMAIN Taken /\ Taken'[i] = Taken[i] /\ Taken[i].number \in 1 .. Gone
      BY <2>1, <2>3 DEF TakenFit
    <3>2. CASE j = last
      BY <1>1, <2>1, <3>1, <3>2
    <3>3. CASE j # last
      <4>1. j \in DOMAIN Taken /\ Taken'[j] = Taken[j]
        <5>1. \A k, n \in Nat : k \in 1 .. n + 1 /\ k # n + 1 => k \in 1 .. n
          OBVIOUS
        <5>2. j \in 1 .. Len(Taken) + 1 /\ j \in Nat /\ j # Len(Taken) + 1
          BY <2>1, <3>3
        <5> QED
          BY <2>1, <5>1, <5>2
      <4> QED
        <5>1. Taken[i].number < Taken[j].number
          BY <2>3, <3>1, <4>1, Zenon DEF TakenFit
        <5> QED
          BY <3>1, <4>1, <5>1
    <3> QED
      BY <3>2, <3>3
  <2>4. ASSUME NEW n \in 1 .. Gone', Valid(arrived[n])
        PROVE  \E i \in DOMAIN Taken' : Taken'[i] = arrived[n]
    <3>1. CASE n = Gone + 1
      <4>1. last \in DOMAIN Taken' /\ Taken'[last] = arrived[n]
        BY <1>1, <2>1, <3>1
      <4> QED
        BY <4>1
    <3>2. CASE n # Gone + 1
      <4>1. PICK i \in DOMAIN Taken : Taken[i] = arrived[n]
        BY <1>1, <2>4, <3>2 DEF TakenFit
      <4> QED
        BY <2>1, <4>1
    <3> QED
      BY <3>1, <3>2
  <2> QED
    BY <2>2, <2>3, <2>4 DEF TakenFit
<1> QED
  BY <1>2, <1>3

LEMMA LoopStep == LoopAssumption /\ LoopInv /\ [Next]_vars => LoopInv'
<1> SUFFICES ASSUME LoopAssumption, LoopInv, [Next]_vars PROVE LoopInv'
  OBVIOUS
<1> USE DEF LoopInv
<1>1. Polled \in BOOLEAN /\ kMaxConsecutiveFailures \in Nat \ {0} /\ MaxArrivals \in Nat
  BY DEF LoopAssumption
<1>2. ASSUME NEW kind \in Kinds, arrive(kind) PROVE LoopInv'
  <2> DEFINE s == [kind |-> kind, number |-> Len(arrived) + 1]
  <2>1. /\ queue' = Append(queue, s) /\ arrived' = Append(arrived, s) /\ s \in Sample
        /\ Taken' = Taken /\ registered' = registered /\ handled' = handled
    BY <1>1, <1>2 DEF arrive, Sample, TypeOK, Taken
  <2>2. TypeOK'
    <3>1. queue' \in Seq(Sample) /\ arrived' \in Seq(Sample)
      BY <2>1 DEF TypeOK
    <3>2. notified' \in BOOLEAN
      BY <1>1, <1>2, Zenon DEF arrive
    <3> QED
      BY <1>2, <3>1, <3>2, Zenon DEF arrive, TypeOK
  <2>3. Gone' = Gone /\ Gone \in Nat
    BY <2>1 DEF Gone, TypeOK, QueueFits
  <2>4. /\ DOMAIN arrived \subseteq DOMAIN arrived' /\ 1 .. Gone \subseteq DOMAIN arrived
        /\ \A n \in DOMAIN arrived : arrived'[n] = arrived[n]
    BY <2>1, <2>3 DEF Gone, TypeOK
  <2>5. QueueFits'
    <3>1. ASSUME NEW n \in DOMAIN arrived' PROVE arrived'[n].number = n
      <4>1. CASE n \in DOMAIN arrived
        BY <2>4, <4>1 DEF QueueFits
      <4>2. CASE n \notin DOMAIN arrived
        <5>1. n = Len(arrived) + 1 /\ arrived'[n] = s
          BY <2>1, <4>2 DEF TypeOK
        <5> QED
          BY <5>1
      <4> QED
        BY <4>1, <4>2
    <3>2. ASSUME NEW i \in DOMAIN queue' PROVE queue'[i] = arrived'[Gone + i]
      <4>1. CASE i \in DOMAIN queue
        <5>1. queue'[i] = queue[i] /\ Gone + i \in DOMAIN arrived
          BY <2>1, <2>3, <4>1 DEF Gone, TypeOK
        <5> QED
          BY <2>4, <4>1, <5>1 DEF QueueFits
      <4>2. CASE i \notin DOMAIN queue
        <5>1. i = Len(queue) + 1 /\ Gone + i = Len(arrived) + 1
          BY <2>1, <2>3, <4>2 DEF Gone, TypeOK
        <5> QED
          BY <2>1, <5>1 DEF TypeOK
      <4> QED
        BY <4>1, <4>2
    <3> QED
      BY <2>3, <3>1, <3>2 DEF QueueFits
  <2>6. TakenFit'
    <3>1. \A n \in 1 .. Gone : arrived'[n] = arrived[n]
      BY <2>4
    <3>2. ASSUME NEW i \in DOMAIN Taken
          PROVE  /\ Taken[i].number \in 1 .. Gone /\ Taken[i] = arrived'[Taken[i].number]
                 /\ Valid(Taken[i])
                 /\ \A j \in DOMAIN Taken : i < j => Taken[i].number < Taken[j].number
      BY <3>1, Zenon DEF TakenFit
    <3>3. ASSUME NEW n \in 1 .. Gone, Valid(arrived'[n])
          PROVE  \E i \in DOMAIN Taken : Taken[i] = arrived'[n]
      BY <3>1, <3>3, Zenon DEF TakenFit
    <3> QED
      BY <2>1, <2>3, <3>2, <3>3, Zenon DEF TakenFit
  <2> QED
    BY <2>1, <2>2, <2>5, <2>6
<1>3. CASE reader_fails \/ register_handler \/ on_data_available \/ take_no_data
  <2>1. /\ UNCHANGED <<queue, arrived, handled, dropped>>
        /\ registered' \in {registered, TRUE}
    BY <1>3 DEF reader_fails, register_handler, on_data_available, take_no_data
  <2>2. TypeOK'
    <3>1. CASE reader_fails
      BY <3>1, Zenon DEF reader_fails, TypeOK
    <3>2. CASE register_handler
      BY <3>2, Zenon DEF register_handler, TypeOK
    <3>3. consecutive_failures' \in 0 .. kMaxConsecutiveFailures - 1
      BY <1>1, <1>3 DEF reader_fails, register_handler, on_data_available, take_no_data, TypeOK
    <3>4. CASE on_data_available
      BY <3>3, <3>4, Zenon DEF on_data_available, TypeOK
    <3>5. CASE take_no_data
      BY <1>1, <3>3, <3>5, Zenon DEF take_no_data, TypeOK
    <3> QED
      BY <1>3, <3>1, <3>2, <3>4, <3>5
  <2>3. QueueFits' /\ TakenFit'
    BY <2>1 DEF QueueFits, TakenFit, Gone, Taken
  <2> QED
    BY <2>1, <2>2, <2>3
<1>4. CASE take_fails
  <2>1. /\ UNCHANGED <<failing, notified, sample, registered, arrived, handled, dropped>>
        /\ Taken' = Taken /\ queue' = Consumed
    BY <1>4 DEF take_fails, Taken
  <2>2. consecutive_failures' \in 0 .. kMaxConsecutiveFailures - 1
    BY <1>1, <1>4 DEF take_fails, TypeOK
  <2>3. running' \in BOOLEAN /\ abandoned' \in BOOLEAN
    BY <1>1, <1>4, Zenon DEF take_fails, TypeOK
  <2>4. CASE failing
    <3>1. queue' = queue
      BY <2>1, <2>4 DEF Consumed
    <3> QED
      BY <2>1, <2>2, <2>3, <3>1 DEF TypeOK, QueueFits, TakenFit, Gone
  <2>5. CASE ~failing
    <3>1. queue # <<>> /\ queue' = Tail(queue) /\ ~Valid(Head(queue))
      BY <1>4, <2>1, <2>5 DEF take_fails, CanFail, Consumed, Valid
    <3>2. queue' \in Seq(Sample) /\ QueueFits'
      BY <2>1, <3>1, HeadIsNext
    <3>3. Taken \in Seq(Sample)
      BY DEF Taken, TypeOK
    <3>4. TakenFit'
      BY <2>1, <3>1, <3>3, TakenGrows
    <3>5. TypeOK'
      BY <2>1, <2>2, <2>3, <3>2, Zenon DEF TypeOK
    <3> QED
      BY <2>1, <3>2, <3>4, <3>5
  <2> QED
    BY <2>4, <2>5
<1>5. CASE take_ok
  <2>1. /\ queue # <<>> /\ queue' = Tail(queue) /\ consecutive_failures' = 0
        /\ UNCHANGED <<failing, notified, running, registered, arrived, abandoned>>
        /\ sample' = Filled(Head(queue))
    BY <1>5 DEF take_ok
  <2>2. queue' \in Seq(Sample) /\ QueueFits' /\ Head(queue) \in Sample
    BY <2>1, HeadIsNext
  <2>3. sample' \in Sample \cup {NoSample}
    BY <2>1, <2>2 DEF Filled, TypeOK
  <2>4. 0 \in 0 .. kMaxConsecutiveFailures - 1
    BY <1>1
  <2>5. CASE Valid(Head(queue))
    <3>1. Handle(Head(queue))
      BY <1>5, <2>1, <2>5 DEF take_ok, Filled
    <3>2. /\ Taken \in Seq(Sample) /\ Taken' = Append(Taken, Head(queue))
          /\ dropped' \in Seq(Sample) /\ handled' \in Seq(Sample)
          /\ handled' # <<>> => registered
      BY <2>2, <3>1, OneMoreTaken
    <3>3. TakenFit'
      BY <2>1, <2>5, <3>2, TakenGrows
    <3>4. TypeOK'
      BY <2>1, <2>2, <2>3, <2>4, <3>2, Zenon DEF TypeOK
    <3> QED
      BY <2>1, <2>2, <3>2, <3>3, <3>4
  <2>6. CASE ~Valid(Head(queue))
    <3>1. UNCHANGED <<handled, dropped>>
      BY <1>5, <2>6 DEF take_ok
    <3>2. Taken \in Seq(Sample) /\ Taken' = Taken
      BY <3>1 DEF Taken, TypeOK
    <3>3. TakenFit'
      BY <2>1, <2>6, <3>2, TakenGrows
    <3>4. TypeOK'
      BY <2>1, <2>2, <2>3, <2>4, <3>1, Zenon DEF TypeOK
    <3> QED
      BY <2>1, <2>2, <3>1, <3>3, <3>4
  <2> QED
    BY <2>5, <2>6
<1>6. CASE UNCHANGED vars
  BY <1>6 DEF vars, TypeOK, QueueFits, TakenFit, Gone, Taken
<1> QED
  BY <1>2, <1>3, <1>4, <1>5, <1>6 DEF Next, Loop

(* However arrivals, failures, malformed samples and the registration of   *)
(* the handler interleave with a loop, of either kind and with any cap:    *)
(* the handler is given every well-formed sample once and in order         *)
(* (on_data_available, poll_script_commands).                              *)
THEOREM SamplesAreHandled ==
    ASSUME LoopAssumption
    PROVE  Spec => [](TypeOK /\ HandledInOrder)
<1>1. LoopInv => HandledInOrder
  <2> SUFFICES ASSUME LoopInv PROVE HandledInOrder
    OBVIOUS
  <2> USE DEF LoopInv
  <2>1. /\ Gone \in Nat /\ Gone = Len(arrived) - Len(queue) /\ DOMAIN queue = 1 .. Len(queue)
        /\ DOMAIN arrived = 1 .. Len(arrived) /\ Len(queue) \in Nat /\ Len(arrived) \in Nat
    BY DEF QueueFits, Gone, TypeOK
  <2>2. ASSUME NEW j \in DOMAIN queue
        PROVE  Gone + j \in DOMAIN arrived /\ queue[j].number = Gone + j
    <3>1. Gone + j \in DOMAIN arrived
      BY <2>1
    <3> QED
      BY <3>1 DEF QueueFits
  <2>3. ASSUME NEW i \in DOMAIN Taken
        PROVE  /\ Taken[i].number \in DOMAIN arrived
               /\ \A j \in DOMAIN queue : Taken[i].number < queue[j].number
    <3>1. Taken[i].number \in 1 .. Gone
      BY Zenon DEF TakenFit
    <3> QED
      BY <2>1, <2>2, <3>1
  <2>4. ASSUME NEW n \in DOMAIN arrived, Valid(arrived[n])
        PROVE  arrived[n] \in ToSet(Taken) \cup ToSet(queue)
    <3>1. CASE n \in 1 .. Gone
      BY <2>4, <3>1, Zenon DEF TakenFit, ToSet
    <3>2. CASE n \notin 1 .. Gone
      <4>1. n - Gone \in DOMAIN queue /\ Gone + (n - Gone) = n
        BY <2>1, <3>2
      <4>2. queue[n - Gone] = arrived[n]
        BY <4>1 DEF QueueFits
      <4> QED
        BY <4>1, <4>2 DEF ToSet
    <3> QED
      BY <3>1, <3>2
  <2> QED
    BY <2>3, <2>4, Zenon DEF TakenFit, HandledInOrder
<1>2. LoopInv => TypeOK
  BY DEF LoopInv
<1>3. Init => LoopInv
  BY LoopInit
<1>4. LoopInv /\ [Next]_vars => LoopInv'
  BY LoopStep
<1> QED
  BY <1>1, <1>2, <1>3, <1>4, PTL DEF Spec
=============================================================================
