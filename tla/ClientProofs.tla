---------------------------- MODULE ClientProofs ----------------------------
(***************************************************************************)
(* What MCClient checks of the client on small instances, for every value  *)
(* of its constants: of the script runner, of the network adapters, of the *)
(* look at a topic, of a tick's verdicts and of the messages on the wire.  *)
(* Each has its inductive invariant; of the composition a proof uses only  *)
(* that one part moves at a time.                                          *)
(***************************************************************************)
EXTENDS MCClient, FiniteSetTheorems, SequenceTheorems, WellFoundedInduction, TLAPS

-----------------------------------------------------------------------------
(* ScriptRunner.  What parse_reported_result() makes of output that grows  *)
(* at its end, or loses its first chunk.                                   *)

Parsed(output) == Runner!parse_reported_result(output)
Verdicts(output) == {i \in DOMAIN output : output[i] \in Runner!Verdict}

LEMMA NoneIsNoVerdict == "none" \notin Runner!Verdict /\ Runner!Verdict \subseteq Runner!Chunk
  BY DEF Runner!Verdict, Runner!Chunk

(* The last verdict is there if there is any. *)
LEMMA LastIsThere ==
    ASSUME NEW output \in Seq(Runner!Chunk), Verdicts(output) # {}
    PROVE  \E last \in Verdicts(output) : \A i \in Verdicts(output) : i <= last
<1> DEFINE behind == {n \in Nat : Len(output) - n \in Verdicts(output)}
<1>1. Len(output) \in Nat /\ \A i \in Verdicts(output) : i \in 1 .. Len(output)
  BY DEF Verdicts
<1>2. behind # {}
  <2>1. PICK i \in Verdicts(output) : TRUE
    OBVIOUS
  <2>2. i \in 1 .. Len(output)
    BY <1>1
  <2>3. Len(output) - i \in Nat /\ Len(output) - (Len(output) - i) = i
    BY <1>1, <2>2
  <2> QED
    BY <2>3
<1>3. PICK m \in behind : \A n \in behind : ~(<<n, m>> \in OpToRel(<, Nat))
  BY <1>2, WFMin, NatLessThanWellFounded
<1>4. ASSUME NEW i \in Verdicts(output) PROVE i <= Len(output) - m
  <2>1. i \in 1 .. Len(output) /\ m \in Nat
    BY <1>1
  <2> DEFINE n == Len(output) - i
  <2>2. n \in Nat /\ Len(output) - n = i
    BY <1>1, <2>1
  <2>3. n \in behind
    BY <2>2
  <2> HIDE DEF n, behind
  <2>4. ~(n < m)
    BY <1>3, <2>1, <2>2, <2>3 DEF OpToRel
  <2> QED
    BY <1>1, <2>1, <2>2, <2>4
<1> QED
  BY <1>3, <1>4

LEMMA ParsedIsLast ==
    ASSUME NEW output \in Seq(Runner!Chunk)
    PROVE  /\ Verdicts(output) = {} <=> Parsed(output) = "none"
           /\ \A last \in Verdicts(output) :
                 (\A i \in Verdicts(output) : i <= last) => Parsed(output) = output[last]
<1>1. Verdicts(output) \subseteq 1 .. Len(output) /\ Len(output) \in Nat
  BY DEF Verdicts
<1>2. ASSUME NEW last \in Verdicts(output), \A i \in Verdicts(output) : i <= last
      PROVE  Runner!Max(Verdicts(output)) = last
  <2>1. \A m \in Verdicts(output) : (\A i \in Verdicts(output) : m >= i) => m = last
    BY <1>1, <1>2
  <2>2. \A i \in Verdicts(output) : last >= i
    BY <1>1, <1>2
  <2> QED
    BY <2>1, <2>2 DEF Runner!Max
<1>3. Parsed(output) = IF Verdicts(output) = {} THEN "none" ELSE output[Runner!Max(Verdicts(output))]
  BY DEF Parsed, Verdicts, Runner!parse_reported_result
<1>4. Verdicts(output) # {} => Parsed(output) # "none"
  BY <1>2, <1>3, LastIsThere, NoneIsNoVerdict DEF Verdicts
<1> QED
  BY <1>2, <1>3, <1>4

LEMMA ParsedAppend ==
    ASSUME NEW output \in Seq(Runner!Chunk), NEW chunk \in Runner!Chunk
    PROVE  /\ Append(output, chunk) \in Seq(Runner!Chunk)
           /\ Parsed(Append(output, chunk))
                = IF chunk \in Runner!Verdict THEN chunk ELSE Parsed(output)
<1> DEFINE longer == Append(output, chunk)
           end == Len(output) + 1
<1>1. /\ longer \in Seq(Runner!Chunk) /\ DOMAIN longer = 1 .. end /\ Len(output) \in Nat
      /\ DOMAIN output = 1 .. Len(output)
      /\ \A i \in DOMAIN output : longer[i] = output[i]
      /\ longer[end] = chunk
  BY AppendProperties
<1> HIDE DEF longer
<1>2. Verdicts(longer) = Verdicts(output) \cup (IF chunk \in Runner!Verdict THEN {end} ELSE {})
  BY <1>1 DEF Verdicts
<1>3. Verdicts(output) \subseteq 1 .. Len(output)
  BY <1>1 DEF Verdicts
<1>4. CASE chunk \in Runner!Verdict
  <2>1. end \in Verdicts(longer) /\ \A i \in Verdicts(longer) : i <= end
    BY <1>1, <1>2, <1>3, <1>4
  <2> QED
    BY <1>1, <1>4, <2>1, ParsedIsLast DEF longer
<1>5. CASE chunk \notin Runner!Verdict /\ Verdicts(output) = {}
  BY <1>1, <1>2, <1>5, ParsedIsLast DEF longer
<1>6. CASE chunk \notin Runner!Verdict /\ Verdicts(output) # {}
  <2>1. PICK last \in Verdicts(output) : \A i \in Verdicts(output) : i <= last
    BY <1>6, LastIsThere
  <2>2. longer[last] = output[last] /\ Verdicts(longer) = Verdicts(output)
    BY <1>1, <1>2, <1>3, <1>6
  <2>3. Parsed(output) = output[last] /\ Parsed(longer) = longer[last]
    BY <1>1, <2>1, <2>2, ParsedIsLast
  <2> QED
    BY <1>1, <1>6, <2>2, <2>3 DEF longer
<1> QED BY <1>4, <1>5, <1>6

LEMMA ParsedTail ==
    ASSUME NEW output \in Seq(Runner!Chunk), output # <<>>
    PROVE  /\ Head(output) \in Runner!Chunk /\ Tail(output) \in Seq(Runner!Chunk)
           /\ Len(Tail(output)) = Len(output) - 1
           /\ Parsed(output) = IF Parsed(Tail(output)) # "none" THEN Parsed(Tail(output))
                               ELSE IF Head(output) \in Runner!Verdict THEN Head(output)
                               ELSE "none"
<1> DEFINE rest == Tail(output)
<1>1. /\ rest \in Seq(Runner!Chunk) /\ Len(output) \in Nat \ {0} /\ Len(rest) = Len(output) - 1
      /\ DOMAIN output = 1 .. Len(output) /\ DOMAIN rest = 1 .. Len(rest)
      /\ \A i \in 1 .. Len(rest) : rest[i] = output[i + 1]
      /\ Head(output) = output[1] /\ Head(output) \in Runner!Chunk
  BY HeadTailProperties, EmptySeq, LenProperties
<1> HIDE DEF rest
<1>2. /\ \A i \in Verdicts(rest) : i + 1 \in Verdicts(output)
      /\ \A i \in Verdicts(output) : i = 1 \/ i - 1 \in Verdicts(rest)
      /\ 1 \in Verdicts(output) <=> Head(output) \in Runner!Verdict
      /\ Verdicts(rest) \subseteq 1 .. Len(rest) /\ Verdicts(output) \subseteq 1 .. Len(output)
  BY <1>1 DEF Verdicts
<1>3. CASE Verdicts(rest) # {}
  <2>1. PICK last \in Verdicts(rest) : \A i \in Verdicts(rest) : i <= last
    BY <1>1, <1>3, LastIsThere
  <2>2. last + 1 \in Verdicts(output) /\ \A i \in Verdicts(output) : i <= last + 1
    BY <1>1, <1>2, <2>1
  <2>3. rest[last] = output[last + 1] /\ Parsed(rest) = rest[last] /\ Parsed(rest) # "none"
    BY <1>1, <1>2, <1>3, <2>1, ParsedIsLast
  <2> QED
    BY <1>1, <2>2, <2>3, ParsedIsLast DEF rest
<1>4. CASE Verdicts(rest) = {} /\ Head(output) \in Runner!Verdict
  <2>1. 1 \in Verdicts(output) /\ \A i \in Verdicts(output) : i <= 1
    BY <1>2, <1>4
  <2> QED
    BY <1>1, <1>4, <2>1, ParsedIsLast DEF rest
<1>5. CASE Verdicts(rest) = {} /\ Head(output) \notin Runner!Verdict
  BY <1>1, <1>2, <1>5, ParsedIsLast DEF rest
<1> QED BY <1>1, <1>3, <1>4, <1>5 DEF rest

(* Where run() is says what there is of the shell, of the files and of the *)
(* readers: a reader that has ended leaves no verdict in its pipe, since   *)
(* the shell is gone by then.                                              *)

Started == {"spawned", "closed", "drained"}
Unstarted == {"begin", "file", "pipes"}
Joined == {"err", "joined"}

RunnerPlaces ==
    /\ step \in Unstarted \cup {"failed"} => shell = "none"
    /\ step \in Started => shell = "suspended"
    /\ step \in {"waiting", "waited"} => shell \in {"suspended", "alive", "dead"}
    /\ step = "waited" /\ ~tree_kill => shell = "dead"
    /\ step \in {"out"} \cup Joined => shell = "dead"
    /\ step = "returned" => shell = IF outcome.started THEN "dead" ELSE "none"
    /\ shell = "none" => ~tree_kill /\ descendant = "none"
    /\ step \in {"out", "returned"} \cup Joined /\ tree_kill => descendant # "alive"
    /\ own_ends => step \in {"pipes", "spawned", "failed"}
    /\ step = "returned" => ~file

RunnerOutcome ==
    /\ exited \in Runner!Codes => shell = "dead"
    /\ step = "waiting" /\ shell = "dead" => exited \in Runner!Codes
    /\ step \in {"waited", "out", "returned"} \cup Joined /\ outcome.started
          /\ ~outcome.timed_out => exited # "no"
    /\ step \in {"waited", "out", "returned"} \cup Joined /\ outcome.started
          /\ ~outcome.timed_out /\ outcome.exit_code = "zero" => exited = "zero"
    /\ ~outcome.started <=> step = "failed" \/ (step = "returned" /\ shell = "none")

RunnerReaders ==
    /\ drain["out"] # "none" => step \notin Unstarted \cup {"spawned", "closed", "failed"}
    /\ drain["out"] = "ended" => /\ shell \notin {"suspended", "alive"}
                                 /\ Parsed(pipe["out"]) = "none"
    /\ step \in Joined => drain["out"] = "ended"

(* Nothing is dropped if the cap of a stream holds all that is written.    *)
RunnerVerdict ==
    MaxWrites <= StreamCap =>
        /\ Len(text["out"]) + Len(pipe["out"]) <= writes
        /\ said = IF Parsed(pipe["out"]) # "none" THEN Parsed(pipe["out"]) ELSE Parsed(text["out"])
        /\ step = "returned" /\ exited \in Runner!Codes => outcome.reported = said

RunnerInv ==
    /\ Runner!TypeOK
    /\ DOMAIN pipe = Runner!Streams /\ DOMAIN text = Runner!Streams
    /\ RunnerPlaces /\ RunnerOutcome /\ RunnerReaders /\ RunnerVerdict

LEMMA RunnerMoves == [Next]_vars => Runner!Next \/ UNCHANGED runner
  BY Zenon DEF Next, vars

LEMMA ParsedNothing == <<>> \in Seq(Runner!Chunk) /\ Parsed(<<>>) = "none"
<1>1. <<>> \in Seq(Runner!Chunk) /\ Verdicts(<<>>) = {}
  BY DEF Verdicts
<1> QED
  BY <1>1, ParsedIsLast

LEMMA RunnerInit == Init => RunnerInv
<1> SUFFICES ASSUME Init PROVE RunnerInv
  OBVIOUS
<1> USE RunnerAssumption, ParsedNothing DEF Runner!Codes, Runner!RunnerAssumption
<1>1. Runner!Init
  BY DEF Init
<1>2. Runner!TypeOK
  <2>1. Runner!BuffersOK
    BY <1>1 DEF Runner!Init, Runner!BuffersOK
  <2>2. outcome \in Runner!Outcome /\ drain \in [Runner!Streams -> {"none", "between", "reading", "ended"}]
    BY <1>1 DEF Runner!Init, Runner!Outcome
  <2>3. own_ends \in BOOLEAN /\ file \in BOOLEAN /\ tree_kill \in BOOLEAN
    BY <1>1 DEF Runner!Init
  <2>4. /\ step = "begin" /\ shell = "none" /\ descendant = "none" /\ writes = 0 /\ said = "none"
        /\ exited = "no" /\ cancels = Attempts
    BY <1>1 DEF Runner!Init
  <2> QED
    BY <2>1, <2>2, <2>3, <2>4 DEF Runner!TypeOK, Runner!ControlOK, Runner!Place
<1>3. "out" \in Runner!Streams /\ pipe["out"] = <<>> /\ text["out"] = <<>> /\ drain["out"] = "none"
  BY <1>1 DEF Runner!Init, Runner!Streams
<1> QED
  BY <1>1, <1>2, <1>3
  DEF Runner!Init, RunnerInv, RunnerPlaces, RunnerOutcome, RunnerReaders, RunnerVerdict,
      Unstarted, Started, Joined

(* Up to the wait, and after it: what run() does without the readers.      *)
LEMMA RunnerKeepsText ==
    ASSUME RunnerInv, UNCHANGED <<writes, said, pipe, text>>,
           step' # "returned", Runner!ControlOK', RunnerPlaces', RunnerOutcome', RunnerReaders'
    PROVE  RunnerInv'
<1>1. Runner!BuffersOK'
  BY DEF RunnerInv, Runner!TypeOK, Runner!BuffersOK
<1> QED
  BY <1>1 DEF RunnerInv, RunnerVerdict, Runner!TypeOK

LEMMA RunnerStarts ==
    ASSUME RunnerInv,
           \/ Runner!write_temp_script \/ Runner!create_pipes \/ Runner!create_process
           \/ Runner!close_own_ends \/ Runner!start_drains \/ Runner!resume
    PROVE  RunnerInv'
<1> USE DEF Runner!Codes, Runner!script, Runner!drains
<1>0. Runner!ControlOK /\ RunnerPlaces /\ RunnerOutcome /\ RunnerReaders /\ Jobs \subseteq BOOLEAN
  BY RunnerAssumption DEF RunnerInv, Runner!TypeOK, Runner!RunnerAssumption
<1> DEFINE Rest == UNCHANGED <<writes, said, exited, pipe, text, cancels, descendant>>
<1>1. CASE Runner!could_not_start /\ step \in Unstarted
  <2>1. /\ step' = "failed" /\ Rest /\ UNCHANGED <<file, own_ends, tree_kill, shell, drain>>
        /\ outcome' = [outcome EXCEPT !.started = FALSE, !.exit_code = "nonzero"]
    BY <1>0, <1>1 DEF Runner!could_not_start
  <2>2. Runner!ControlOK'
    <3>1. outcome' \in Runner!Outcome
      BY <1>0, <2>1 DEF Runner!ControlOK, Runner!Outcome
    <3> QED
      BY <1>0, <2>1, <3>1 DEF Runner!ControlOK, Runner!Place
  <2>3. outcome'.started = FALSE
    BY <1>0, <2>1 DEF Runner!ControlOK, Runner!Outcome
  <2>4. RunnerPlaces' /\ RunnerOutcome' /\ RunnerReaders'
    BY <1>0, <1>1, <2>1, <2>3 DEF RunnerPlaces, RunnerOutcome, RunnerReaders, Unstarted, Started, Joined
  <2> QED
    BY <2>1, <2>2, <2>4, RunnerKeepsText
<1>2. CASE Runner!write_temp_script /\ ~Runner!could_not_start
  <2>1. Runner!ControlOK'
    BY <1>0, <1>2 DEF Runner!write_temp_script, Runner!ControlOK, Runner!Place
  <2>2. RunnerPlaces' /\ RunnerOutcome' /\ RunnerReaders' /\ step' # "returned"
        /\ UNCHANGED <<writes, said, pipe, text>>
    BY <1>0, <1>2 DEF Runner!write_temp_script, RunnerPlaces, RunnerOutcome, RunnerReaders, Unstarted,
       Started, Joined
  <2> QED
    BY <2>1, <2>2, RunnerKeepsText
<1>3. CASE Runner!create_pipes /\ ~Runner!could_not_start
  <2>1. Runner!ControlOK'
    BY <1>0, <1>3 DEF Runner!create_pipes, Runner!ControlOK, Runner!Place
  <2>2. RunnerPlaces' /\ RunnerOutcome' /\ RunnerReaders' /\ step' # "returned"
        /\ UNCHANGED <<writes, said, pipe, text>>
    BY <1>0, <1>3 DEF Runner!create_pipes, RunnerPlaces, RunnerOutcome, RunnerReaders, Unstarted,
       Started, Joined
  <2> QED
    BY <2>1, <2>2, RunnerKeepsText
<1>4. CASE Runner!create_process /\ ~Runner!could_not_start
  <2>1. Runner!ControlOK'
    BY <1>0, <1>4 DEF Runner!create_process, Runner!ControlOK, Runner!Place
  <2>2. RunnerPlaces' /\ RunnerOutcome' /\ RunnerReaders' /\ step' # "returned"
        /\ UNCHANGED <<writes, said, pipe, text>>
    BY <1>0, <1>4 DEF Runner!create_process, RunnerPlaces, RunnerOutcome, RunnerReaders, Unstarted,
       Started, Joined
  <2> QED
    BY <2>1, <2>2, RunnerKeepsText
<1>5. CASE Runner!close_own_ends
  <2>1. Runner!ControlOK'
    BY <1>0, <1>5 DEF Runner!close_own_ends, Runner!ControlOK, Runner!Place
  <2>2. RunnerPlaces' /\ RunnerOutcome' /\ RunnerReaders' /\ step' # "returned"
        /\ UNCHANGED <<writes, said, pipe, text>>
    BY <1>0, <1>5 DEF Runner!close_own_ends, RunnerPlaces, RunnerOutcome, RunnerReaders, Unstarted,
       Started, Joined
  <2> QED
    BY <2>1, <2>2, RunnerKeepsText
<1>6. CASE Runner!start_drains
  <2>1. Runner!ControlOK'
    BY <1>0, <1>6 DEF Runner!start_drains, Runner!ControlOK, Runner!Place
  <2>2. drain'["out"] = "between"
    BY <1>0, <1>6 DEF Runner!start_drains, Runner!Streams
  <2>3. RunnerPlaces' /\ RunnerOutcome' /\ RunnerReaders' /\ step' # "returned"
        /\ UNCHANGED <<writes, said, pipe, text>>
    BY <1>0, <1>6, <2>2 DEF Runner!start_drains, RunnerPlaces, RunnerOutcome, RunnerReaders, Unstarted,
       Started, Joined
  <2> QED
    BY <2>1, <2>3, RunnerKeepsText
<1>7. CASE Runner!resume
  <2>1. Runner!ControlOK'
    BY <1>0, <1>7 DEF Runner!resume, Runner!ControlOK, Runner!Place
  <2>2. RunnerPlaces' /\ RunnerOutcome' /\ RunnerReaders' /\ step' # "returned"
        /\ UNCHANGED <<writes, said, pipe, text>>
    BY <1>0, <1>7 DEF Runner!resume, RunnerPlaces, RunnerOutcome, RunnerReaders, Unstarted,
       Started, Joined
  <2> QED
    BY <2>1, <2>2, RunnerKeepsText
<1> QED
  BY <1>1, <1>2, <1>3, <1>4, <1>5, <1>6, <1>7
  DEF Runner!write_temp_script, Runner!create_pipes, Runner!create_process, Unstarted

LEMMA RunnerEnds ==
    ASSUME RunnerInv,
           \/ Runner!wait_timeout \/ Runner!wait_exited \/ Runner!wait_failed \/ Runner!close_job
           \/ Runner!join \/ Runner!cancel_io
    PROVE  RunnerInv'
<1> USE DEF Runner!Codes, Runner!script, Runner!drains
<1>0. /\ Runner!ControlOK /\ RunnerPlaces /\ RunnerOutcome /\ RunnerReaders
      /\ PipeSize \in Nat /\ Attempts \in Nat
  BY RunnerAssumption DEF RunnerInv, Runner!TypeOK, Runner!RunnerAssumption
<1>1. CASE Runner!wait_timeout \/ Runner!wait_failed
  <2>1. /\ step = "waiting" /\ step' = "waited" /\ Runner!Terminate
        /\ UNCHANGED <<file, own_ends, tree_kill, descendant, writes, said, pipe, drain,
                       text, cancels>>
        /\ \/ /\ outcome' = [outcome EXCEPT !.timed_out = TRUE, !.exit_code = "nonzero"]
              /\ exited' = exited
           \/ /\ outcome' = [outcome EXCEPT !.exit_code = "nonzero"]
              /\ exited' = IF exited = "no" THEN "unwatched" ELSE exited
    BY <1>1 DEF Runner!wait_timeout, Runner!wait_failed
  <2>2. /\ outcome' \in Runner!Outcome /\ outcome'.exit_code = "nonzero"
        /\ outcome'.started = outcome.started /\ (~outcome'.timed_out => exited' # "no")
        /\ exited' \in {exited, "unwatched"}
    BY <1>0, <2>1 DEF Runner!ControlOK, Runner!Outcome
  <2>3. Runner!ControlOK'
    BY <1>0, <2>1, <2>2 DEF Runner!ControlOK, Runner!Place, Runner!Terminate
  <2>4. RunnerPlaces' /\ RunnerOutcome' /\ RunnerReaders'
    BY <1>0, <2>1, <2>2 DEF Runner!Terminate, RunnerPlaces, RunnerOutcome, RunnerReaders,
       Unstarted, Started, Joined
  <2> QED
    BY <2>1, <2>3, <2>4, RunnerKeepsText
<1>2. CASE Runner!wait_exited
  <2>1. PICK code \in {exited, "nonzero"} : outcome' = [outcome EXCEPT !.exit_code = code]
    BY <1>2 DEF Runner!wait_exited
  <2>2. /\ step = "waiting" /\ step' = "waited" /\ shell = "dead" /\ exited \in Runner!Codes
        /\ UNCHANGED <<file, own_ends, tree_kill, shell, descendant, writes, said, exited, pipe,
                       drain, text, cancels>>
    BY <1>0, <1>2 DEF Runner!wait_exited, RunnerOutcome
  <2>3. code \in {"zero", "nonzero"} /\ (code = "zero" => exited = "zero")
    BY <1>0, <2>1, <2>2 DEF Runner!ControlOK
  <2>4. /\ outcome' \in Runner!Outcome /\ outcome'.exit_code = code
        /\ outcome'.started = outcome.started
    BY <1>0, <2>1, <2>3 DEF Runner!ControlOK, Runner!Outcome
  <2>5. Runner!ControlOK'
    BY <1>0, <2>2, <2>4 DEF Runner!ControlOK, Runner!Place
  <2>6. RunnerPlaces' /\ RunnerOutcome' /\ RunnerReaders'
    BY <1>0, <2>2, <2>3, <2>4 DEF RunnerPlaces, RunnerOutcome, RunnerReaders,
       Unstarted, Started, Joined
  <2> QED
    BY <2>2, <2>5, <2>6, RunnerKeepsText
<1>3. CASE Runner!close_job
  <2>1. Runner!ControlOK'
    BY <1>0, <1>3 DEF Runner!close_job, Runner!ControlOK, Runner!Place
  <2>2. RunnerPlaces' /\ RunnerOutcome' /\ RunnerReaders' /\ step' # "returned"
        /\ UNCHANGED <<writes, said, pipe, text>>
    BY <1>0, <1>3 DEF Runner!close_job, Runner!ControlOK, RunnerPlaces, RunnerOutcome,
       RunnerReaders, Unstarted, Started, Joined
  <2> QED
    BY <2>1, <2>2, RunnerKeepsText
<1>4. CASE Runner!join
  <2>1. Runner!ControlOK'
    BY <1>0, <1>4 DEF Runner!join, Runner!ControlOK, Runner!Place
  <2>2. RunnerPlaces' /\ RunnerOutcome' /\ RunnerReaders' /\ step' # "returned"
        /\ UNCHANGED <<writes, said, pipe, text>>
    BY <1>0, <1>4 DEF Runner!join, Runner!Joining, RunnerPlaces, RunnerOutcome, RunnerReaders,
       Unstarted, Started, Joined
  <2> QED
    BY <2>1, <2>2, RunnerKeepsText
<1>5. CASE Runner!cancel_io
  <2>1. /\ step \in {"out", "err"} /\ shell = "dead"
        /\ UNCHANGED <<step, file, own_ends, tree_kill, shell, descendant, writes, said, exited,
                       pipe, text, outcome>>
    BY <1>0, <1>5 DEF Runner!cancel_io, Runner!Joining, RunnerPlaces, Joined
  <2>2. /\ drain' \in [Runner!Streams -> {"none", "between", "reading", "ended"}]
        /\ drain'["out"] # drain["out"] =>
              drain["out"] = "reading" /\ drain'["out"] = "ended" /\ pipe["out"] = <<>>
    BY <1>0, <1>5, <2>1 DEF Runner!cancel_io, Runner!ControlOK, Runner!Streams
  <2>3. cancels' \in 0 .. Attempts
    BY <1>0, <1>5 DEF Runner!cancel_io, Runner!ControlOK
  <2>4. Runner!ControlOK'
    BY <1>0, <2>1, <2>2, <2>3 DEF Runner!ControlOK
  <2>5. RunnerPlaces' /\ RunnerOutcome'
    BY <1>0, <2>1 DEF RunnerPlaces, RunnerOutcome
  <2>6. RunnerReaders'
    BY <1>0, <2>1, <2>2, ParsedNothing DEF RunnerReaders, Unstarted, Joined
  <2> QED
    BY <2>1, <2>4, <2>5, <2>6, RunnerKeepsText
<1> QED
  BY <1>1, <1>2, <1>3, <1>4, <1>5

LEMMA RunnerReturns ==
    ASSUME RunnerInv, Runner!return \/ Runner!return_not_started
    PROVE  RunnerInv'
<1> USE DEF Runner!Codes, Runner!script, Runner!drains
<1>0. /\ Runner!ControlOK /\ RunnerPlaces /\ RunnerOutcome /\ RunnerReaders /\ RunnerVerdict
      /\ Runner!BuffersOK /\ text["out"] \in Seq(Runner!Chunk)
  BY DEF RunnerInv, Runner!TypeOK, Runner!BuffersOK, Runner!Streams
<1>1. /\ step' = "returned" /\ file' = FALSE /\ own_ends' \in {own_ends, FALSE}
      /\ UNCHANGED <<tree_kill, shell, descendant, writes, said, exited, pipe, drain, text, cancels>>
  BY DEF Runner!return, Runner!return_not_started
<1>2. Runner!BuffersOK'
  BY <1>0, <1>1 DEF Runner!BuffersOK
<1>3. file' \in BOOLEAN /\ own_ends' \in BOOLEAN
  BY <1>0, <1>1 DEF Runner!ControlOK
<1>4. CASE Runner!return
  <2>1. /\ step = "joined" /\ UNCHANGED own_ends
        /\ outcome' = [outcome EXCEPT !.reported = Parsed(text["out"])]
    BY <1>4 DEF Runner!return, Parsed
  <2>2. Parsed(text["out"]) \in {"none"} \cup Runner!Verdict
    BY <1>0, LastIsThere, ParsedIsLast DEF Verdicts
  <2>3. /\ outcome' \in Runner!Outcome /\ outcome'.reported = Parsed(text["out"])
        /\ outcome'.started = outcome.started /\ outcome'.timed_out = outcome.timed_out
        /\ outcome'.exit_code = outcome.exit_code
    BY <1>0, <2>1, <2>2 DEF Runner!ControlOK, Runner!Outcome
  <2>4. Runner!ControlOK'
    BY <1>0, <1>1, <1>3, <2>3 DEF Runner!ControlOK, Runner!Place
  <2>5. RunnerPlaces' /\ RunnerOutcome' /\ RunnerReaders'
    BY <1>0, <1>1, <2>1, <2>3 DEF RunnerPlaces, RunnerOutcome, RunnerReaders, Unstarted, Started, Joined
  <2>6. RunnerVerdict'
    BY <1>0, <1>1, <2>1, <2>3 DEF RunnerVerdict, RunnerReaders, Joined
  <2> QED
    BY <1>1, <1>2, <2>4, <2>5, <2>6 DEF RunnerInv, Runner!TypeOK
<1>5. CASE Runner!return_not_started
  <2>1. step = "failed" /\ own_ends' = FALSE /\ UNCHANGED outcome
    BY <1>5 DEF Runner!return_not_started
  <2>2. exited \notin Runner!Codes /\ shell = "none" /\ ~outcome.started
    BY <1>0, <2>1 DEF RunnerPlaces, RunnerOutcome
  <2>3. Runner!ControlOK'
    BY <1>0, <1>1, <1>3, <2>1 DEF Runner!ControlOK, Runner!Place
  <2>4. RunnerPlaces' /\ RunnerOutcome' /\ RunnerReaders'
    BY <1>0, <1>1, <2>1, <2>2 DEF RunnerPlaces, RunnerOutcome, RunnerReaders, Unstarted, Started, Joined
  <2>5. RunnerVerdict'
    BY <1>0, <1>1, <2>1, <2>2 DEF RunnerVerdict
  <2> QED
    BY <1>1, <1>2, <2>3, <2>4, <2>5 DEF RunnerInv, Runner!TypeOK
<1> QED
  BY <1>4, <1>5

LEMMA OneMoves ==
    \A a, b, limit \in Nat : a + b <= limit => (a + 1) + (b - 1) <= limit
  OBVIOUS

(* One thread reads one pipe. *)
LEMMA RunnerReads ==
    ASSUME RunnerInv, NEW s \in Runner!Streams, Runner!Drain(s)
    PROVE  RunnerInv'
<1> USE DEF Runner!Codes, Runner!script
<1>0. /\ Runner!ControlOK /\ RunnerPlaces /\ RunnerOutcome /\ RunnerReaders /\ RunnerVerdict
      /\ Runner!BuffersOK /\ DOMAIN pipe = Runner!Streams /\ DOMAIN text = Runner!Streams
      /\ "out" \in Runner!Streams /\ PipeSize \in Nat /\ StreamCap \in Nat /\ MaxWrites \in Nat
  BY RunnerAssumption DEF RunnerInv, Runner!TypeOK, Runner!Streams, Runner!RunnerAssumption
<1>1. UNCHANGED <<step, file, own_ends, tree_kill, shell, descendant, writes, said, exited,
                  cancels, outcome>>
  BY DEF Runner!Drain
<1>2. RunnerPlaces' /\ RunnerOutcome'
  BY <1>0, <1>1 DEF RunnerPlaces, RunnerOutcome
<1>3. CASE Runner!enter_read(s)
  <2>1. /\ drain' = [drain EXCEPT ![s] = "reading"] /\ drain[s] = "between"
        /\ UNCHANGED <<pipe, text>>
    BY <1>3 DEF Runner!enter_read
  <2>2. Runner!ControlOK'
    BY <1>0, <1>1, <2>1 DEF Runner!ControlOK
  <2>3. RunnerReaders' /\ RunnerVerdict' /\ Runner!BuffersOK'
    BY <1>0, <1>1, <2>1 DEF Runner!ControlOK, RunnerReaders, RunnerVerdict, Runner!BuffersOK
  <2> QED
    BY <1>0, <1>2, <2>1, <2>2, <2>3 DEF RunnerInv, Runner!TypeOK
<1>4. CASE Runner!read_chunk(s)
  <2> DEFINE chunk == Head(pipe[s])
             rest == Tail(pipe[s])
             longer == Append(text[s], chunk)
  <2>1. /\ drain[s] = "reading" /\ pipe[s] # <<>> /\ drain' = [drain EXCEPT ![s] = "between"]
        /\ pipe' = [pipe EXCEPT ![s] = rest]
        /\ \/ text' = [text EXCEPT ![s] = longer] /\ Len(text[s]) < StreamCap
           \/ text' = text /\ ~(Len(text[s]) < StreamCap)
    BY <1>0, <1>4 DEF Runner!read_chunk, Runner!append_capped
  <2>2. pipe[s] \in Seq(Runner!Chunk) /\ text[s] \in Seq(Runner!Chunk)
    BY <1>0 DEF Runner!BuffersOK
  <2>3. /\ chunk \in Runner!Chunk /\ rest \in Seq(Runner!Chunk) /\ Len(rest) = Len(pipe[s]) - 1
        /\ Parsed(pipe[s]) = IF Parsed(rest) # "none" THEN Parsed(rest)
                             ELSE IF chunk \in Runner!Verdict THEN chunk ELSE "none"
    BY <2>1, <2>2, ParsedTail
  <2>4. /\ longer \in Seq(Runner!Chunk) /\ Len(longer) = Len(text[s]) + 1
        /\ Parsed(longer) = IF chunk \in Runner!Verdict THEN chunk ELSE Parsed(text[s])
    BY <2>2, <2>3, ParsedAppend
  <2>5. Len(pipe[s]) \in Nat /\ Len(text[s]) \in Nat
    BY <2>2
  <2> HIDE DEF chunk, rest, longer
  <2>6. Runner!ControlOK'
    BY <1>0, <1>1, <2>1 DEF Runner!ControlOK
  <2>7. Runner!BuffersOK'
    BY <1>0, <2>1, <2>3, <2>4, <2>5 DEF Runner!BuffersOK
  <2>8. RunnerReaders'
    BY <1>0, <1>1, <2>1 DEF Runner!ControlOK, RunnerReaders
  <2>9. ASSUME MaxWrites <= StreamCap, s = "out"
        PROVE  /\ Len(text'["out"]) + Len(pipe'["out"]) <= writes
               /\ said = IF Parsed(pipe'["out"]) # "none" THEN Parsed(pipe'["out"])
                                                         ELSE Parsed(text'["out"])
    <3>1. Len(text[s]) + Len(pipe[s]) <= writes /\ writes <= MaxWrites /\ writes \in Nat
      BY <1>0, <2>9 DEF RunnerVerdict, Runner!ControlOK
    <3>2. Len(rest) \in Nat
      BY <2>3
    <3>3. Len(text[s]) < StreamCap
      BY <1>0, <2>3, <2>5, <2>9, <3>1, <3>2
    <3>4. text'["out"] = longer /\ pipe'["out"] = rest
      BY <1>0, <2>1, <2>9, <3>3
    <3>5. said = IF Parsed(pipe[s]) # "none" THEN Parsed(pipe[s]) ELSE Parsed(text[s])
      BY <1>0, <2>9 DEF RunnerVerdict
    <3>6. said = IF Parsed(rest) # "none" THEN Parsed(rest) ELSE Parsed(longer)
      BY <2>3, <2>4, <3>5, NoneIsNoVerdict
    <3>7. Len(longer) + Len(rest) <= writes
      <4>1. Len(longer) = Len(text[s]) + 1 /\ Len(rest) = Len(pipe[s]) - 1
        BY <2>3, <2>4
      <4>2. Len(text[s]) + Len(pipe[s]) <= writes /\ writes \in Nat
        BY <3>1
      <4> QED
        BY <2>5, <4>1, <4>2, OneMoves
    <3> QED
      BY <3>4, <3>6, <3>7
  <2>10. RunnerVerdict'
    <3>1. CASE s = "out"
      BY <1>0, <1>1, <2>9, <3>1 DEF RunnerVerdict
    <3>2. CASE s # "out"
      <4>1. text'["out"] = text["out"] /\ pipe'["out"] = pipe["out"]
        BY <1>0, <2>1, <3>2
      <4> QED
        BY <1>0, <1>1, <4>1 DEF RunnerVerdict
    <3> QED BY <3>1, <3>2
  <2> QED
    BY <1>0, <1>2, <2>1, <2>6, <2>7, <2>8, <2>10 DEF RunnerInv, Runner!TypeOK
<1>5. CASE Runner!read_end(s)
  <2>1. /\ drain' = [drain EXCEPT ![s] = "ended"] /\ drain[s] = "reading" /\ pipe[s] = <<>>
        /\ UNCHANGED <<pipe, text>> /\ shell \notin {"suspended", "alive"}
    BY <1>5 DEF Runner!read_end, Runner!WriteEndOpen
  <2>2. Runner!ControlOK'
    BY <1>0, <1>1, <2>1 DEF Runner!ControlOK
  <2>3. RunnerReaders' /\ RunnerVerdict' /\ Runner!BuffersOK'
    BY <1>0, <1>1, <2>1, ParsedNothing
    DEF Runner!ControlOK, RunnerReaders, RunnerVerdict, Runner!BuffersOK
  <2> QED
    BY <1>0, <1>2, <2>1, <2>2, <2>3 DEF RunnerInv, Runner!TypeOK
<1> QED
  BY <1>3, <1>4, <1>5 DEF Runner!Drain, Runner!drain_pipe

(* The shell and its descendant write, and end. *)
LEMMA RunnerWrites ==
    ASSUME RunnerInv, NEW s \in Runner!Streams, NEW chunk \in Runner!Chunk, Runner!Write(s, chunk),
           writes' = writes + 1, writes < MaxWrites,
           UNCHANGED <<step, file, own_ends, tree_kill, shell, descendant, exited, drain, text,
                       cancels, outcome>>,
           chunk \in Runner!Verdict /\ s = "out" => shell = "alive",
           said' = IF chunk \in Runner!Verdict /\ s = "out" THEN chunk ELSE said
    PROVE  RunnerInv'
<1> USE DEF Runner!Codes
<1>0. /\ Runner!ControlOK /\ RunnerPlaces /\ RunnerOutcome /\ RunnerReaders /\ RunnerVerdict
      /\ Runner!BuffersOK /\ DOMAIN pipe = Runner!Streams /\ DOMAIN text = Runner!Streams
      /\ "out" \in Runner!Streams /\ PipeSize \in Nat /\ StreamCap \in Nat /\ MaxWrites \in Nat
  BY RunnerAssumption DEF RunnerInv, Runner!TypeOK, Runner!Streams, Runner!RunnerAssumption
<1> DEFINE longer == Append(pipe[s], chunk)
<1>1. pipe' = [pipe EXCEPT ![s] = longer] /\ Len(pipe[s]) < PipeSize
  BY <1>0 DEF Runner!Write
<1>2. pipe[s] \in Seq(Runner!Chunk) /\ \A z \in Runner!Streams : Len(text[z]) \in Nat
  BY <1>0 DEF Runner!BuffersOK
<1>3. /\ longer \in Seq(Runner!Chunk) /\ Len(longer) = Len(pipe[s]) + 1 /\ Len(pipe[s]) \in Nat
      /\ Parsed(longer) = IF chunk \in Runner!Verdict THEN chunk ELSE Parsed(pipe[s])
  BY <1>2, ParsedAppend
<1> HIDE DEF longer
<1>4. Runner!ControlOK'
  BY <1>0 DEF Runner!ControlOK
<1>5. RunnerPlaces' /\ RunnerOutcome'
  BY <1>0 DEF RunnerPlaces, RunnerOutcome
<1>6. Runner!BuffersOK'
  BY <1>0, <1>1, <1>3 DEF Runner!BuffersOK
<1>7. pipe'["out"] = IF s = "out" THEN longer ELSE pipe["out"]
  BY <1>0, <1>1
<1>8. RunnerReaders'
  BY <1>0, <1>3, <1>7 DEF RunnerReaders
<1>9. Len(pipe["out"]) \in Nat /\ writes \in Nat
  BY <1>0 DEF Runner!BuffersOK, Runner!ControlOK
<1>10. RunnerVerdict'
  <2> SUFFICES ASSUME MaxWrites <= StreamCap PROVE RunnerVerdict'
    BY DEF RunnerVerdict
  <2>1. /\ Len(text["out"]) + Len(pipe["out"]) <= writes
        /\ said = IF Parsed(pipe["out"]) # "none" THEN Parsed(pipe["out"]) ELSE Parsed(text["out"])
        /\ step = "returned" /\ exited \in Runner!Codes => outcome.reported = said
    BY <1>0 DEF RunnerVerdict
  <2>2. Len(text'["out"]) + Len(pipe'["out"]) <= writes'
    BY <1>0, <1>2, <1>3, <1>7, <1>9, <2>1
  <2>3. said' = IF Parsed(pipe'["out"]) # "none" THEN Parsed(pipe'["out"]) ELSE Parsed(text'["out"])
    BY <1>3, <1>7, <2>1, NoneIsNoVerdict
  <2>4. step = "returned" /\ exited \in Runner!Codes => said' = said
    BY <1>0 DEF RunnerOutcome
  <2> QED
    BY <2>1, <2>2, <2>3, <2>4 DEF RunnerVerdict
<1> QED
  BY <1>0, <1>1, <1>4, <1>5, <1>6, <1>8, <1>10 DEF RunnerInv, Runner!TypeOK

LEMMA RunnerScript ==
    ASSUME RunnerInv, Runner!Script, UNCHANGED <<step, file, own_ends, tree_kill, cancels, outcome>>
    PROVE  RunnerInv'
<1> USE DEF Runner!Codes, Runner!drains
<1>0. /\ Runner!ControlOK /\ RunnerPlaces /\ RunnerOutcome /\ RunnerReaders /\ RunnerVerdict
      /\ Runner!BuffersOK
  BY DEF RunnerInv, Runner!TypeOK
<1>1. "text" \in Runner!Chunk /\ "text" \notin Runner!Verdict /\ Runner!Streams = {"out", "err"}
      /\ Runner!Verdict \subseteq Runner!Chunk
  BY DEF Runner!Chunk, Runner!Verdict, Runner!Streams
<1>2. CASE Runner!shell_writes
  <2>1. PICK s \in Runner!Streams, chunk \in Runner!Chunk :
          /\ Runner!Write(s, chunk)
          /\ said' = IF chunk \in Runner!Verdict /\ s = "out" THEN chunk ELSE said
    BY <1>1, <1>2 DEF Runner!shell_writes
  <2>2. /\ shell = "alive" /\ writes < MaxWrites /\ writes' = writes + 1
        /\ UNCHANGED <<shell, descendant, exited, drain, text>>
    BY <1>2 DEF Runner!shell_writes
  <2> QED
    BY <2>1, <2>2, RunnerWrites
<1>3. CASE Runner!descendant_writes
  <2>1. PICK s \in Runner!Streams : Runner!Write(s, "text")
    BY <1>3 DEF Runner!descendant_writes
  <2>2. /\ writes < MaxWrites /\ writes' = writes + 1
        /\ UNCHANGED <<shell, descendant, exited, said, drain, text>>
    BY <1>3 DEF Runner!descendant_writes
  <2> QED
    BY <1>1, <2>1, <2>2, RunnerWrites
<1>4. CASE Runner!shell_starts_process \/ Runner!shell_exits \/ Runner!descendant_exits
  <2>1. UNCHANGED <<step, file, own_ends, tree_kill, cancels, outcome, writes, said, pipe, drain, text>>
        /\ (shell' # shell => shell = "alive" /\ shell' = "dead")
    BY <1>4 DEF Runner!shell_starts_process, Runner!shell_exits, Runner!descendant_exits
  <2>2. Runner!ControlOK' /\ Runner!BuffersOK'
    BY <1>0, <1>4, <2>1 DEF Runner!shell_starts_process, Runner!shell_exits,
       Runner!descendant_exits, Runner!ControlOK, Runner!BuffersOK
  <2>3. RunnerPlaces' /\ RunnerOutcome' /\ RunnerReaders'
    BY <1>0, <1>4, <2>1 DEF Runner!shell_starts_process, Runner!shell_exits,
       Runner!descendant_exits, RunnerPlaces, RunnerOutcome, RunnerReaders,
       Unstarted, Started, Joined
  <2>4. RunnerVerdict'
    BY <1>0, <1>4, <2>1, <2>3 DEF Runner!shell_starts_process, Runner!shell_exits,
       Runner!descendant_exits, RunnerVerdict, RunnerPlaces
  <2> QED
    BY <2>1, <2>2, <2>3, <2>4 DEF RunnerInv, Runner!TypeOK
<1> QED
  BY <1>2, <1>3, <1>4 DEF Runner!Script

LEMMA RunnerStep == RunnerInv /\ [Next]_vars => RunnerInv'
<1> USE DEF Runner!Codes
<1> SUFFICES ASSUME RunnerInv, [Next]_vars PROVE RunnerInv'
  OBVIOUS
<1>1. CASE UNCHANGED runner
  BY <1>1 DEF runner, RunnerInv, Runner!TypeOK, Runner!ControlOK, Runner!BuffersOK, RunnerPlaces,
     RunnerOutcome, RunnerReaders, RunnerVerdict
<1>2. CASE Runner!Next
  <2>1. CASE UNCHANGED Runner!vars
    BY <1>1, <2>1 DEF Runner!vars, Runner!script, Runner!drains, runner
  <2> QED
    BY <1>2, <2>1, RunnerStarts, RunnerEnds, RunnerReturns, RunnerReads, RunnerScript
    DEF Runner!Next, Runner!Runner
<1> QED
  BY <1>1, <1>2, RunnerMoves

LEMMA RunnerInvariant == Spec => []RunnerInv
  BY RunnerInit, RunnerStep, PTL DEF Spec

(* Completed is said of a script that ended with 0, Failed of one that     *)
(* ended or that could not be waited for, and nothing of a run is left;    *)
(* and the verdict is the one that it wrote last, if the cap of a stream   *)
(* (kMaxStreamBytes) holds all that it writes.                             *)
THEOREM ScriptsReport ==
    ASSUME MaxWrites <= StreamCap
    PROVE  Spec => []ScriptsAreReported
<1>1. RunnerInv => ScriptsAreReported
  BY DEF RunnerInv, RunnerPlaces, RunnerOutcome, RunnerVerdict, ScriptsAreReported, Runner!Codes,
     Runner!StatusIsTrue, Runner!status, Runner!VerdictIsKept, Runner!NothingOutlives,
     Runner!Returned, Runner!TypeOK, Runner!ControlOK, Runner!Outcome
<1> QED
  BY <1>1, RunnerInvariant, PTL

-----------------------------------------------------------------------------
(* NetworkProbe.  What was seen of an entry only grows during a call, and  *)
(* so what a list said of it stays true of some moment; and a list that    *)
(* outgrew the room made for it had two changes to do so.                  *)

LEMMA SameCardinality == \A S : Network!Cardinality(S) = Cardinality(S)
  BY DEF Network!Cardinality, Cardinality

LEMMA CardinalityOfEntries ==
    ASSUME NEW S \in SUBSET Entries, NEW T \in SUBSET Entries, NEW e, T \subseteq S \cup {e}
    PROVE  /\ Network!Cardinality(S) \in Nat
           /\ Network!Cardinality(S) <= Network!Cardinality(Entries)
           /\ Network!Cardinality(Entries) \in Nat
           /\ Network!Cardinality(T) <= Network!Cardinality(S) + 1
<1>1. IsFiniteSet(S) /\ Cardinality(S) <= Cardinality(Entries) /\ Cardinality(Entries) \in Nat
      /\ Cardinality(S) \in Nat
  BY EntriesAssumption, FS_Subset, FS_CardinalityType
<1>2. IsFiniteSet(S \cup {e}) /\ Cardinality(S \cup {e}) \in {Cardinality(S), Cardinality(S) + 1}
  BY <1>1, FS_AddElement
<1>3. Cardinality(T) <= Cardinality(S \cup {e}) /\ Cardinality(T) \in Nat
  BY <1>2, FS_Subset, FS_CardinalityType
<1> QED
  BY <1>1, <1>2, <1>3, SameCardinality

WasUp(e) == "up" \in seen[e]
WasNotUp(e) == \E status \in seen[e] : status # "up"
Reading == {"folder", "match", "interfaces"}
Asking == {"connections", "connections_again"}
Naming == {"entries", "entries_again", "types"}

WorldIsSeen ==
    /\ book \in [Entries -> Network!Status] /\ seen \in [Entries -> SUBSET Network!Status]
    /\ card \in BOOLEAN /\ card_stayed \in BOOLEAN /\ (card_stayed => card)
    /\ changes \in 0 .. NetworkChanges
    /\ \A e \in Entries : book[e] \in seen[e]

InterfacesTold == "interfaces" \notin unread
ConnectionsTold == changes < 2 /\ "connections" \notin unread

CallIsTyped ==
    /\ at \in Network!Steps /\ unread \subseteq Network!Lists
    /\ room = Room \/ room \in 1 .. Network!Cardinality(Entries) + 1
    /\ connected \subseteq Entries /\ listed \subseteq Entries
    /\ at \in {"folder", "interfaces"} => unread = {}
    /\ at = "match" => \A a \in adapters : a.from = "folder"

AdapterIsTrue(a) ==
    /\ a \in Network!Adapter
    /\ a.of \in Entries =>
          /\ a.link = "Connected" => WasUp(a.of)
          /\ a.link = "Disconnected" /\ (a.from # "phonebook" \/ InterfacesTold \/ ConnectionsTold)
                => WasNotUp(a.of)
    /\ a.from = "phonebook" =>
          /\ a.of \in Entries
          /\ "absent" \notin seen[a.of] /\ "types" \notin unread => a.type = "Tunnel"
    /\ a.of = Network!Card /\ card_stayed /\ at \notin Reading /\ InterfacesTold => a.type = "WiFi"

Shown(e) == \E a \in adapters : a.of = e

(* What the lists that were read so far say. *)
ListsAreTrue ==
    /\ at \in Asking \cup Naming /\ InterfacesTold => \A e \in Entries : Shown(e) \/ WasNotUp(e)
    /\ at \in Reading \cup Asking => connected = {}
    /\ at = "connections_again" => Network!Cardinality(Network!Dialled) < room + changes
    /\ at \in Naming => /\ \A e \in connected : WasUp(e)
                        /\ ConnectionsTold => \A e \in Entries \ connected : WasNotUp(e)

(* And of the entries, while nobody adds or removes one. *)
BookIsListed ==
    Network!PhonebookStayed =>
        /\ at \in {"match", "done"} /\ unread \cap {"folder", "entries"} = {} => \A e \in Network!InBook(book) : Shown(e)
        /\ at = "entries_again" => Network!Cardinality(Network!InBook(book)) < room
        /\ at = "types" => listed = Network!InBook(book)

NetworkInv ==
    /\ WorldIsSeen /\ CallIsTyped
    /\ \A a \in adapters : AdapterIsTrue(a)
    /\ Network!NothingTwice
    /\ ListsAreTrue /\ BookIsListed

LEMMA NetworkMoves == [Next]_vars => Network!Next \/ UNCHANGED network
  BY Zenon DEF Next, vars

LEMMA NetworkInit == Init => NetworkInv
<1> SUFFICES ASSUME Init PROVE NetworkInv
  OBVIOUS
<1>1. Network!Init
  BY DEF Init
<1>2. WorldIsSeen /\ CallIsTyped
  <2>1. WorldIsSeen
    BY <1>1, BoundsAssumption DEF Network!Init, Network!BoundsAssumption, WorldIsSeen
  <2>2. unread = {} /\ connected \subseteq Entries /\ listed \subseteq Entries
    BY <1>1 DEF Network!Init
  <2>3. at = "folder" /\ room = Room
    BY <1>1 DEF Network!Init
  <2> QED
    BY <2>1, <2>2, <2>3 DEF CallIsTyped, Network!Steps
<1>3. ListsAreTrue /\ BookIsListed /\ adapters = {}
  BY <1>1 DEF Network!Init, ListsAreTrue, BookIsListed, Reading, Asking, Naming
<1> QED
  BY <1>2, <1>3 DEF NetworkInv, Network!NothingTwice

(* The world changes once, between two calls. *)
LEMMA NetworkWorldStep ==
    ASSUME NetworkInv,
           \/ \E e \in Entries, status \in Network!Status : Network!entry_changes(e, status)
           \/ Network!card_changes
    PROVE  NetworkInv'
<1> USE DEF NetworkInv
<1>0. /\ NetworkChanges \in Nat /\ Room \in Nat /\ Network!Status = {"absent", "down", "up"}
      /\ Network!Card \notin Entries
  BY BoundsAssumption, CardAssumption DEF Network!BoundsAssumption, Network!CardAssumption, Network!Status
<1>1. /\ changes < NetworkChanges /\ changes' = changes + 1
      /\ UNCHANGED <<at, unread, room, connected, listed, adapters>>
  BY DEF Network!entry_changes, Network!card_changes
<1>2. changes \in Nat /\ changes' \in Nat /\ (changes' < 2 => changes < 2) /\ changes' \in 0 .. NetworkChanges
  BY <1>0, <1>1 DEF WorldIsSeen
<1>3. CallIsTyped' /\ Network!NothingTwice'
  BY <1>1 DEF CallIsTyped, Network!NothingTwice
<1>4. CASE \E e \in Entries, status \in Network!Status : Network!entry_changes(e, status)
  <2>1. PICK e \in Entries, status \in Network!Status :
          /\ book[e] # status /\ book' = [book EXCEPT ![e] = status]
          /\ seen' = [seen EXCEPT ![e] = @ \cup {status}]
          /\ UNCHANGED <<card, card_stayed>>
    BY <1>4 DEF Network!entry_changes
  <2>2. /\ \A x \in Entries : seen[x] \subseteq seen'[x]
        /\ \A x \in Entries \ {e} : seen'[x] = seen[x] /\ book'[x] = book[x]
        /\ seen'[e] = seen[e] \cup {status} /\ book'[e] = status /\ book[e] \in seen[e]
    BY <2>1 DEF WorldIsSeen
  <2>3. WorldIsSeen'
    BY <1>2, <2>1, <2>2 DEF WorldIsSeen
  <2>4. ASSUME NEW a \in adapters PROVE AdapterIsTrue(a)'
    <3>1. AdapterIsTrue(a)
      OBVIOUS
    <3>2. a.of \in Entries \cup {Network!Card}
      BY <3>1 DEF AdapterIsTrue, Network!Adapter
    <3>3. a.of \in Entries => (WasUp(a.of) => WasUp(a.of)') /\ (WasNotUp(a.of) => WasNotUp(a.of)')
      BY <2>2 DEF WasUp, WasNotUp
    <3>4. a.of \in Entries /\ "absent" \notin seen'[a.of] => "absent" \notin seen[a.of]
      BY <2>2
    <3> QED
      BY <1>1, <1>2, <2>1, <3>1, <3>2, <3>3, <3>4 DEF AdapterIsTrue, InterfacesTold, ConnectionsTold
  <2>5. ListsAreTrue'
    <3>1. Network!Dialled' \subseteq Network!Dialled \cup {e}
      BY <2>2 DEF Network!Dialled
    <3>2. Network!Dialled \in SUBSET Entries /\ Network!Dialled' \in SUBSET Entries
      BY DEF Network!Dialled
    <3>3. /\ Network!Cardinality(Network!Dialled)' <= Network!Cardinality(Network!Dialled) + 1
          /\ Network!Cardinality(Network!Dialled) \in Nat
          /\ Network!Cardinality(Network!Dialled)' \in Nat
      BY <3>1, <3>2, CardinalityOfEntries
    <3>4. room \in Nat
      BY <1>0, EntriesAssumption, CardinalityOfEntries, <3>2 DEF CallIsTyped
    <3>5. \A x \in Entries : (WasUp(x) => WasUp(x)') /\ (WasNotUp(x) => WasNotUp(x)')
      BY <2>2 DEF WasUp, WasNotUp
    <3>6. \A x \in Entries : Shown(x) => Shown(x)'
      BY <1>1 DEF Shown
    <3>7. at = "connections_again" => Network!Cardinality(Network!Dialled)' < room + changes'
      BY <1>1, <1>2, <3>3, <3>4 DEF ListsAreTrue
    <3> QED
      BY <1>1, <1>2, <3>5, <3>6, <3>7 DEF ListsAreTrue, CallIsTyped, InterfacesTold, ConnectionsTold
  <2>6. BookIsListed'
    <3> SUFFICES ASSUME Network!PhonebookStayed' PROVE BookIsListed'
      BY DEF BookIsListed
    <3>1. seen'[e] = seen[e] \cup {status} /\ ("absent" \in seen'[e] => seen'[e] = {"absent"})
      BY <2>2 DEF Network!PhonebookStayed
    <3>2. book[e] # "absent" /\ status # "absent" /\ "absent" \notin seen'[e]
      BY <2>1, <2>2, <3>1
    <3>3. Network!PhonebookStayed
      BY <2>2, <3>2 DEF Network!PhonebookStayed
    <3>4. Network!InBook(book)' = Network!InBook(book)
      BY <2>2, <3>2 DEF Network!InBook
    <3>5. \A x \in Entries : Shown(x)' <=> Shown(x)
      BY <1>1 DEF Shown
    <3>6. Network!InBook(book) \subseteq Entries
      BY DEF Network!InBook
    <3> QED
      BY <1>1, <3>3, <3>4, <3>5, <3>6 DEF BookIsListed
  <2> QED
    BY <1>1, <1>3, <2>3, <2>4, <2>5, <2>6
<1>5. CASE Network!card_changes
  <2>1. card' = ~card /\ card_stayed' = FALSE /\ UNCHANGED <<book, seen>>
    BY <1>5 DEF Network!card_changes
  <2>2. card' \in BOOLEAN /\ card_stayed' \in BOOLEAN
    BY <2>1
  <2>3. WorldIsSeen'
    BY <1>2, <2>1, <2>2 DEF WorldIsSeen
  <2>4. ASSUME NEW a \in adapters PROVE AdapterIsTrue(a)'
    BY <1>1, <1>2, <2>1 DEF AdapterIsTrue, WasUp, WasNotUp, InterfacesTold, ConnectionsTold
  <2>5. Network!Dialled' = Network!Dialled /\ Network!InBook(book)' = Network!InBook(book)
    BY <2>1 DEF Network!Dialled, Network!InBook
  <2>6. room \in Nat /\ Network!Cardinality(Network!Dialled) \in Nat
    <3>1. Network!Dialled \in SUBSET Entries
      BY DEF Network!Dialled
    <3> QED
      BY <1>0, <3>1, CardinalityOfEntries DEF CallIsTyped
  <2>7. at = "connections_again" => Network!Cardinality(Network!Dialled)' < room + changes'
    BY <1>1, <1>2, <2>5, <2>6 DEF ListsAreTrue
  <2>8. ListsAreTrue'
    BY <1>1, <1>2, <2>1, <2>7 DEF ListsAreTrue, Shown, WasUp, WasNotUp, InterfacesTold,
       ConnectionsTold
  <2>9. BookIsListed'
    BY <1>1, <2>1, <2>5 DEF BookIsListed, Shown, Network!PhonebookStayed
  <2> QED
    BY <1>1, <1>3, <2>3, <2>4, <2>8, <2>9
<1> QED
  BY <1>4, <1>5

LEMMA NetworkFolderStep ==
    ASSUME NetworkInv, Network!enumerate_network_connections
    PROVE  NetworkInv'
<1>0. /\ WorldIsSeen /\ CallIsTyped /\ ListsAreTrue /\ BookIsListed /\ Network!NothingTwice
      /\ \A a \in adapters : AdapterIsTrue(a)
      /\ Network!Card \notin Entries /\ unread = {} /\ connected = {}
  BY CardAssumption DEF NetworkInv, Network!enumerate_network_connections, Network!CardAssumption,
     CallIsTyped, ListsAreTrue, Reading
<1>1. /\ at = "folder"
      /\ UNCHANGED <<book, card, changes, seen, card_stayed, room, connected, listed>>
  BY DEF Network!enumerate_network_connections, Network!world
<1>2. WorldIsSeen'
  BY <1>0, <1>1 DEF WorldIsSeen
<1>3. CASE /\ at' = "match" /\ adapters' \subseteq Network!FolderNow /\ unread' \subseteq {"folder"}
           /\ "folder" \notin unread' => adapters' = Network!FolderNow
  <2>1. ASSUME NEW a \in adapters' PROVE a.from = "folder" /\ AdapterIsTrue(a)'
    <3>1. CASE a.of \in Entries
      <4>1. /\ a.of \in Network!InBook(book)
            /\ a = [of |-> a.of, from |-> "folder", type |-> "Tunnel",
                    link |-> Network!Link(book[a.of] = "up")]
        BY <1>0, <1>3, <2>1, <3>1 DEF Network!FolderNow, Network!InBook
      <4>2. book[a.of] \in seen[a.of]
        BY <1>0, <3>1 DEF WorldIsSeen
      <4>3. a \in Network!Adapter
        BY <3>1, <4>1 DEF Network!Adapter, Network!Link
      <4> QED
        BY <1>0, <1>1, <3>1, <4>1, <4>2, <4>3 DEF AdapterIsTrue, WasUp, WasNotUp, Network!Link
    <3>2. CASE a.of \notin Entries
      <4>1. a = [of |-> Network!Card, from |-> "folder", type |-> "Ethernet", link |-> "Connected"]
        BY <1>3, <2>1, <3>2 DEF Network!FolderNow, Network!InBook
      <4> QED
        BY <1>0, <1>1, <1>3, <4>1 DEF AdapterIsTrue, Network!Adapter, Reading
    <3> QED
      BY <3>1, <3>2
  <2>2. Network!NothingTwice'
    BY <1>0, <1>3 DEF Network!NothingTwice, Network!FolderNow, Network!InBook
  <2>3. "folder" \notin unread' => \A e \in Network!InBook(book) : Shown(e)'
    <3> SUFFICES ASSUME "folder" \notin unread', NEW e \in Network!InBook(book)
                 PROVE  \E a \in Network!FolderNow : a.of = e
      BY <1>3 DEF Shown
    <3>1. [of |-> e, from |-> "folder", type |-> "Tunnel", link |-> Network!Link(book[e] = "up")]
             \in Network!FolderNow
      BY DEF Network!FolderNow
    <3> QED
      BY <3>1
  <2>4. ListsAreTrue' /\ BookIsListed'
    <3>1. Network!InBook(book)' = Network!InBook(book)
      BY <1>1 DEF Network!InBook
    <3>2. unread' \cap {"folder", "entries"} = {} => "folder" \notin unread'
      OBVIOUS
    <3> QED
      BY <1>0, <1>1, <1>3, <2>3, <3>1, <3>2 DEF ListsAreTrue, BookIsListed, Asking, Naming
  <2>5. CallIsTyped'
    BY <1>0, <1>1, <1>3, <2>1 DEF CallIsTyped, Network!Steps, Network!Lists
  <2> QED
    BY <1>2, <2>1, <2>2, <2>4, <2>5 DEF NetworkInv
<1>4. CASE at' = "interfaces" /\ UNCHANGED <<unread, adapters>>
  <2>1. \A a \in adapters : AdapterIsTrue(a)'
    BY <1>0, <1>1, <1>4 DEF AdapterIsTrue, WasUp, WasNotUp, InterfacesTold, ConnectionsTold, Reading
  <2>2. ListsAreTrue' /\ BookIsListed' /\ CallIsTyped' /\ Network!NothingTwice'
    BY <1>0, <1>1, <1>4 DEF ListsAreTrue, BookIsListed, Asking, Naming, CallIsTyped, Network!Steps,
       Network!NothingTwice
  <2> QED
    BY <1>2, <1>4, <2>1, <2>2 DEF NetworkInv
<1>5. \/ at' = "match" /\ adapters' = Network!FolderNow /\ unread' = unread
      \/ at' = "match" /\ adapters' \subseteq Network!FolderNow /\ unread' = unread \cup {"folder"}
      \/ at' = "interfaces" /\ UNCHANGED <<unread, adapters>>
  BY DEF Network!enumerate_network_connections, Network!Unread
<1> QED
  BY <1>0, <1>3, <1>4, <1>5

(* What the list of interfaces is at a moment. *)
LEMMA InterfacesAreTrue ==
    ASSUME WorldIsSeen
    PROVE  /\ \A i \in Network!InterfacesNow :
                 /\ i \in Network!Adapter /\ i.from = "interfaces" /\ i.link = "Connected"
                 /\ i.of \in Entries => WasUp(i.of)
                 /\ i.of = Network!Card => i.type = "WiFi"
           /\ \A i, j \in Network!InterfacesNow : i.of = j.of => i = j
           /\ \A e \in Entries : (\E i \in Network!InterfacesNow : i.of = e) \/ WasNotUp(e)
           /\ card => \E i \in Network!InterfacesNow : i.of = Network!Card
<1>0. Network!Card \notin Entries
  BY CardAssumption DEF Network!CardAssumption
<1>1. ASSUME NEW i \in Network!InterfacesNow
      PROVE  \/ /\ i.of \in Network!Dialled
                /\ i = [of |-> i.of, from |-> "interfaces", type |-> "Ppp", link |-> "Connected"]
             \/ /\ card
                /\ i = [of |-> Network!Card, from |-> "interfaces", type |-> "WiFi",
                        link |-> "Connected"]
  BY DEF Network!InterfacesNow
<1>2. \A e \in Network!Dialled : e \in Entries /\ WasUp(e)
  BY DEF Network!Dialled, WorldIsSeen, WasUp
<1>3. \A i \in Network!InterfacesNow :
         /\ i \in Network!Adapter /\ i.from = "interfaces" /\ i.link = "Connected"
         /\ i.of \in Entries => WasUp(i.of)
         /\ i.of = Network!Card => i.type = "WiFi"
  BY <1>0, <1>1, <1>2 DEF Network!Adapter
<1>4. \A i, j \in Network!InterfacesNow : i.of = j.of => i = j
  BY <1>0, <1>1, <1>2
<1>5. ASSUME NEW e \in Entries PROVE (\E i \in Network!InterfacesNow : i.of = e) \/ WasNotUp(e)
  <2>1. CASE e \in Network!Dialled
    <3>1. [of |-> e, from |-> "interfaces", type |-> "Ppp", link |-> "Connected"]
             \in Network!InterfacesNow
      BY <2>1 DEF Network!InterfacesNow
    <3> QED
      BY <3>1
  <2>2. CASE e \notin Network!Dialled
    BY <2>2 DEF Network!Dialled, WasNotUp, WorldIsSeen
  <2> QED
    BY <2>1, <2>2
<1>6. card => [of |-> Network!Card, from |-> "interfaces", type |-> "WiFi", link |-> "Connected"]
                 \in Network!InterfacesNow
  BY DEF Network!InterfacesNow
<1> QED
  BY <1>3, <1>4, <1>5, <1>6

LEMMA NetworkMatchStep ==
    ASSUME NetworkInv, Network!match_interfaces
    PROVE  NetworkInv'
<1>0. /\ WorldIsSeen /\ CallIsTyped /\ ListsAreTrue /\ BookIsListed /\ Network!NothingTwice
      /\ \A a \in adapters : AdapterIsTrue(a) /\ a.from = "folder"
  BY DEF NetworkInv, CallIsTyped, Network!match_interfaces
<1>1. /\ at = "match" /\ at' = "done"
      /\ UNCHANGED <<book, card, changes, seen, card_stayed, room, connected, listed>>
  BY DEF Network!match_interfaces, Network!world
<1> DEFINE matches(interfaces, a) == {i \in interfaces : i.of = a.of}
           known(interfaces, a) == IF matches(interfaces, a) = {} THEN a
                     ELSE [a EXCEPT !.type = (CHOOSE i \in matches(interfaces, a) : TRUE).type]
<1>2. PICK interfaces \in {Network!InterfacesNow, {}} :
        /\ Network!interfaces_read(interfaces)
        /\ adapters' = {known(interfaces, a) : a \in adapters}
  BY DEF Network!match_interfaces
<1>3. /\ \A i \in interfaces : i \in Network!Adapter /\ (i.of = Network!Card => i.type = "WiFi")
      /\ unread' \in {unread, unread \cup {"interfaces"}}
      /\ "interfaces" \notin unread' /\ card => \E i \in interfaces : i.of = Network!Card
  BY <1>0, <1>2, InterfacesAreTrue DEF Network!interfaces_read, Network!Unread
<1>4. ASSUME NEW a \in adapters
      PROVE  /\ known(interfaces, a).of = a.of /\ known(interfaces, a).from = "folder"
             /\ AdapterIsTrue(known(interfaces, a))'
  <2>1. AdapterIsTrue(a) /\ a \in Network!Adapter /\ a.from = "folder"
    BY <1>0 DEF AdapterIsTrue
  <2>2. CASE matches(interfaces, a) = {}
    <3>1. ~(a.of = Network!Card /\ card_stayed' /\ "interfaces" \notin unread')
      BY <1>0, <1>1, <1>3, <2>2 DEF WorldIsSeen
    <3>2. AdapterIsTrue(a)'
      BY <1>1, <2>1, <3>1 DEF AdapterIsTrue, WasUp, WasNotUp, InterfacesTold
    <3> QED
      BY <2>1, <2>2, <3>2
  <2>3. CASE matches(interfaces, a) # {}
    <3>1. PICK i \in matches(interfaces, a) : known(interfaces, a) = [a EXCEPT !.type = i.type]
      BY <2>3
    <3>2. i \in Network!Adapter /\ (a.of = Network!Card => i.type = "WiFi")
      BY <1>3, <3>1
    <3> DEFINE b == [a EXCEPT !.type = i.type]
    <3>3. /\ b \in Network!Adapter /\ b.of = a.of /\ b.link = a.link /\ b.from = a.from
          /\ b.type = i.type
      BY <2>1, <3>2 DEF Network!Adapter
    <3> HIDE DEF b
    <3>4. AdapterIsTrue(b)'
      BY <1>1, <2>1, <3>2, <3>3 DEF AdapterIsTrue, WasUp, WasNotUp, InterfacesTold
    <3>5. known(interfaces, a) = b
      BY <3>1 DEF b
    <3> QED
      BY <2>1, <3>3, <3>4, <3>5
  <2> QED
    BY <2>2, <2>3
<1> HIDE DEF known
<1>5. \A a \in adapters' : AdapterIsTrue(a)'
  BY <1>2, <1>4
<1>6. Network!NothingTwice'
  BY <1>0, <1>2, <1>4 DEF Network!NothingTwice
<1>7. \A e : Shown(e) => Shown(e)'
  BY <1>2, <1>4 DEF Shown
<1>8. ListsAreTrue' /\ BookIsListed'
  BY <1>0, <1>1, <1>3, <1>7 DEF ListsAreTrue, BookIsListed, Reading, Asking, Naming,
     Network!PhonebookStayed, Network!InBook
<1>9. WorldIsSeen' /\ CallIsTyped'
  BY <1>0, <1>1, <1>3 DEF WorldIsSeen, CallIsTyped, Network!Steps, Network!Lists
<1> QED
  BY <1>5, <1>6, <1>8, <1>9 DEF NetworkInv

LEMMA NetworkInterfacesStep ==
    ASSUME NetworkInv, Network!enumerate_interfaces
    PROVE  NetworkInv'
<1>0. WorldIsSeen /\ CallIsTyped /\ ListsAreTrue /\ BookIsListed
  BY DEF NetworkInv
<1>1. /\ at = "interfaces" /\ at' = "connections"
      /\ UNCHANGED <<book, card, changes, seen, card_stayed, room, connected, listed>>
  BY DEF Network!enumerate_interfaces, Network!world
<1>2. PICK interfaces \in {Network!InterfacesNow, {}} :
        Network!interfaces_read(interfaces) /\ adapters' = interfaces
  BY DEF Network!enumerate_interfaces
<1>3. /\ unread' \in {unread, unread \cup {"interfaces"}}
      /\ InterfacesTold' => adapters' = Network!InterfacesNow
  BY <1>2 DEF Network!interfaces_read, Network!Unread, InterfacesTold
<1>4. adapters' \subseteq Network!InterfacesNow
  BY <1>2
<1>5. ASSUME NEW a \in adapters' PROVE AdapterIsTrue(a)'
  <2>1. /\ a \in Network!Adapter /\ a.from = "interfaces" /\ a.link = "Connected"
        /\ a.of \in Entries => WasUp(a.of)
        /\ a.of = Network!Card => a.type = "WiFi"
    BY <1>0, <1>4, InterfacesAreTrue
  <2> QED
    BY <1>1, <2>1 DEF AdapterIsTrue, WasUp
<1>6. Network!NothingTwice'
  BY <1>0, <1>4, InterfacesAreTrue DEF Network!NothingTwice
<1>7. \A e \in Entries : InterfacesTold' => Shown(e)' \/ WasNotUp(e)'
  BY <1>0, <1>1, <1>3, InterfacesAreTrue DEF Shown, WasNotUp
<1>8. WorldIsSeen' /\ CallIsTyped' /\ BookIsListed'
  BY <1>0, <1>1, <1>3 DEF WorldIsSeen, CallIsTyped, BookIsListed, Network!Steps, Network!Lists
<1>9. ListsAreTrue'
  BY <1>0, <1>1, <1>7 DEF ListsAreTrue, Reading, Asking, Naming
<1> QED
  BY <1>5, <1>6, <1>8, <1>9 DEF NetworkInv

LEMMA NetworkConnectionsStep ==
    ASSUME NetworkInv, Network!ras_enum_connections
    PROVE  NetworkInv'
<1>0. /\ WorldIsSeen /\ CallIsTyped /\ ListsAreTrue /\ BookIsListed /\ Network!NothingTwice
      /\ \A a \in adapters : AdapterIsTrue(a)
      /\ Room \in Nat /\ changes \in Nat
  BY BoundsAssumption DEF NetworkInv, WorldIsSeen, Network!BoundsAssumption
<1>1. /\ at \in Asking /\ at' \in {"connections_again", "entries"}
      /\ UNCHANGED <<book, card, changes, seen, card_stayed, unread, listed, adapters>>
  BY DEF Network!ras_enum_connections, Network!world, Asking
<1>2. /\ Network!Dialled \in SUBSET Entries
      /\ Network!Cardinality(Network!Dialled) \in Nat /\ room \in Nat
      /\ Network!Cardinality(Network!Dialled) <= Network!Cardinality(Entries)
      /\ Network!Cardinality(Entries) \in Nat
  <2>1. Network!Dialled \in SUBSET Entries
    BY DEF Network!Dialled
  <2> QED
    BY <1>0, <2>1, CardinalityOfEntries DEF CallIsTyped
<1>3. \A e \in Entries : IF e \in Network!Dialled THEN WasUp(e) ELSE WasNotUp(e)
  BY <1>0 DEF Network!Dialled, WorldIsSeen, WasUp, WasNotUp
<1>4. Network!Dialled' = Network!Dialled
  BY <1>1 DEF Network!Dialled
<1>5. room' = Room \/ room' \in 1 .. Network!Cardinality(Entries) + 1
  BY <1>2 DEF Network!ras_enum_connections
<1>6. connected' \in {Network!Dialled, connected}
  BY DEF Network!ras_enum_connections
<1>7. at' = "connections_again" =>
         /\ connected' = connected
         /\ Network!Cardinality(Network!Dialled) < room' + changes
  BY <1>0, <1>2 DEF Network!ras_enum_connections
<1>8. at' = "entries" => connected' = Network!Dialled \/ (connected' = connected /\ changes >= 2)
  <2>1. at = "connections_again" => Network!Cardinality(Network!Dialled) < room + changes
    BY <1>0 DEF ListsAreTrue
  <2> QED
    BY <1>0, <1>2, <2>1 DEF Network!ras_enum_connections
<1>9. connected = {} /\ (InterfacesTold => \A e \in Entries : Shown(e) \/ WasNotUp(e))
  BY <1>0, <1>1 DEF ListsAreTrue, Asking, Naming
<1>10. ListsAreTrue'
  <2>1. \A e : (Shown(e)' <=> Shown(e)) /\ (WasUp(e)' <=> WasUp(e)) /\ (WasNotUp(e)' <=> WasNotUp(e))
    BY <1>1 DEF Shown, WasUp, WasNotUp
  <2>2. at' = "connections_again" => Network!Cardinality(Network!Dialled)' < room' + changes'
    BY <1>1, <1>4, <1>7
  <2>3. at' = "entries" => /\ \A e \in connected' : WasUp(e)
                           /\ ConnectionsTold' => \A e \in Entries \ connected' : WasNotUp(e)
    BY <1>0, <1>1, <1>2, <1>3, <1>8, <1>9 DEF ConnectionsTold
  <2> QED
    BY <1>1, <1>7, <1>9, <2>1, <2>2, <2>3 DEF ListsAreTrue, InterfacesTold, Reading, Asking, Naming
<1>11. \A a \in adapters' : AdapterIsTrue(a)'
  BY <1>0, <1>1 DEF AdapterIsTrue, WasUp, WasNotUp, InterfacesTold, ConnectionsTold, Reading, Asking
<1>12. WorldIsSeen' /\ Network!NothingTwice' /\ BookIsListed'
  BY <1>0, <1>1 DEF WorldIsSeen, BookIsListed, Network!NothingTwice, Asking
<1>13. CallIsTyped'
  BY <1>0, <1>1, <1>2, <1>5, <1>6 DEF CallIsTyped, Asking, Network!Steps
<1> QED
  BY <1>10, <1>11, <1>12, <1>13 DEF NetworkInv

(* The dialled connections could not be asked for. *)
LEMMA NetworkConnectionsFail ==
    ASSUME NetworkInv, Network!ras_connections_fail
    PROVE  NetworkInv'
<1>0. /\ WorldIsSeen /\ CallIsTyped /\ ListsAreTrue /\ BookIsListed /\ Network!NothingTwice
      /\ \A a \in adapters : AdapterIsTrue(a)
  BY DEF NetworkInv
<1>1. /\ at \in Asking /\ at' = "entries" /\ room' = Room /\ unread' = unread \cup {"connections"}
      /\ UNCHANGED <<book, card, changes, seen, card_stayed, connected, listed, adapters>>
  BY DEF Network!ras_connections_fail, Network!world, Network!Unread, Asking
<1>2. connected = {} /\ (InterfacesTold' <=> InterfacesTold) /\ ~ConnectionsTold'
  BY <1>0, <1>1 DEF ListsAreTrue, InterfacesTold, ConnectionsTold
<1>3. ListsAreTrue'
  BY <1>0, <1>1, <1>2 DEF ListsAreTrue, Reading, Asking, Naming, Shown, WasUp, WasNotUp
<1>4. \A a \in adapters' : AdapterIsTrue(a)'
  BY <1>0, <1>1, <1>2 DEF AdapterIsTrue, WasUp, WasNotUp, Reading, Asking, ConnectionsTold
<1>5. WorldIsSeen' /\ Network!NothingTwice' /\ BookIsListed'
  BY <1>0, <1>1 DEF WorldIsSeen, BookIsListed, Network!NothingTwice, Asking
<1>6. CallIsTyped'
  BY <1>0, <1>1 DEF CallIsTyped, Network!Steps, Network!Lists
<1> QED
  BY <1>3, <1>4, <1>5, <1>6 DEF NetworkInv

LEMMA NetworkEntriesStep ==
    ASSUME NetworkInv, Network!ras_enum_entries
    PROVE  NetworkInv'
<1> DEFINE entries == Network!InBook(book)
<1>0. /\ WorldIsSeen /\ CallIsTyped /\ ListsAreTrue /\ BookIsListed /\ Network!NothingTwice
      /\ \A a \in adapters : AdapterIsTrue(a)
      /\ Room \in Nat
  BY BoundsAssumption DEF NetworkInv, Network!BoundsAssumption
<1>1. /\ at \in {"entries", "entries_again"}
      /\ UNCHANGED <<book, card, changes, seen, card_stayed, unread, connected, adapters>>
  BY DEF Network!ras_enum_entries, Network!world
<1>2. /\ entries \in SUBSET Entries
      /\ Network!Cardinality(entries) \in Nat /\ room \in Nat
      /\ Network!Cardinality(entries) <= Network!Cardinality(Entries)
      /\ Network!Cardinality(Entries) \in Nat
  <2>1. entries \in SUBSET Entries
    BY DEF Network!InBook
  <2> QED
    BY <1>0, <2>1, CardinalityOfEntries DEF CallIsTyped
<1>3. entries' = entries
  BY <1>1 DEF Network!InBook
<1>4. \/ at' = "types" /\ listed' = entries /\ room' = room
      \/ /\ at' = "entries_again" /\ listed' = listed
         /\ room' = Network!Cardinality(entries) + 1
      \/ /\ at' = "done" /\ listed' = listed /\ room' = room
         /\ at = "entries_again" /\ Network!Cardinality(entries) > room
  BY DEF Network!ras_enum_entries
<1> HIDE DEF entries
<1>5. BookIsListed'
  <2> SUFFICES ASSUME Network!PhonebookStayed' PROVE BookIsListed'
    BY DEF BookIsListed
  <2>1. Network!PhonebookStayed
    BY <1>1 DEF Network!PhonebookStayed
  <2>2. at = "entries_again" => Network!Cardinality(entries) < room
    BY <1>0, <2>1 DEF BookIsListed, entries
  <2>3. at' # "done"
    BY <1>2, <1>4, <2>2
  <2>4. at' = "entries_again" => Network!Cardinality(entries) < room'
    BY <1>2, <1>4
  <2>5. at' = "types" => listed' = entries
    BY <1>4
  <2>6. Network!InBook(book)' = entries
    BY <1>3 DEF entries
  <2> QED
    BY <1>4, <2>3, <2>4, <2>5, <2>6 DEF BookIsListed
<1>6. ListsAreTrue'
  BY <1>0, <1>1, <1>4 DEF ListsAreTrue, Reading, Asking, Naming, Shown, WasUp, WasNotUp, InterfacesTold,
     ConnectionsTold
<1>7. \A a \in adapters' : AdapterIsTrue(a)'
  BY <1>0, <1>1 DEF AdapterIsTrue, WasUp, WasNotUp, InterfacesTold, ConnectionsTold, Reading
<1>8. CallIsTyped'
  BY <1>0, <1>1, <1>2, <1>4 DEF CallIsTyped, Reading, Network!Steps
<1>9. WorldIsSeen' /\ Network!NothingTwice'
  BY <1>0, <1>1 DEF WorldIsSeen, Network!NothingTwice
<1> QED
  BY <1>5, <1>6, <1>7, <1>8, <1>9 DEF NetworkInv

(* The phonebook could not be asked for. *)
LEMMA NetworkEntriesFail ==
    ASSUME NetworkInv, Network!ras_entries_fail
    PROVE  NetworkInv'
<1>0. /\ WorldIsSeen /\ CallIsTyped /\ ListsAreTrue /\ Network!NothingTwice
      /\ \A a \in adapters : AdapterIsTrue(a)
  BY DEF NetworkInv
<1>1. /\ at \in {"entries", "entries_again"} /\ at' = "done" /\ unread' = unread \cup {"entries"}
      /\ UNCHANGED <<book, card, changes, seen, card_stayed, room, connected, listed, adapters>>
  BY DEF Network!ras_entries_fail, Network!world, Network!Unread
<1>2. (InterfacesTold' <=> InterfacesTold) /\ (ConnectionsTold' <=> ConnectionsTold)
  BY <1>1 DEF InterfacesTold, ConnectionsTold
<1>3. ListsAreTrue' /\ BookIsListed'
  BY <1>1 DEF ListsAreTrue, BookIsListed, Reading, Asking, Naming
<1>4. \A a \in adapters' : AdapterIsTrue(a)'
  BY <1>0, <1>1, <1>2 DEF AdapterIsTrue, WasUp, WasNotUp, Reading
<1>5. WorldIsSeen' /\ Network!NothingTwice'
  BY <1>0, <1>1 DEF WorldIsSeen, Network!NothingTwice
<1>6. CallIsTyped'
  BY <1>0, <1>1 DEF CallIsTyped, Network!Steps, Network!Lists
<1> QED
  BY <1>3, <1>4, <1>5, <1>6 DEF NetworkInv

LEMMA NetworkTypesStep ==
    ASSUME NetworkInv, Network!add_ras_entries
    PROVE  NetworkInv'
<1> DEFINE added == {e \in listed : ~Shown(e)}
<1>0. /\ WorldIsSeen /\ CallIsTyped /\ ListsAreTrue /\ BookIsListed /\ Network!NothingTwice
      /\ \A a \in adapters : AdapterIsTrue(a)
      /\ Network!Card \notin Entries
  BY CardAssumption DEF NetworkInv, Network!CardAssumption
<1>1. /\ at = "types" /\ at' = "done"
      /\ UNCHANGED <<book, card, changes, seen, card_stayed, room, connected, listed>>
  BY DEF Network!add_ras_entries, Network!world
<1>2. PICK untold \in SUBSET listed :
        /\ unread' = IF untold = {} THEN unread ELSE unread \cup {"types"}
        /\ adapters' = adapters \cup {Network!RasEntry(e, e \notin untold) : e \in added}
  <2>1. \A e : Network!already_listed(e) <=> Shown(e)
    BY DEF Network!already_listed, Shown
  <2> QED
    BY <2>1 DEF Network!add_ras_entries
<1>3. \A e, told : Network!RasEntry(e, told).of = e
  BY DEF Network!RasEntry
<1>a. /\ (InterfacesTold' <=> InterfacesTold) /\ (ConnectionsTold' <=> ConnectionsTold)
      /\ unread \subseteq unread' /\ unread' \subseteq unread \cup {"types"}
      /\ "types" \notin unread' => untold = {}
      /\ unread' \cap {"folder", "entries"} = unread \cap {"folder", "entries"}
  BY <1>1, <1>2 DEF InterfacesTold, ConnectionsTold
<1>4. ASSUME NEW e \in added, NEW b, b = Network!RasEntry(e, e \notin untold) PROVE AdapterIsTrue(b)'
  <2>1. e \in Entries /\ ~Shown(e) /\ book[e] \in seen[e]
    BY <1>0 DEF CallIsTyped, WorldIsSeen
  <2>2. /\ b \in Network!Adapter /\ b.of = e /\ b.from = "phonebook"
        /\ b.link = IF e \in connected THEN "Connected" ELSE "Disconnected"
        /\ book[e] # "absent" /\ e \notin untold => b.type = "Tunnel"
    BY <1>4, <2>1 DEF Network!RasEntry, Network!ras_entry_type, Network!Link, Network!Adapter
  <2>3. e \in connected => WasUp(e)
    BY <1>0, <1>1 DEF ListsAreTrue, Naming
  <2>4. e \notin connected /\ (InterfacesTold \/ ConnectionsTold) => WasNotUp(e)
    BY <1>0, <1>1, <2>1 DEF ListsAreTrue, Naming
  <2> QED
    BY <1>0, <1>1, <1>a, <2>1, <2>2, <2>3, <2>4 DEF AdapterIsTrue, WasUp, WasNotUp
<1>5. \A a \in adapters : AdapterIsTrue(a)'
  BY <1>0, <1>1, <1>a DEF AdapterIsTrue, WasUp, WasNotUp, Reading
<1>6. \A a \in adapters' : AdapterIsTrue(a)'
  BY <1>2, <1>4, <1>5
<1>7. Network!NothingTwice'
  BY <1>0, <1>2, <1>3 DEF Network!NothingTwice, Shown
<1>8. \A e \in listed : Shown(e)'
  <2> SUFFICES ASSUME NEW e \in listed PROVE \E a \in adapters' : a.of = e
    BY DEF Shown
  <2>1. CASE Shown(e)
    BY <1>2, <2>1 DEF Shown
  <2>2. CASE ~Shown(e)
    BY <1>2, <1>3, <2>2
  <2> QED
    BY <2>1, <2>2
<1>9. BookIsListed'
  BY <1>0, <1>1, <1>8, <1>a DEF BookIsListed, Network!PhonebookStayed, Network!InBook
<1>10. WorldIsSeen' /\ CallIsTyped' /\ ListsAreTrue'
  BY <1>0, <1>1, <1>a DEF WorldIsSeen, CallIsTyped, ListsAreTrue, Reading, Asking, Naming, Network!Steps,
     Network!Lists
<1> QED
  BY <1>6, <1>7, <1>9, <1>10 DEF NetworkInv

LEMMA NetworkCallAgain ==
    ASSUME NetworkInv, Network!call_again
    PROVE  NetworkInv'
<1>0. WorldIsSeen /\ NetworkChanges \in Nat
  BY BoundsAssumption DEF NetworkInv, Network!BoundsAssumption
<1>1. /\ at' = "folder" /\ changes' = 0 /\ seen' = [e \in Entries |-> {book[e]}]
      /\ card_stayed' = card /\ unread' = {} /\ room' = Room
      /\ connected' = {} /\ listed' = {} /\ adapters' = {} /\ UNCHANGED <<book, card>>
  BY DEF Network!call_again
<1>3. WorldIsSeen'
  BY <1>0, <1>1 DEF WorldIsSeen
<1>4. CallIsTyped'
  BY <1>1 DEF CallIsTyped, Network!Steps
<1>5. ListsAreTrue' /\ BookIsListed' /\ Network!NothingTwice'
  BY <1>1 DEF ListsAreTrue, BookIsListed, Asking, Naming, Network!NothingTwice
<1> QED
  BY <1>1, <1>3, <1>4, <1>5 DEF NetworkInv

LEMMA NetworkStep == NetworkInv /\ [Next]_vars => NetworkInv'
<1> SUFFICES ASSUME NetworkInv, [Next]_vars PROVE NetworkInv'
  OBVIOUS
<1>1. CASE Network!Next
  BY <1>1, NetworkWorldStep, NetworkFolderStep, NetworkMatchStep, NetworkInterfacesStep,
     NetworkConnectionsStep, NetworkConnectionsFail, NetworkEntriesStep, NetworkEntriesFail,
     NetworkTypesStep, NetworkCallAgain DEF Network!Next
<1>2. CASE UNCHANGED network
  <2>0. UNCHANGED <<book, card, changes, seen, card_stayed, at, unread, room, connected, listed,
                    adapters>>
    BY <1>2 DEF network
  <2>1. Network!NothingTwice' <=> Network!NothingTwice
    BY <2>0 DEF Network!NothingTwice
  <2>2. WorldIsSeen /\ CallIsTyped /\ ListsAreTrue /\ BookIsListed
        /\ \A a \in adapters : AdapterIsTrue(a)
    BY DEF NetworkInv
  <2>3. \A a \in adapters' : AdapterIsTrue(a)'
    BY <2>0, <2>2 DEF AdapterIsTrue, WasUp, WasNotUp, InterfacesTold, ConnectionsTold
  <2>4. WorldIsSeen' /\ CallIsTyped'
    BY <2>0, <2>2 DEF WorldIsSeen, CallIsTyped
  <2>5. Network!Dialled' = Network!Dialled /\ Network!InBook(book)' = Network!InBook(book)
    BY <2>0 DEF Network!Dialled, Network!InBook
  <2>6. ListsAreTrue' /\ BookIsListed'
    BY <2>0, <2>2, <2>5 DEF ListsAreTrue, BookIsListed, Shown, WasUp, WasNotUp, InterfacesTold,
       ConnectionsTold, Network!PhonebookStayed
  <2> QED
    BY <2>1, <2>3, <2>4, <2>6 DEF NetworkInv
<1> QED
  BY <1>1, <1>2, NetworkMoves

LEMMA NetworkInvariant == Spec => []NetworkInv
  BY NetworkInit, NetworkStep, PTL DEF Spec

(* Whatever is dialled, hung up, added and removed between two calls, and  *)
(* whichever of them fail: each adapter once, and of what could be read    *)
(* all that were there, typed as what they are, with a link that they had  *)
(* at some moment (WindowsNetworkProbe::enumerate).                        *)
THEOREM AdaptersSurviveChange == Spec => []AdaptersAreTrue
<1>1. ASSUME NetworkInv PROVE Network!TypeOK
  <2>1. /\ WorldIsSeen /\ CallIsTyped /\ \A a \in adapters : AdapterIsTrue(a)
    BY <1>1 DEF NetworkInv
  <2>2. adapters \subseteq Network!Adapter
    BY <2>1 DEF AdapterIsTrue
  <2> QED
    BY <2>1, <2>2 DEF Network!TypeOK, WorldIsSeen, CallIsTyped
<1>2. ASSUME NetworkInv PROVE Network!EntriesAreShown
  BY <1>2 DEF NetworkInv, BookIsListed, Shown, Network!EntriesAreShown
<1>3. ASSUME NetworkInv PROVE Network!LinkWasTrueOnce
  BY <1>3 DEF NetworkInv, AdapterIsTrue, WasUp, WasNotUp, InterfacesTold, ConnectionsTold,
     Network!LinkWasTrueOnce
<1>4. ASSUME NetworkInv PROVE Network!TypesAreTheirs
  BY <1>4 DEF NetworkInv, AdapterIsTrue, InterfacesTold, Reading, Network!TypesAreTheirs
<1>5. NetworkInv => AdaptersAreTrue
  BY <1>1, <1>2, <1>3, <1>4 DEF AdaptersAreTrue, NetworkInv
<1> QED
  BY <1>5, NetworkInvariant, PTL

-----------------------------------------------------------------------------
(* DdsProbe.  A wait is over only after a tick in which the bus had nothing *)
(* left to deliver, so that whoever was there for all of it was told of;    *)
(* and the parts of a look go in the order in which they need each other.   *)

Found == {"information", "lookup", "opening", "reading", "taken"}
InfoOK(i) ==
    /\ i \in [type : Types \cup {Look!None}, complete : BOOLEAN, minimal : BOOLEAN]
    /\ i.complete \/ i.minimal => i.type \in Types

LookBus ==
    /\ offer \in [Writers -> Offers \cup {Look!NoOffer}]
    /\ kept \in [Writers -> Values \cup {Look!None, Look!Disposed}]
    /\ inbox \in [Writers -> Values \cup {Look!None, Look!Disposed}]
    /\ bus_changes \in 0 .. BusChanges
    /\ registry \subseteq Types \X {"complete", "minimal"}
    /\ events \subseteq [writer : Writers, offer : Offers] /\ matching \subseteq Writers
    /\ InfoOK(watcher.information) /\ InfoOK(information)

LookPlaces ==
    /\ pc \in {"idle", "discovery", "teardown"} \cup Found /\ left \in 0 .. Wait
    /\ pc = "idle" => ~participant /\ ~listeners
    /\ pc \in {"discovery"} \cup Found => participant
    /\ participant => listeners
    /\ reader # Look!None => participant /\ pc \in {"reading", "taken", "teardown"}
    /\ reader = Look!None => matching = {}

LookSample ==
    /\ pc = "discovery" => sample = Look!Nothing
    /\ pc \in Found => sample = [Look!Nothing EXCEPT !.topic_found = TRUE]
    /\ pc = "taken" => data \in Values \cup {Look!Disposed}
    /\ sample.has_sample =>
          sample.topic_found /\ sample.error = Look!None /\ sample.json \in Values

(* Who was there for all of the discovery wait has been told of, or is     *)
(* about to be; after a tick there was nobody.                             *)
StayedAreTold ==
    pc = "discovery" /\ ~watcher.found =>
        /\ \A w \in stayed : \E e \in events : e.writer = w
        /\ left < Wait => stayed = {}

(* And who has had a value since the reader was opened has sent it. *)
OwedAreHeard ==
    pc = "reading" =>
        /\ \A w \in owed :
              /\ Look!Compatible(w, reader) /\ kept[w] \in Values
              /\ w \in matching => inbox[w] # Look!None
        /\ left < Wait => owed \subseteq matching /\ (owed = {} \/ refused)

(* The description that is asked for is found if it came while there was   *)
(* time to look for it.                                                    *)
FetchedIsFound ==
    pc = "lookup" =>
        /\ left > 0 => had = registry
        /\ left = 0 => \A form \in {"complete", "minimal"} :
                         ~(information[form] /\ <<information.type, form>> \in had)

LookInv ==
    LookBus /\ LookPlaces /\ LookSample /\ StayedAreTold /\ OwedAreHeard /\ FetchedIsFound

LEMMA LookMoves == [Next]_vars => Look!Next \/ UNCHANGED look
  BY Zenon DEF Next, vars

LEMMA OffersAreTyped ==
    /\ \A o \in Offers : /\ o.type \in Types /\ o.durable \in BOOLEAN
                         /\ o.complete \in BOOLEAN /\ o.minimal \in BOOLEAN
    /\ Look!None \notin Types /\ Look!None \notin Values
    /\ Wait \in Nat /\ Wait > 0 /\ BusChanges \in Nat /\ Unprojectable \subseteq Values
  BY ProbeAssumption DEF Look!ProbeAssumption

LEMMA InfoOfNobody == InfoOK(Look!NoInformation)
  BY DEF InfoOK, Look!NoInformation

LEMMA LookInit == Init => LookInv
<1> SUFFICES ASSUME Init PROVE LookInv
  OBVIOUS
<1>1. Look!Init
  BY DEF Init
<1>2. LookBus
  BY <1>1, InfoOfNobody, OffersAreTyped DEF LookBus, Look!Init, Look!NotFound
<1>3. LookPlaces /\ StayedAreTold /\ OwedAreHeard /\ FetchedIsFound
  BY <1>1, OffersAreTyped DEF LookPlaces, StayedAreTold, OwedAreHeard, FetchedIsFound, Look!Init, Found
<1>4. LookSample
  BY <1>1 DEF LookSample, Look!Init, Look!Nothing, Found
<1> QED
  BY <1>2, <1>3, <1>4 DEF LookInv

LEMMA LookBusStep ==
    ASSUME LookInv,
           \/ \E w \in Writers : Look!WriterJoins(w)
           \/ \E w \in Writers : Look!WriterLeaves(w)
           \/ \E w \in Writers, value \in Values \cup {Look!Disposed} : Look!Writes(w, value)
    PROVE  LookInv'
<1>0. LookBus /\ LookPlaces /\ LookSample /\ StayedAreTold /\ OwedAreHeard /\ FetchedIsFound
  BY DEF LookInv
<1>1. /\ UNCHANGED <<registry, participant, reader, listeners, watcher, pc, left, type_name,
                     information, data, sample>>
      /\ bus_changes < BusChanges /\ bus_changes' = bus_changes + 1
  BY DEF Look!WriterJoins, Look!WriterLeaves, Look!Writes, Look!Idle, Look!Changing, Look!run
<1>2. /\ LookSample' /\ bus_changes' \in 0 .. BusChanges /\ FetchedIsFound'
      /\ UNCHANGED <<had, refused>>
  <2>1. UNCHANGED <<had, refused>>
    BY DEF Look!WriterJoins, Look!WriterLeaves, Look!Writes, Look!hist
  <2>2. FetchedIsFound'
    BY <1>0, <1>1, <2>1 DEF FetchedIsFound
  <2> QED
    BY <1>0, <1>1, <2>1, <2>2, OffersAreTyped DEF LookSample, LookBus
<1>3. CASE \E w \in Writers : Look!WriterJoins(w)
  <2>1. PICK w \in Writers : Look!WriterJoins(w)
    BY <1>3
  <2>2. PICK o \in Offers : offer' = [offer EXCEPT ![w] = o] /\ Look!Tell(w, o)
    BY <2>1 DEF Look!WriterJoins
  <2>3. /\ kept' = [kept EXCEPT ![w] = Look!None] /\ offer[w] = Look!NoOffer
        /\ UNCHANGED <<matching, inbox, stayed, owed, met>>
    BY <2>1 DEF Look!WriterJoins, Look!hist, Look!Here
  <2>4. events \subseteq events' /\ events' \subseteq [writer : Writers, offer : Offers]
    BY <1>0, <2>2 DEF Look!Tell, LookBus
  <2>5. LookBus'
    BY <1>0, <1>1, <1>2, <2>2, <2>3, <2>4 DEF LookBus
  <2>6. LookPlaces' /\ StayedAreTold'
    BY <1>0, <1>1, <2>3, <2>4 DEF LookPlaces, StayedAreTold
  <2>7. OwedAreHeard'
    BY <1>0, <1>1, <1>2, <2>2, <2>3 DEF OwedAreHeard, LookBus, Look!Compatible, Look!Here
  <2> QED
    BY <1>2, <2>5, <2>6, <2>7 DEF LookInv
<1>4. CASE \E w \in Writers : Look!WriterLeaves(w)
  <2>1. PICK w \in Writers : Look!WriterLeaves(w)
    BY <1>4
  <2>2. /\ offer' = [offer EXCEPT ![w] = Look!NoOffer]
        /\ kept' = [kept EXCEPT ![w] = Look!None]
        /\ matching' = matching \ {w} /\ stayed' = stayed \ {w} /\ owed' = owed \ {w}
        /\ UNCHANGED <<inbox, met>> /\ offer[w] # Look!NoOffer /\ Look!Tell(w, offer[w])
    BY <2>1 DEF Look!WriterLeaves, Look!Here
  <2>3. offer[w] \in Offers
    BY <1>0, <2>2 DEF LookBus
  <2>4. events \subseteq events' /\ events' \subseteq [writer : Writers, offer : Offers]
    BY <1>0, <2>2, <2>3 DEF Look!Tell, LookBus
  <2>5. LookBus'
    BY <1>0, <1>1, <1>2, <2>2, <2>4 DEF LookBus
  <2>6. LookPlaces' /\ StayedAreTold'
    BY <1>0, <1>1, <2>2, <2>4 DEF LookPlaces, StayedAreTold
  <2>7. OwedAreHeard'
    BY <1>0, <1>1, <1>2, <2>2 DEF OwedAreHeard, LookBus, Look!Compatible, Look!Here
  <2> QED
    BY <1>2, <2>5, <2>6, <2>7 DEF LookInv
<1>5. CASE \E w \in Writers, value \in Values \cup {Look!Disposed} : Look!Writes(w, value)
  <2>1. PICK w \in Writers, value \in Values \cup {Look!Disposed} : Look!Writes(w, value)
    BY <1>5
  <2>2. /\ kept' = [kept EXCEPT ![w] = value]
        /\ inbox' = IF w \in matching THEN [inbox EXCEPT ![w] = value] ELSE inbox
        /\ owed' = IF value = Look!Disposed THEN owed \ {w} ELSE owed
        /\ UNCHANGED <<offer, matching, events, stayed, met>>
    BY <2>1 DEF Look!Writes
  <2>3. LookBus'
    BY <1>0, <1>1, <1>2, <2>2 DEF LookBus
  <2>4. LookPlaces' /\ StayedAreTold'
    BY <1>0, <1>1, <2>2 DEF LookPlaces, StayedAreTold
  <2>5. Look!None # value \/ value = Look!Disposed
    BY OffersAreTyped
  <2>6. OwedAreHeard'
    BY <1>0, <1>1, <1>2, <2>2, <2>5 DEF OwedAreHeard, LookBus, Look!Compatible, Look!Here
  <2> QED
    BY <1>2, <2>3, <2>4, <2>6 DEF LookInv
<1> QED
  BY <1>3, <1>4, <1>5

(* The threads of Fast DDS, between two steps of the look. *)
LEMMA LookCallbackStep ==
    ASSUME LookInv, Look!TypeFetched \/ Look!Callbacks
    PROVE  LookInv'
<1>0. LookBus /\ LookPlaces /\ LookSample /\ StayedAreTold /\ OwedAreHeard /\ FetchedIsFound
  BY DEF LookInv
<1>1. CASE Look!TypeFetched
  <2>1. UNCHANGED <<offer, kept, bus_changes, participant, reader, listeners, events, watcher,
                    matching, inbox, pc, left, type_name, information, data, sample, stayed, owed, met,
                    refused>>
    BY <1>1 DEF Look!TypeFetched, Look!dds, Look!run
  <2>2. PICK i \in {watcher.information, information}, form \in {"complete", "minimal"} :
             i[form] /\ registry' = registry \cup {<<i.type, form>>}
    BY <1>1 DEF Look!TypeFetched
  <2>3. i.type \in Types
    BY <1>0, <2>2 DEF LookBus, InfoOK
  <2>4. LookBus'
    BY <1>0, <2>1, <2>2, <2>3 DEF LookBus
  <2>5. LookPlaces' /\ LookSample' /\ StayedAreTold' /\ OwedAreHeard'
    BY <1>0, <2>1 DEF LookPlaces, LookSample, StayedAreTold, OwedAreHeard, Look!Compatible, Look!Here
  <2>6. had' = IF pc = "lookup" /\ left > 0 THEN registry' ELSE had
    BY <1>1 DEF Look!TypeFetched
  <2>7. FetchedIsFound'
    BY <1>0, <2>1, <2>6 DEF FetchedIsFound, LookPlaces
  <2> QED
    BY <2>4, <2>5, <2>7 DEF LookInv
<1>2. CASE Look!on_data_writer_discovery
  <2>1. UNCHANGED <<offer, kept, bus_changes, registry, participant, reader, listeners,
                    matching, inbox, pc, left, type_name, information, data, sample, stayed, owed, met,
                    had, refused>>
    BY <1>2 DEF Look!on_data_writer_discovery, Look!bus, Look!run, Look!hist
  <2>2. PICK e \in events : watcher' = Look!Told(e.offer) /\ events' = events \ {e}
    BY <1>2 DEF Look!on_data_writer_discovery
  <2>3. e.offer \in Offers
    BY <1>0 DEF LookBus
  <2>4. watcher'.found /\ InfoOK(watcher'.information)
    BY <2>2, <2>3, OffersAreTyped DEF Look!Told, InfoOK
  <2>5. LookBus'
    BY <1>0, <2>1, <2>2, <2>4 DEF LookBus
  <2>6. LookPlaces' /\ LookSample' /\ StayedAreTold' /\ OwedAreHeard' /\ FetchedIsFound'
    BY <1>0, <2>1, <2>4 DEF LookPlaces, LookSample, StayedAreTold, OwedAreHeard, FetchedIsFound,
       Look!Compatible, Look!Here
  <2> QED
    BY <2>5, <2>6 DEF LookInv
<1>3. CASE \E w \in Writers : Look!on_subscription_matched(w)
  <2>1. PICK w \in Writers : Look!on_subscription_matched(w)
    BY <1>3
  <2>2. /\ UNCHANGED <<offer, kept, bus_changes, registry, participant, reader, listeners, events,
                       watcher, pc, left, type_name, information, data, sample, stayed, owed,
                       had, refused>>
        /\ matching' = matching \cup {w} /\ inbox' = [inbox EXCEPT ![w] = kept[w]]
        /\ reader # Look!None
    BY <2>1 DEF Look!on_subscription_matched, Look!History, Look!Matchable, Look!bus, Look!run
  <2>3. LookBus'
    BY <1>0, <2>2 DEF LookBus
  <2>4. LookPlaces' /\ LookSample' /\ StayedAreTold' /\ FetchedIsFound'
    BY <1>0, <2>2 DEF LookPlaces, LookSample, StayedAreTold, FetchedIsFound
  <2>5. OwedAreHeard'
    BY <1>0, <2>2, OffersAreTyped DEF OwedAreHeard, LookBus, Look!Compatible, Look!Here
  <2> QED
    BY <2>3, <2>4, <2>5 DEF LookInv
<1> QED
  BY <1>1, <1>2, <1>3 DEF Look!Callbacks

(* After a tick nobody is left that was there all along and not told of,   *)
(* nor one that was owed and not heard.                                    *)
LEMMA LookTick ==
    ASSUME LookInv, Look!Tick \/ Look!take_fails
    PROVE  LookInv'
<1>0. LookBus /\ LookPlaces /\ LookSample /\ StayedAreTold /\ OwedAreHeard /\ FetchedIsFound
  BY DEF LookInv
<1>1. /\ UNCHANGED <<offer, kept, bus_changes, registry, participant, reader, listeners, events, watcher,
                     matching, inbox, pc, type_name, information, data, sample, stayed, owed, met,
                     had>>
      /\ left > 0 /\ left' = left - 1 /\ events = {} /\ Look!Matchable = {}
      /\ IF Look!take_fails THEN refused' = TRUE ELSE refused' = refused
  BY DEF Look!Tick, Look!take_fails, Look!bus, Look!dds, Look!hist
<1>2. LookBus' /\ LookSample'
  BY <1>0, <1>1 DEF LookBus, LookSample
<1>3. LookPlaces'
  BY <1>0, <1>1, OffersAreTyped DEF LookPlaces
<1>4. StayedAreTold'
  BY <1>0, <1>1 DEF StayedAreTold
<1>5. ASSUME pc = "reading" PROVE owed \subseteq matching /\ (owed = {} \/ refused')
  <2>1. ASSUME NEW w \in owed PROVE w \in matching /\ inbox[w] # Look!None /\ w \in Writers
    <3>1. /\ Look!Compatible(w, reader) /\ (w \in matching => inbox[w] # Look!None)
          /\ w \in Writers /\ w \in Look!Here
      BY <1>0, <1>5 DEF OwedAreHeard, Look!Compatible, Look!Here
    <3>2. offer[w] \in Offers
      BY <1>0, <3>1 DEF LookBus, Look!Here
    <3>3. reader # Look!None
      BY <3>1, <3>2, OffersAreTyped DEF Look!Compatible
    <3>4. w \in matching
      BY <1>1, <3>1, <3>3 DEF Look!Matchable, Look!Announced
    <3> QED
      BY <3>1, <3>4
  <2>2. CASE Look!take_fails
    BY <1>1, <2>1, <2>2
  <2>3. CASE Look!Tick
    <3>1. \A w \in Writers : inbox[w] = Look!None
      BY <1>5, <2>3 DEF Look!Tick
    <3> QED
      BY <2>1, <3>1
  <2> QED
    BY <2>2, <2>3
<1>6. OwedAreHeard'
  <2>1. OwedAreHeard /\ (pc = "reading" => owed \subseteq matching /\ (owed = {} \/ refused'))
    BY <1>0, <1>5
  <2> QED
    BY <1>1, <2>1 DEF OwedAreHeard, Look!Compatible, Look!Here
<1>7. FetchedIsFound'
  <2>1. pc = "lookup" => ~Look!TypeObjectThere
    BY DEF Look!Tick, Look!take_fails
  <2>2. left \in Nat
    BY <1>0, OffersAreTyped DEF LookPlaces
  <2> QED
    BY <1>0, <1>1, <2>1, <2>2 DEF FetchedIsFound, Look!TypeObjectThere
<1> QED
  BY <1>2, <1>3, <1>4, <1>6, <1>7 DEF LookInv

(* The look begins, or cannot. *)
LEMMA LookBegins ==
    ASSUME LookInv, Look!look \/ Look!no_participant
    PROVE  LookInv'
<1>0. LookBus /\ LookPlaces /\ LookSample
  BY DEF LookInv
<1>1. /\ UNCHANGED <<offer, kept, bus_changes, registry, reader, matching, inbox, type_name, information>>
      /\ pc = "idle" /\ listeners' = TRUE /\ watcher' = Look!NotFound
  BY DEF Look!look, Look!no_participant, Look!bus
<1>2. reader = Look!None /\ matching = {}
  BY <1>0, <1>1 DEF LookPlaces, Found
<1>3. InfoOK(watcher'.information) /\ InfoOK(information')
  BY <1>0, <1>1, InfoOfNobody DEF LookBus, Look!NotFound
<1>4. CASE Look!look
  <2>1. /\ participant' = TRUE /\ pc' = "discovery" /\ left' = Wait /\ sample' = Look!Nothing
        /\ events' = {[writer |-> w, offer |-> offer[w]] : w \in Look!Here} /\ stayed' = Look!Here
    BY <1>4 DEF Look!look, Look!Go
  <2>2. events' \subseteq [writer : Writers, offer : Offers]
    BY <1>0, <2>1 DEF LookBus, Look!Here
  <2>3. LookBus'
    BY <1>0, <1>1, <1>3, <2>2 DEF LookBus
  <2>4. LookPlaces' /\ LookSample'
    BY <1>0, <1>1, <1>2, <2>1, OffersAreTyped DEF LookPlaces, LookSample, Found, Look!Nothing
  <2>5. \A w \in stayed' : \E e \in events' : e.writer = w
    <3> SUFFICES ASSUME NEW w \in Look!Here PROVE \E e \in events' : e.writer = w
      BY <2>1
    <3>1. [writer |-> w, offer |-> offer[w]] \in events'
      BY <2>1
    <3> QED
      BY <3>1
  <2>6. StayedAreTold' /\ OwedAreHeard' /\ FetchedIsFound'
    BY <2>1, <2>5, OffersAreTyped DEF StayedAreTold, OwedAreHeard, FetchedIsFound
  <2> QED
    BY <2>3, <2>4, <2>6 DEF LookInv
<1>5. CASE Look!no_participant
  <2>1. /\ UNCHANGED <<participant, events, data>> /\ pc' = "teardown" /\ left' = 0
        /\ sample' = Look!failed("could_not_join_DDS_domain")
    BY <1>5 DEF Look!no_participant, Look!Go
  <2>2. LookBus'
    BY <1>0, <1>1, <1>3, <2>1 DEF LookBus
  <2>3. LookPlaces' /\ LookSample'
    BY <1>0, <1>1, <1>2, <2>1, OffersAreTyped
    DEF LookPlaces, LookSample, Found, Look!Nothing, Look!failed
  <2>4. StayedAreTold' /\ OwedAreHeard' /\ FetchedIsFound'
    BY <2>1 DEF StayedAreTold, OwedAreHeard, FetchedIsFound
  <2> QED
    BY <2>2, <2>3, <2>4 DEF LookInv
<1> QED
  BY <1>4, <1>5

(* run() goes on to its next wait. *)
LEMMA LookGoesOn ==
    ASSUME LookInv,
           \/ Look!discovery_ends \/ Look!read_information \/ Look!type_object_found
           \/ Look!open_reader
    PROVE  LookInv'
<1>0. LookBus /\ LookPlaces /\ LookSample
  BY DEF LookInv
<1>1. /\ UNCHANGED <<offer, kept, bus_changes, registry, participant, listeners, events, watcher,
                     matching, inbox, data>>
      /\ left' \in {0, Wait}
  BY DEF Look!discovery_ends, Look!read_information, Look!type_object_found, Look!open_reader,
     Look!bus, Look!dds, Look!Go
<1>2. CASE Look!discovery_ends \/ Look!read_information \/ Look!type_object_found
  <2>1. /\ pc \in {"discovery", "information", "lookup"} /\ pc' \in {"information", "lookup", "opening"}
        /\ information' \in {information, watcher.information} /\ reader' = reader
        /\ IF pc = "discovery" THEN sample' = [sample EXCEPT !.topic_found = TRUE]
                               ELSE sample' = sample
    BY <1>2 DEF Look!discovery_ends, Look!read_information, Look!type_object_found, Look!dds, Look!Go
  <2>2. LookBus'
    BY <1>0, <1>1, <2>1 DEF LookBus
  <2>3. LookPlaces'
    BY <1>0, <1>1, <2>1, OffersAreTyped DEF LookPlaces, Found
  <2>4. sample' = [Look!Nothing EXCEPT !.topic_found = TRUE]
    BY <1>0, <2>1 DEF LookSample, Found, Look!Nothing
  <2>5. LookSample'
    BY <1>0, <2>1, <2>4 DEF LookSample, Found, Look!Nothing
  <2>6. StayedAreTold' /\ OwedAreHeard'
    BY <2>1 DEF StayedAreTold, OwedAreHeard
  <2>7. pc' = "lookup" => left' = Wait /\ had' = registry'
    BY <1>1, <1>2 DEF Look!discovery_ends, Look!read_information, Look!type_object_found, Look!Go
  <2>8. FetchedIsFound'
    BY <2>7, OffersAreTyped DEF FetchedIsFound
  <2> QED
    BY <2>2, <2>3, <2>5, <2>6, <2>8 DEF LookInv
<1>3. CASE Look!open_reader
  <2>1. /\ pc = "opening" /\ pc' = "reading" /\ left' = Wait
        /\ UNCHANGED <<information, sample>>
        /\ owed' = {w \in Look!Here : Look!Compatible(w, reader') /\ kept[w] \in Values}
    BY <1>3 DEF Look!open_reader, Look!Go
  <2>2. matching = {} /\ participant
    BY <1>0, <2>1 DEF LookPlaces, Found
  <2>3. LookBus'
    BY <1>0, <1>1, <2>1 DEF LookBus
  <2>4. LookPlaces' /\ LookSample'
    BY <1>0, <1>1, <2>1, <2>2, OffersAreTyped DEF LookPlaces, LookSample, Found
  <2>5. StayedAreTold' /\ OwedAreHeard' /\ FetchedIsFound'
    BY <1>1, <2>1, <2>2, OffersAreTyped DEF StayedAreTold, OwedAreHeard, FetchedIsFound, Look!Compatible,
       Look!Here
  <2> QED
    BY <2>3, <2>4, <2>5 DEF LookInv
<1> QED
  BY <1>2, <1>3

LEMMA LookTakes ==
    ASSUME LookInv, NEW w \in Writers, Look!take_next_sample(w)
    PROVE  LookInv'
<1>0. LookBus /\ LookPlaces /\ LookSample
  BY DEF LookInv
<1>1. /\ UNCHANGED <<offer, kept, bus_changes, registry, participant, reader, listeners, events,
                     watcher, matching, information, sample>>
      /\ pc = "reading" /\ pc' = "taken" /\ left' = 0
      /\ inbox[w] # Look!None /\ data' = inbox[w] /\ inbox' = [inbox EXCEPT ![w] = Look!None]
  BY DEF Look!take_next_sample, Look!Go, Look!bus
<1>2. LookBus' /\ data' \in Values \cup {Look!Disposed}
  BY <1>0, <1>1 DEF LookBus
<1>3. LookPlaces' /\ LookSample' /\ StayedAreTold' /\ OwedAreHeard' /\ FetchedIsFound'
  BY <1>0, <1>1, <1>2, OffersAreTyped DEF LookPlaces, LookSample, Found, StayedAreTold, OwedAreHeard,
     FetchedIsFound
<1> QED
  BY <1>2, <1>3 DEF LookInv

(* What a look returns. *)
SampleOK(s) == s.has_sample => s.topic_found /\ s.error = Look!None /\ s.json \in Values
Returns == Look!discovery_times_out \/ Look!type_object_missing \/ Look!cannot_open
           \/ Look!reading_times_out \/ Look!project \/ Look!look_throws

LEMMA WhatIsReturned ==
    ASSUME LookInv, Returns
    PROVE  /\ pc' = "teardown" /\ left' = 0 /\ pc \in {"discovery"} \cup Found
           /\ UNCHANGED <<offer, kept, bus_changes, registry, participant, reader, listeners, events,
                          watcher, matching, inbox, information, data, owed, stayed>>
           /\ SampleOK(sample')
           /\ ~sample'.topic_found /\ sample'.error = Look!None => stayed = {}
           /\ sample'.topic_found /\ ~sample'.has_sample /\ sample'.error = Look!None
                => owed = {} \/ data = Look!Disposed \/ refused
           /\ sample'.error = "no_reader_could_be_matched" => owed = {}
           /\ sample'.error = "no_type_description" =>
                 \A form \in {"complete", "minimal"} :
                    ~(information[form] /\ <<information.type, form>> \in had)
<1> USE OffersAreTyped DEF SampleOK, LookSample, Found, Look!Nothing, Look!None
<1>0. LookPlaces /\ LookSample /\ StayedAreTold /\ OwedAreHeard
  BY DEF LookInv
<1>1. CASE Look!discovery_times_out
  <2>1. pc = "discovery" /\ left = 0 /\ ~watcher.found /\ sample' = Look!Nothing
        /\ Look!Return(sample)
    BY <1>0, <1>1 DEF Look!discovery_times_out, Look!Return
  <2> QED
    BY <1>0, <2>1 DEF StayedAreTold, Look!Return, Look!bus, Look!dds, Look!hist
<1>2. CASE Look!type_object_missing
  <2>1. /\ pc = "lookup" /\ (left = 0 \/ ~(information.complete \/ information.minimal))
        /\ Look!Return([sample EXCEPT !.error = "no_type_description"])
    BY <1>2 DEF Look!type_object_missing
  <2>2. \A form \in {"complete", "minimal"} :
           ~(information[form] /\ <<information.type, form>> \in had)
    BY <2>1 DEF LookInv, FetchedIsFound
  <2> QED
    BY <1>0, <2>1, <2>2 DEF Look!Return, Look!bus, Look!dds, Look!hist
<1>3. CASE Look!cannot_open
  <2>1. pc = "opening" /\ Look!Return([sample EXCEPT !.error = "could_not_create"])
    BY <1>3 DEF Look!cannot_open
  <2> QED
    BY <1>0, <2>1 DEF Look!Return, Look!bus, Look!dds, Look!hist
<1>4. CASE Look!reading_times_out
  <2>1. /\ pc = "reading" /\ left = 0
        /\ Look!Return(IF matching = {} THEN [sample EXCEPT !.error = "no_reader_could_be_matched"]
                       ELSE sample)
    BY <1>4 DEF Look!reading_times_out
  <2>2. owed \subseteq matching /\ (owed = {} \/ refused)
    BY <1>0, <2>1 DEF OwedAreHeard
  <2> QED
    BY <1>0, <2>1, <2>2 DEF Look!Return, Look!bus, Look!dds, Look!hist
<1>5. CASE Look!project
  <2>1. pc = "taken" /\ data \in Values \cup {Look!Disposed}
    BY <1>0, <1>5 DEF Look!project
  <2> QED
    BY <1>0, <1>5, <2>1 DEF Look!project, Look!Return, Look!bus, Look!dds, Look!hist
<1>6. CASE Look!look_throws
  <2>1. /\ pc \in {"information", "opening", "taken"}
        /\ Look!Return(Look!failed("reading_the_DDS_bus_failed"))
    BY <1>6 DEF Look!look_throws
  <2> QED
    BY <2>1 DEF Look!failed, Look!Return, Look!bus, Look!dds, Look!hist
<1> QED
  BY <1>1, <1>2, <1>3, <1>4, <1>5, <1>6 DEF Returns

LEMMA LookReturns ==
    ASSUME LookInv, Returns
    PROVE  LookInv'
<1>0. LookBus /\ LookPlaces
  BY DEF LookInv
<1>1. /\ pc' = "teardown" /\ left' = 0 /\ pc \in {"discovery"} \cup Found
      /\ UNCHANGED <<offer, kept, bus_changes, registry, participant, reader, listeners, events,
                     watcher, matching, inbox, information, data, owed, stayed>>
      /\ SampleOK(sample')
  BY WhatIsReturned
<1>2. LookBus' /\ LookPlaces' /\ LookSample' /\ StayedAreTold' /\ OwedAreHeard' /\ FetchedIsFound'
  BY <1>0, <1>1, OffersAreTyped DEF LookBus, LookPlaces, LookSample, StayedAreTold, OwedAreHeard,
     FetchedIsFound, Found, SampleOK
<1> QED
  BY <1>2 DEF LookInv

LEMMA LookIsTornDown ==
    ASSUME LookInv,
           Look!delete_contained_entities \/ Look!delete_participant \/ Look!members_destroyed
    PROVE  LookInv'
<1>0. LookBus /\ LookPlaces /\ LookSample
  BY DEF LookInv
<1>1. /\ UNCHANGED <<offer, kept, bus_changes, registry, left, sample>>
      /\ pc = "teardown" /\ pc' \in {"teardown", "idle"} /\ events' \subseteq events
      /\ matching' \subseteq matching /\ inbox' \in {inbox, [w \in Writers |-> Look!None]}
  BY DEF Look!delete_contained_entities, Look!delete_participant, Look!members_destroyed,
     Look!bus, Look!run
<1>2. watcher' \in {watcher, Look!NotFound} /\ information' \in {information, Look!NoInformation}
  BY DEF Look!delete_contained_entities, Look!delete_participant, Look!members_destroyed, Look!run
<1>3. InfoOK(watcher'.information) /\ InfoOK(information')
  BY <1>0, <1>2, InfoOfNobody DEF LookBus, Look!NotFound
<1>4. LookBus'
  BY <1>0, <1>1, <1>3 DEF LookBus
<1>5. LookPlaces'
  BY <1>0, <1>1 DEF Look!delete_contained_entities, Look!delete_participant,
     Look!members_destroyed, Look!run, LookPlaces, Found
<1>6. LookSample' /\ StayedAreTold' /\ OwedAreHeard' /\ FetchedIsFound'
  BY <1>0, <1>1 DEF LookSample, StayedAreTold, OwedAreHeard, FetchedIsFound, Found
<1> QED
  BY <1>4, <1>5, <1>6 DEF LookInv

LEMMA LookStep == LookInv /\ [Next]_vars => LookInv'
<1> SUFFICES ASSUME LookInv, [Next]_vars PROVE LookInv'
  OBVIOUS
<1>1. CASE Look!Next
  <2>1. CASE Look!Looking
    BY <2>1, LookBegins, LookGoesOn, LookTakes, LookTick, LookReturns, LookIsTornDown
    DEF Look!Looking, Returns
  <2>2. CASE Look!Bus \/ Look!Callbacks \/ Look!Tick
    BY <2>2, LookBusStep, LookCallbackStep, LookTick DEF Look!Bus
  <2> QED
    BY <1>1, <2>1, <2>2 DEF Look!Next
<1>2. CASE UNCHANGED look
  BY <1>2 DEF look, LookInv, LookBus, LookPlaces, LookSample, StayedAreTold, OwedAreHeard,
     FetchedIsFound, Look!Compatible, Look!Here
<1> QED
  BY <1>1, <1>2, LookMoves

LEMMA LookInvariant == Spec => []LookInv
  BY LookInit, LookStep, PTL DEF Spec

(* A step that decides what a look reports returns from run(). *)
LEMMA DecidedReturns ==
    ASSUME LookInv, Look!Next, Look!Decided
    PROVE  Returns \/ (Look!no_participant /\ sample' = Look!failed("could_not_join_DDS_domain"))
<1>1. pc # "teardown" /\ pc' = "teardown"
  BY DEF Look!Decided
<1>2. ~(Look!Bus \/ Look!Callbacks \/ Look!Tick)
  BY <1>1 DEF Look!Bus, Look!Callbacks, Look!Tick, Look!WriterJoins, Look!WriterLeaves, Look!Writes,
     Look!Idle, Look!TypeFetched, Look!on_data_writer_discovery, Look!on_subscription_matched, Look!run
<1>3. ~(\/ Look!look \/ Look!discovery_ends \/ Look!read_information
        \/ Look!type_object_found \/ Look!open_reader
        \/ \E w \in Writers : Look!take_next_sample(w)
        \/ Look!take_fails)
  BY <1>1 DEF Look!look, Look!discovery_ends, Look!read_information, Look!type_object_found,
     Look!open_reader, Look!take_next_sample, Look!take_fails, Look!Go
<1>4. ~(Look!delete_contained_entities \/ Look!delete_participant \/ Look!members_destroyed)
  BY <1>1 DEF Look!delete_contained_entities, Look!delete_participant, Look!members_destroyed
<1>5. Look!no_participant => sample' = Look!failed("could_not_join_DDS_domain")
  BY DEF Look!no_participant
<1> QED
  BY <1>2, <1>3, <1>4, <1>5 DEF Look!Next, Look!Looking, Returns

(* Whatever joins, leaves, writes and is called between two steps of a     *)
(* look: nobody was there all along of a topic that is absent; a quiet one *)
(* had no value to be heard, or a take failed; a missing description did   *)
(* not come while it was looked for; and no callback comes to a listener   *)
(* that is gone (dds_probe.cpp).                                           *)
THEOREM LooksTellTheTruth == Spec => LooksAreTrue
<1>1. LookInv => (part = "look" => Look!TypeOK /\ Look!TornDownInOrder)
  BY DEF LookInv, LookBus, LookPlaces, LookSample, Look!TypeOK, Look!TornDownInOrder
<1>2. ASSUME LookInv, Look!Next, Look!Decided
      PROVE  /\ ~sample'.topic_found /\ sample'.error = Look!None => stayed = {}
             /\ sample'.topic_found /\ ~sample'.has_sample /\ sample'.error = Look!None
                  => owed = {} \/ data = Look!Disposed \/ refused
             /\ sample'.error = "no_reader_could_be_matched" => owed = {}
             /\ sample'.error = "no_type_description" =>
                   \A form \in {"complete", "minimal"} :
                      ~(information[form] /\ <<information.type, form>> \in had)
  <2>1. CASE Returns
    BY <1>2, <2>1, WhatIsReturned
  <2>2. CASE sample' = Look!failed("could_not_join_DDS_domain")
    BY <2>2 DEF Look!failed, Look!Nothing, Look!None
  <2> QED
    BY <1>2, <2>1, <2>2, DecidedReturns
<1>3. UNCHANGED look => ~Look!Decided
  BY DEF look, Look!Decided
<1>4. UNCHANGED look => UNCHANGED Look!vars
  BY DEF look, Look!vars, Look!bus, Look!dds, Look!run, Look!hist
<1>5. LookInv /\ [Next]_vars =>
        [Look!Decided /\ ~sample'.topic_found /\ sample'.error = Look!None => stayed = {}]_Look!vars
  BY <1>2, <1>4, LookMoves
<1>6. LookInv /\ [Next]_vars =>
        [Look!Decided /\ sample'.topic_found /\ ~sample'.has_sample /\ sample'.error = Look!None
           => owed = {} \/ data = Look!Disposed \/ refused]_Look!vars
  BY <1>2, <1>4, LookMoves
<1>7. LookInv /\ [Next]_vars =>
        [Look!Decided =>
           /\ sample'.error = "no_reader_could_be_matched" => owed = {}
           /\ sample'.error = "no_type_description" =>
                 \A form \in {"complete", "minimal"} :
                    ~(information[form] /\ <<information.type, form>> \in had)]_Look!vars
  BY <1>2, <1>4, LookMoves
<1> QED
  BY <1>1, <1>5, <1>6, <1>7, LookInvariant, PTL
  DEF Spec, LooksAreTrue, Look!AbsentMeansNobody, Look!QuietMeansQuiet, Look!ErrorsAreTrue

-----------------------------------------------------------------------------
(* HostProbes.  Each probe reads at a moment of its own, and a result is   *)
(* true of the moment that its fact was read at: the invariant says of     *)
(* what moments the facts so far are, and the judge of each type of rule   *)
(* is shown to give what a judge who saw that moment could give.           *)

(* Sequences whose elements are their own: sections of a machine, facts,   *)
(* texts.                                                                  *)
LEMMA TickSeq ==
    ASSUME NEW s, Tick!IsSeq(s)
    PROVE  /\ Len(s) \in Nat /\ DOMAIN s = 1 .. Len(s)
           /\ s = <<>> <=> Len(s) = 0
           /\ Tick!ToSet(s) = {s[i] : i \in 1 .. Len(s)}
  BY DEF Tick!IsSeq, Tick!ToSet

LEMMA TickIsSeq == ASSUME NEW S, NEW s \in Seq(S) PROVE Tick!IsSeq(s)
  BY DEF Tick!IsSeq, Tick!ToSet

(* Min of a set of naturals is its least element.                          *)
LEMMA TickMin ==
    ASSUME NEW I \in SUBSET Nat, I # {}
    PROVE  Tick!Min(I) \in I /\ \A i \in I : Tick!Min(I) <= i
<1>1. PICK m \in I : \A i \in I : ~(<<i, m>> \in OpToRel(<, Nat))
  BY WFMin, NatLessThanWellFounded
<1>2. \A i \in I : ~(i < m)
  BY <1>1 DEF OpToRel
<1>3. m \in I /\ \A i \in I : m <= i
  BY <1>2
<1> QED
  BY <1>3 DEF Tick!Min

LEMMA TickMax ==
    ASSUME NEW a \in Nat, NEW b \in Nat
    PROVE  Tick!Max({a, b}) = IF a >= b THEN a ELSE b
<1> DEFINE m == IF a >= b THEN a ELSE b
<1>1. m \in {a, b} /\ \A i \in {a, b} : m >= i
  OBVIOUS
<1>2. \A x \in {a, b} : (\A i \in {a, b} : x >= i) => x = m
  OBVIOUS
<1> QED
  BY <1>1, <1>2 DEF Tick!Max

(* Versions: the first component that differs decides. *)
LEMMA VersionsCompare ==
    ASSUME NEW v \in Seq(Nat), NEW w \in Seq(Nat)
    PROVE  /\ Tick!compare(v, w) \in {-1, 0, 1}
           /\ Tick!compare(v, w) = 0 <=> Tick!Same(v, w)
           /\ Tick!compare(v, w) = -1 <=> Tick!Before(v, w)
           /\ Tick!compare(v, w) = 1 <=> Tick!Before(w, v)
           /\ Tick!Same(v, w) => ~Tick!Before(v, w) /\ ~Tick!Before(w, v)
           /\ Tick!Before(v, w) => ~Tick!Before(w, v)
<1> DEFINE vi(i) == Tick!component_at(v, i)
           wi(i) == Tick!component_at(w, i)
           all == 1 .. Len(v) + Len(w)
           differ == {i \in 1 .. Tick!Max({Len(v), Len(w)}) : vi(i) # wi(i)}
<1>1. Len(v) \in Nat /\ Len(w) \in Nat
  OBVIOUS
<1>2. \A i \in Nat \ {0} : vi(i) \in Nat /\ wi(i) \in Nat
  BY DEF Tick!component_at
<1>3. \A i \in all : vi(i) # wi(i) <=> i \in differ
  <2> DEFINE max == Tick!Max({Len(v), Len(w)})
  <2>1. \A i \in all : i > Len(v) /\ i > Len(w) => vi(i) = 0 /\ wi(i) = 0
    BY <1>1 DEF Tick!component_at
  <2>2. max = (IF Len(v) >= Len(w) THEN Len(v) ELSE Len(w)) /\ differ = {i \in 1 .. max : vi(i) # wi(i)}
    BY <1>1, TickMax
  <2>3. max \in Nat /\ max >= Len(v) /\ max >= Len(w)
    BY <1>1, <2>2
  <2> HIDE DEF max, differ, vi, wi
  <2>4. \A i \in all : i \in Nat \ {0} /\ (i > max => i > Len(v) /\ i > Len(w))
    BY <1>1, <2>3
  <2>5. \A i \in all : i \notin 1 .. max => vi(i) = wi(i)
    BY <2>1, <2>3, <2>4
  <2> QED
    BY <2>2, <2>5
<1>4. differ \in SUBSET all
  <2> DEFINE max == Tick!Max({Len(v), Len(w)})
  <2>1. max = (IF Len(v) >= Len(w) THEN Len(v) ELSE Len(w)) /\ differ \in SUBSET (1 .. max)
    BY <1>1, TickMax
  <2> HIDE DEF max, differ
  <2>2. max \in Nat /\ max <= Len(v) + Len(w)
    BY <1>1, <2>1
  <2>3. 1 .. max \subseteq all
    BY <1>1, <2>2
  <2> QED
    BY <2>1, <2>3
<1>5. /\ Tick!Same(v, w) <=> \A i \in all : vi(i) = wi(i)
      /\ Tick!Before(v, w) <=> \E i \in all : vi(i) < wi(i) /\ \A j \in 1 .. i - 1 : vi(j) = wi(j)
      /\ Tick!Before(w, v) <=> \E i \in all : wi(i) < vi(i) /\ \A j \in 1 .. i - 1 : vi(j) = wi(j)
  <2>1. Len(w) + Len(v) = Len(v) + Len(w)
    BY <1>1
  <2> QED
    BY <2>1 DEF Tick!Same, Tick!Before
<1>6. Tick!compare(v, w) = IF differ = {} THEN 0
                           ELSE IF vi(Tick!Min(differ)) < wi(Tick!Min(differ)) THEN -1 ELSE 1
  BY DEF Tick!compare
<1> HIDE DEF differ, vi, wi, all
<1>7. CASE differ = {}
  <2>1. \A i \in all : vi(i) = wi(i) /\ ~(vi(i) < wi(i)) /\ ~(wi(i) < vi(i))
    BY <1>2, <1>3, <1>7 DEF all
  <2> QED
    BY <1>5, <1>6, <1>7, <2>1
<1>8. CASE differ # {}
  <2> DEFINE k == Tick!Min(differ)
  <2>1. differ \in SUBSET Nat
    BY <1>1, <1>4 DEF all
  <2>2. k \in differ /\ \A i \in differ : k <= i
    BY <1>8, <2>1, TickMin
  <2> HIDE DEF k
  <2>3. k \in all /\ k \in Nat \ {0} /\ vi(k) # wi(k) /\ vi(k) \in Nat /\ wi(k) \in Nat
    BY <1>1, <1>2, <1>3, <1>4, <2>2 DEF all
  <2>4. \A j \in 1 .. k - 1 : vi(j) = wi(j)
    <3> SUFFICES ASSUME NEW j \in 1 .. k - 1 PROVE vi(j) = wi(j)
      OBVIOUS
    <3>1. j \in all /\ ~(k <= j)
      BY <1>1, <2>3 DEF all
    <3> QED
      BY <1>3, <2>2, <3>1
  <2>5. \A i \in all : vi(i) # wi(i) /\ (\A j \in 1 .. i - 1 : vi(j) = wi(j)) => i = k
    <3> SUFFICES ASSUME NEW i \in all, vi(i) # wi(i), \A j \in 1 .. i - 1 : vi(j) = wi(j)
                 PROVE  i = k
      OBVIOUS
    <3>1. i \in Nat /\ k <= i
      BY <1>1, <1>3, <2>2 DEF all
    <3>2. ~(k \in 1 .. i - 1)
      BY <2>3
    <3> QED
      BY <2>3, <3>1, <3>2
  <2>6. \A i \in all : vi(i) \in Nat /\ wi(i) \in Nat /\ (vi(i) < wi(i) => vi(i) # wi(i)) /\ (wi(i) < vi(i) => vi(i) # wi(i))
    BY <1>1, <1>2 DEF all
  <2>7. /\ (\E i \in all : vi(i) < wi(i) /\ \A j \in 1 .. i - 1 : vi(j) = wi(j)) <=> vi(k) < wi(k)
        /\ (\E i \in all : wi(i) < vi(i) /\ \A j \in 1 .. i - 1 : vi(j) = wi(j)) <=> wi(k) < vi(k)
    BY <2>3, <2>4, <2>5, <2>6
  <2>8. Tick!compare(v, w) = IF vi(k) < wi(k) THEN -1 ELSE 1
    BY <1>6, <1>8 DEF k
  <2> QED
    BY <1>5, <2>3, <2>7, <2>8
<1> QED
  BY <1>7, <1>8

(* A version satisfies a constraint if it stands to it as the constraint   *)
(* says.                                                                   *)
LEMMA SatisfiesMeets ==
    ASSUME NEW v \in Seq(Nat), NEW c, c.value \in Seq(Nat),
           c.op \in {"Equal", "NotEqual", "Less", "LessEqual", "Greater", "GreaterEqual"}
    PROVE  Tick!satisfies(v, c) = Tick!Meets(v, c) /\ Tick!satisfies(v, c) \in BOOLEAN
<1> DEFINE w == c.value
           r == Tick!compare(v, w)
<1>1. /\ r \in {-1, 0, 1} /\ w \in Seq(Nat)
      /\ r = 0 <=> Tick!Same(v, w)
      /\ r = -1 <=> Tick!Before(v, w)
      /\ r = 1 <=> Tick!Before(w, v)
  BY VersionsCompare
<1>2. Tick!Same(v, w) \in BOOLEAN /\ Tick!Before(v, w) \in BOOLEAN /\ Tick!Before(w, v) \in BOOLEAN
  BY DEF Tick!Same, Tick!Before
<1>3. /\ Tick!satisfies(v, c) = CASE c.op = "Equal"     -> r = 0
                               [] c.op = "NotEqual"     -> r # 0
                               [] c.op = "Less"         -> r < 0
                               [] c.op = "LessEqual"    -> r <= 0
                               [] c.op = "Greater"      -> r > 0
                               [] c.op = "GreaterEqual" -> r >= 0
  BY DEF Tick!satisfies
<1> HIDE DEF r
<1>4. Tick!satisfies(v, c) = Tick!Meets(v, c) /\ Tick!satisfies(v, c) \in BOOLEAN
  <2>1. CASE c.op = "Equal"
    BY <1>1, <1>2, <1>3, <2>1 DEF Tick!Meets
  <2>2. CASE c.op = "NotEqual"
    BY <1>1, <1>2, <1>3, <2>2 DEF Tick!Meets
  <2>3. CASE c.op = "Less"
    BY <1>1, <1>2, <1>3, <2>3 DEF Tick!Meets
  <2>4. CASE c.op = "LessEqual"
    BY <1>1, <1>2, <1>3, <2>4 DEF Tick!Meets
  <2>5. CASE c.op = "Greater"
    BY <1>1, <1>2, <1>3, <2>5 DEF Tick!Meets
  <2>6. CASE c.op = "GreaterEqual"
    BY <1>1, <1>2, <1>3, <2>6 DEF Tick!Meets
  <2> QED
    BY <2>1, <2>2, <2>3, <2>4, <2>5, <2>6
<1> QED
  BY <1>4

(* While the rules are read for: what each probe read is what the machine  *)
(* had at some moment, unless the probe could not read.                    *)
Changed == \E m, n \in machines : m # n

(* The adapters are known by their names and read one by one: each as it   *)
(* was at some moment, all that were there all along unless one could not  *)
(* be read, and, if none of them changed, in the order of the machine.     *)
Rest == IF phase = "adapters" THEN waiting ELSE <<>>
NamedIn(list, name) == \E a \in Tick!ToSet(list) : Tick!tolower(a.name) = name
InLine(m) ==
    /\ Len(m.adapters) = Len(facts.adapters) + Len(Rest)
    /\ \A i \in 1 .. Len(facts.adapters) : facts.adapters[i] = m.adapters[i]
    /\ \A i \in 1 .. Len(Rest) : Rest[i] = Tick!tolower(m.adapters[Len(facts.adapters) + i].name)

AdaptersRead ==
    "Network" \in Tick!caps =>
        /\ Tick!IsSeq(facts.adapters) /\ Tick!IsSeq(Rest)
        /\ \A a \in Tick!ToSet(facts.adapters) : \E m \in machines : a \in Tick!ToSet(m.adapters)
        /\ "Network" \notin unreadable =>
              /\ \A name : (\A m \in machines : NamedIn(m.adapters, name))
                             => name \in Tick!ToSet(Rest) \/ NamedIn(facts.adapters, name)
              /\ Tick!Steady => \A m \in machines : InLine(m)

ServicesRead ==
    phase \in {"registry", "dds"} /\ Tick!Needs("Service", "Services")
        => \E m \in machines : facts.services = m.services

(* The version that was read of a process: none if it was gone by then.    *)
VersionRead(version, process) ==
    \/ version = process.version /\ \E m \in machines : process \in Tick!ToSet(m.processes)
    \/ version = <<>> /\ Changed

(* The first n processes of a list have been read.                         *)
ReadUpTo(list, n) ==
    /\ Len(facts.processes) = n
    /\ \A i \in 1 .. n : /\ facts.processes[i].executable = list[i].executable
                         /\ VersionRead(facts.processes[i].version, list[i])

ProcessesRead ==
    /\ Tick!IsSeq(facts.processes)
    /\ phase \in {"adapters", "processes"} => facts.processes = <<>>
    /\ phase = "versions" =>
          /\ Tick!IsSeq(snapshot)
          /\ \E m \in machines :
                LET n == Len(facts.processes)
                IN /\ ReadUpTo(m.processes, n)
                   /\ Len(m.processes) = n + Len(snapshot)
                   /\ \A i \in 1 .. Len(snapshot) : snapshot[i] = m.processes[n + i]
    /\ phase \in {"services", "registry", "dds"} /\ Tick!Needs("Process", "Processes") =>
          \/ "Process" \in unreadable
          \/ \E m \in machines : ReadUpTo(m.processes, Len(m.processes))

RegistryRead ==
    /\ \A key \in DOMAIN facts.registry :
          \/ \E m \in machines : facts.registry[key] = m.values[key]
          \/ facts.registry[key] = Tick!Denied /\ Changed
    /\ sized # <<>> =>
          /\ phase = "registry" /\ sized[1] \in Tick!registry_rules
          /\ \E m \in machines : sized[2] = Len(m.values[sized[1]].data)
    /\ phase = "dds" => Tick!registry_rules \subseteq DOMAIN facts.registry

TopicsRead ==
    \A key \in DOMAIN facts.dds :
        \/ \E m \in machines : facts.dds[key] = m.topics[key]
        \/ facts.dds[key] = Tick!LookFailed /\ "Dds" \in unreadable

FactsTrue ==
    /\ DOMAIN facts = {"processes", "services", "registry", "adapters", "dds"}
    /\ AdaptersRead /\ ServicesRead /\ ProcessesRead /\ RegistryRead /\ TopicsRead

(* A result that a Pass or a Fail earned, or an Error.                     *)
Earned(rule, result) ==
    /\ result.status \in {"Pass", "Fail", "Error"}
    /\ result.status # "Error" =>
          \/ \E m \in machines : result.status \in Tick!Claims(rule, m)
          \/ Tick!kind_of(rule) \in {"Process", "Network"} \cap unreadable
          \/ rule.payload.type = "AdapterCountRule" /\ ~Tick!Steady
    /\ result.status = "Error" =>
          /\ result.why # "not probed"
          /\ \/ Tick!kind_of(rule) \in unreadable
             \/ Changed
             \/ \E m \in machines : Tick!Claims(rule, m) = {}
             \/ \E m \in machines : \E p \in Tick!ToSet(m.processes) :
                   result.why = "version unreadable" /\ p.version = <<>>

Able(rule) == Tick!required_capability(Tick!kind_of(rule)) \in Tick!caps

ReportTrue ==
    report # <<>> =>
        /\ Tick!IsSeq(report) /\ Len(report) = Len(rules)
        /\ \A r \in DOMAIN rules :
              /\ report[r].rule_id = rules[r].id
              /\ IF Able(rules[r]) THEN Earned(rules[r], report[r])
                 ELSE report[r].status = "NotApplicable"

TickTyped ==
    /\ host \in Hosts /\ rules \in RuleSets[host] /\ probes \in Supplied
    /\ phase \in {"adapters", "processes", "versions", "services", "registry", "dds", "done"}
    /\ machines \subseteq Possible[host] /\ IsFiniteSet(machines) /\ machine \in machines

TickInv ==
    /\ TickTyped /\ ReportTrue
    /\ phase = "done" => sized = <<>>
    /\ phase # "done" => report = <<>> /\ FactsTrue

LEMMA TickMoves == [Next]_vars => Tick!Next \/ UNCHANGED tick
  BY Zenon DEF Next, vars

(* What is assumed of the rules and of the machine.                        *)
LEMMA TickShapes ==
    ASSUME TickTyped
    PROVE  /\ Tick!IsSeq(rules)
           /\ \A m \in machines : Tick!IsMachine(m)
           /\ \A r \in DOMAIN rules :
                 /\ Tick!IsRule(rules[r])
                 /\ \A m \in machines :
                       /\ Tick!kind_of(rules[r]) = "Registry"
                             => Tick!registry_key(rules[r].payload) \in DOMAIN m.values
                       /\ Tick!kind_of(rules[r]) = "Dds"
                             => Tick!dds_key(rules[r].payload) \in DOMAIN m.topics
  BY HostsAssumption DEF Tick!HostsAssumption, TickTyped, Tick!ToSet

LEMMA TickInit == Init => TickInv
<1> SUFFICES ASSUME Init PROVE TickInv
  OBVIOUS
<1>1. Tick!Init
  BY DEF Init
<1>2. IsFiniteSet(machines) /\ machine \in machines /\ machines \subseteq Possible[host]
  BY <1>1, FS_Singleton DEF Tick!Init
<1> QED
  BY <1>1, <1>2 DEF Tick!Init, TickInv, TickTyped, ReportTrue

(* The machine changes between two reads. *)
LEMMA TickChange == ASSUME TickInv, Tick!Change PROVE TickInv'
<1>1. /\ machines \subseteq machines' /\ machine' \in machines' /\ machines' \subseteq Possible[host]
      /\ IsFiniteSet(machines')
      /\ UNCHANGED <<host, rules, probes, phase, waiting, snapshot, sized, facts, report, unreadable>>
  <2>1. PICK m \in Possible[host] \ machines : machine' = m
    BY DEF Tick!Change
  <2>2. machines' = machines \cup {m}
    BY <2>1 DEF Tick!Change
  <2>3. IsFiniteSet(machines \cup {m})
    BY FS_AddElement DEF TickInv, TickTyped
  <2> QED
    BY <2>1, <2>2, <2>3 DEF Tick!Change, TickInv, TickTyped
<1>2. TickTyped'
  BY <1>1 DEF TickInv, TickTyped
<1>3. Changed => Changed'
  BY <1>1 DEF Changed
<1>4. Tick!caps' = Tick!caps /\ Tick!registry_rules' = Tick!registry_rules
      /\ \A k, c : Tick!Needs(k, c)' = Tick!Needs(k, c)
  BY <1>1 DEF Tick!caps, Tick!intersect, Tick!registry_rules, Tick!Needs, Tick!Wanted, Tick!ToSet
<1>a. Tick!Steady' => Tick!Steady
  BY <1>1 DEF Tick!Steady
<1>5. \A rule, result : Earned(rule, result) => Earned(rule, result)'
  BY <1>1, <1>3, <1>a DEF Earned
<1>6. ReportTrue'
  BY <1>1, <1>4, <1>5 DEF TickInv, ReportTrue, Able
<1>7. \A v, p : VersionRead(v, p) => VersionRead(v, p)'
  BY <1>1, <1>3 DEF VersionRead
<1>8. \A list, n : ReadUpTo(list, n) => ReadUpTo(list, n)'
  BY <1>1, <1>7 DEF ReadUpTo
<1>9. FactsTrue => FactsTrue'
  <2>1. AdaptersRead => AdaptersRead'
    <3> SUFFICES ASSUME AdaptersRead, "Network" \in Tick!caps PROVE AdaptersRead'
      BY <1>4 DEF AdaptersRead
    <3>1. Rest' = Rest /\ \A list, name : NamedIn(list, name)' <=> NamedIn(list, name)
      BY <1>1 DEF Rest, NamedIn, Tick!ToSet, Tick!tolower
    <3>2. Tick!Steady' /\ (\A m \in machines : InLine(m)) => \A m \in machines' : InLine(m)'
      <4> SUFFICES ASSUME Tick!Steady', \A m \in machines : InLine(m), NEW m \in machines'
                   PROVE  InLine(m)'
        OBVIOUS
      <4>1. machine \in machines
        BY DEF TickInv, TickTyped
      <4>2. m.adapters = machine.adapters /\ InLine(machine)
        BY <1>1, <4>1 DEF Tick!Steady
      <4> QED
        BY <1>1, <3>1, <4>2 DEF InLine, Tick!tolower
    <3>3. Tick!IsSeq(facts.adapters)' /\ Tick!IsSeq(Rest)' /\ Tick!ToSet(facts.adapters)' = Tick!ToSet(facts.adapters)
          /\ Tick!ToSet(Rest)' = Tick!ToSet(Rest)
      BY <1>1, <3>1 DEF AdaptersRead, Tick!IsSeq, Tick!ToSet
    <3>4. \A a \in Tick!ToSet(facts.adapters) : \E m \in machines' : a \in Tick!ToSet(m.adapters)
      BY <1>1 DEF AdaptersRead
    <3>5. "Network" \notin unreadable =>
            \A name : (\A m \in machines' : NamedIn(m.adapters, name))
                         => name \in Tick!ToSet(Rest) \/ NamedIn(facts.adapters, name)
      BY <1>1 DEF AdaptersRead
    <3>6. \A name : (\A m \in machines' : NamedIn(m.adapters, name)')
                       <=> (\A m \in machines' : NamedIn(m.adapters, name))
      BY <3>1
    <3>7. \A name : NamedIn(facts.adapters, name)' <=> NamedIn(facts.adapters, name)
      BY <1>1, <3>1
    <3> QED
      BY <1>1, <1>4, <1>a, <3>2, <3>3, <3>4, <3>5, <3>6, <3>7 DEF AdaptersRead, Tick!ToSet
  <2>2. ServicesRead => ServicesRead'
    BY <1>1, <1>4 DEF ServicesRead
  <2>3. ProcessesRead => ProcessesRead'
    BY <1>1, <1>4, <1>8 DEF ProcessesRead
  <2>4. RegistryRead => RegistryRead'
    BY <1>1, <1>3, <1>4 DEF RegistryRead
  <2>5. TopicsRead => TopicsRead'
    BY <1>1 DEF TopicsRead
  <2> QED
    BY <1>1, <2>1, <2>2, <2>3, <2>4, <2>5 DEF FactsTrue
<1> QED
  BY <1>1, <1>2, <1>6, <1>9 DEF TickInv

(* An evaluation begins.                                                   *)
LEMMA TickCollect == ASSUME TickInv, Tick!collect PROVE TickInv'
<1>1. /\ rules' \in RuleSets[host] /\ phase' \in {"adapters", "processes"} /\ report' = <<>>
      /\ machines' = {machine} /\ UNCHANGED <<host, machine, probes, sized>> /\ phase = "done"
      /\ facts' = Tick!NoFacts
  BY DEF Tick!collect
<1>2. TickTyped' /\ sized' = <<>>
  BY <1>1, FS_Singleton DEF TickInv, TickTyped
<1>3. /\ DOMAIN facts' = {"processes", "services", "registry", "adapters", "dds"}
      /\ facts'.adapters = <<>> /\ facts'.processes = <<>>
      /\ facts'.registry = [k \in {} |-> Tick!Absent] /\ facts'.dds = [k \in {} |-> Tick!LookFailed]
  BY <1>1 DEF Tick!NoFacts
<1>4. Tick!caps' = Tick!caps
  BY <1>1 DEF Tick!caps, Tick!intersect
<1>5. DOMAIN facts'.registry = {} /\ DOMAIN facts'.dds = {}
  BY <1>3
<1>6. ServicesRead' /\ RegistryRead' /\ TopicsRead'
  BY <1>1, <1>2, <1>3, <1>4, <1>5 DEF ServicesRead, RegistryRead, TopicsRead
<1>7. ProcessesRead'
  BY <1>1, <1>3 DEF ProcessesRead, Tick!IsSeq
<1>8. AdaptersRead'
  <2> SUFFICES ASSUME "Network" \in Tick!caps PROVE AdaptersRead'
    BY <1>4 DEF AdaptersRead
  <2> DEFINE list == machine.adapters
             names == [i \in DOMAIN list |-> Tick!tolower(list[i].name)]
  <2>1. Rest' = names
    BY DEF Tick!collect, Rest
  <2>2. DOMAIN list = 1 .. Len(list) /\ Len(list) \in Nat
    BY TickShapes, TickSeq DEF TickInv, TickTyped, Tick!IsMachine
  <2>3. /\ names \in Seq({names[i] : i \in DOMAIN list}) /\ Len(names) = Len(list)
        /\ \A i \in 1 .. Len(list) : names[i] = Tick!tolower(list[i].name)
    BY <2>2
  <2>4. Tick!IsSeq(names)
    BY <2>3, TickIsSeq
  <2> HIDE DEF names
  <2>5. ASSUME NEW name, NamedIn(list, name) PROVE name \in Tick!ToSet(names)
    <3>1. PICK i \in 1 .. Len(list) : Tick!tolower(list[i].name) = name
      BY <2>2, <2>5 DEF NamedIn, Tick!ToSet
    <3> QED
      BY <2>3, <2>4, <3>1, TickSeq
  <2>6. Len(facts'.adapters) = 0 /\ Tick!IsSeq(facts'.adapters) /\ Tick!ToSet(facts'.adapters) = {}
    BY <1>3 DEF Tick!IsSeq, Tick!ToSet
  <2>7. InLine(machine)'
    <3>1. \A i \in 1 .. Len(list) : 0 + i = i
      OBVIOUS
    <3> QED
      BY <1>1, <2>1, <2>2, <2>3, <2>6, <3>1 DEF InLine, Tick!tolower
  <2>8. \A name : NamedIn(machine.adapters, name)' => NamedIn(list, name)
    BY <1>1 DEF NamedIn, Tick!ToSet, Tick!tolower
  <2>9. Tick!IsSeq(facts.adapters)' /\ Tick!IsSeq(Rest)' /\ Tick!ToSet(facts.adapters)' = {}
        /\ Tick!ToSet(Rest)' = Tick!ToSet(names)
    BY <2>1, <2>4, <2>6 DEF Tick!IsSeq, Tick!ToSet
  <2> QED
    BY <1>1, <2>5, <2>7, <2>8, <2>9 DEF AdaptersRead
<1> QED
  BY <1>1, <1>2, <1>3, <1>6, <1>7, <1>8 DEF TickInv, FactsTrue, ReportTrue

(* What does not depend on what is read stays as it is.                    *)
Frame == UNCHANGED <<host, rules, probes, machines, machine, report>>

LEMMA TickFrame ==
    ASSUME Frame
    PROVE  /\ Tick!caps' = Tick!caps /\ Tick!registry_rules' = Tick!registry_rules
           /\ Tick!dds_topics' = Tick!dds_topics
           /\ \A k, c : Tick!Needs(k, c)' = Tick!Needs(k, c)
           /\ Changed' = Changed
           /\ \A v, p : VersionRead(v, p)' = VersionRead(v, p)
  BY DEF Frame, Tick!caps, Tick!intersect, Tick!registry_rules, Tick!dds_topics, Tick!Needs,
     Tick!Wanted, Tick!ToSet, Changed, VersionRead

LEMMA AdaptersKept ==
    ASSUME Frame, Rest' = Rest, facts'.adapters = facts.adapters, unreadable \subseteq unreadable',
           AdaptersRead
    PROVE  AdaptersRead'
<1>1. Tick!caps' = Tick!caps /\ machines' = machines
  BY TickFrame DEF Frame
<1>2. \A list, name : NamedIn(list, name)' <=> NamedIn(list, name)
  BY DEF NamedIn, Tick!ToSet, Tick!tolower
<1>3. \A m : InLine(m)' <=> InLine(m)
  BY DEF InLine, Tick!tolower
<1>4. Tick!Steady' <=> Tick!Steady
  BY <1>1 DEF Tick!Steady
<1>5. /\ Tick!IsSeq(facts.adapters)' <=> Tick!IsSeq(facts.adapters)
      /\ Tick!IsSeq(Rest)' <=> Tick!IsSeq(Rest)
      /\ Tick!ToSet(facts.adapters)' = Tick!ToSet(facts.adapters) /\ Tick!ToSet(Rest)' = Tick!ToSet(Rest)
  BY DEF Tick!IsSeq, Tick!ToSet
<1>6. \A m \in machines : Tick!ToSet(m.adapters)' = Tick!ToSet(m.adapters)
  BY DEF Tick!ToSet
<1>7. \A name : NamedIn(facts.adapters, name)' <=> NamedIn(facts.adapters, name)
  BY <1>2
<1>8. \A name : (\A m \in machines' : NamedIn(m.adapters, name)')
                   <=> (\A m \in machines : NamedIn(m.adapters, name))
  BY <1>1, <1>2
<1> QED
  BY <1>1, <1>3, <1>4, <1>5, <1>6, <1>7, <1>8 DEF AdaptersRead

(* The next adapter is read, if it is still there.                         *)
LEMMA TickAdapter == ASSUME TickInv, Tick!read_adapter PROVE TickInv'
<1> DEFINE list == facts.adapters
           name == Head(waiting)
<1>1. /\ phase = "adapters" /\ phase' = "adapters" /\ Frame /\ UNCHANGED <<sized, unreadable>>
      /\ waiting # <<>> /\ waiting' = Tail(waiting)
  BY DEF Tick!read_adapter, Frame
<1>2. \/ (\A i \in DOMAIN machine.adapters : Tick!tolower(machine.adapters[i].name) # name) /\ facts' = facts
      \/ \E i \in DOMAIN machine.adapters :
            /\ Tick!tolower(machine.adapters[i].name) = name
            /\ facts' = [facts EXCEPT !.adapters = Append(list, machine.adapters[i])]
  BY DEF Tick!read_adapter
<1>3. TickTyped' /\ report' = <<>> /\ FactsTrue
  BY <1>1 DEF TickInv, TickTyped, Frame
<1>4. /\ DOMAIN facts' = DOMAIN facts
      /\ UNCHANGED <<facts.processes, facts.services, facts.registry, facts.dds>>
  BY <1>2, <1>3 DEF FactsTrue
<1>5. ServicesRead' /\ RegistryRead' /\ TopicsRead' /\ ProcessesRead'
  BY <1>1, <1>3, <1>4, TickFrame DEF FactsTrue, ServicesRead, ProcessesRead, RegistryRead, TopicsRead, Frame,
     Tick!IsSeq, Tick!ToSet
<1>6. AdaptersRead'
  <2> SUFFICES ASSUME "Network" \in Tick!caps PROVE AdaptersRead'
    BY <1>1, TickFrame DEF AdaptersRead
  <2>1. Rest = waiting /\ Rest' = Tail(waiting)
    BY <1>1 DEF Rest
  <2>2. /\ Tick!IsSeq(list) /\ Tick!IsSeq(waiting)
        /\ \A a \in Tick!ToSet(list) : \E m \in machines : a \in Tick!ToSet(m.adapters)
        /\ "Network" \notin unreadable =>
              /\ \A n : (\A m \in machines : NamedIn(m.adapters, n))
                             => n \in Tick!ToSet(waiting) \/ NamedIn(list, n)
              /\ Tick!Steady => \A m \in machines : InLine(m)
    BY <1>3, <2>1 DEF FactsTrue, AdaptersRead
  <2>3. /\ Tick!IsSeq(Tail(waiting)) /\ Len(waiting) = 1 + Len(Tail(waiting))
        /\ Len(Tail(waiting)) \in Nat
        /\ \A i \in 1 .. Len(Tail(waiting)) : Tail(waiting)[i] = waiting[i + 1] /\ i + 1 \in 1 .. Len(waiting)
        /\ name = waiting[1] /\ Tick!ToSet(waiting) \subseteq {name} \cup Tick!ToSet(Tail(waiting))
    <3>1. waiting \in Seq(Tick!ToSet(waiting)) /\ waiting # <<>>
      BY <1>1, <2>2 DEF Tick!IsSeq
    <3>2. /\ Tail(waiting) \in Seq(Tick!ToSet(waiting)) /\ Len(waiting) \in Nat \ {0}
          /\ Len(Tail(waiting)) = Len(waiting) - 1
          /\ \A i \in 1 .. Len(Tail(waiting)) : Tail(waiting)[i] = waiting[i + 1]
          /\ name = waiting[1]
      BY <3>1, HeadTailProperties, EmptySeq, LenProperties
    <3>3. Tick!IsSeq(Tail(waiting))
      BY <3>2, TickIsSeq
    <3>4. ASSUME NEW x \in Tick!ToSet(waiting) PROVE x = name \/ x \in Tick!ToSet(Tail(waiting))
      <4>1. PICK i \in 1 .. Len(waiting) : x = waiting[i]
        BY <2>2, TickSeq
      <4>2. i = 1 \/ (i - 1 \in 1 .. Len(Tail(waiting)) /\ (i - 1) + 1 = i)
        BY <3>2
      <4>3. CASE i - 1 \in 1 .. Len(Tail(waiting)) /\ (i - 1) + 1 = i
        <5>1. Tail(waiting)[i - 1] = x
          BY <3>2, <4>1, <4>3
        <5> QED
          BY <3>3, <4>3, <5>1, TickSeq
      <4> QED
        BY <3>2, <4>1, <4>2, <4>3
    <3>5. \A i \in 1 .. Len(Tail(waiting)) : i + 1 \in 1 .. Len(waiting)
      BY <3>2
    <3> QED
      BY <3>2, <3>3, <3>4, <3>5
  <2> HIDE DEF name
  <2>4. \A x, n : NamedIn(x, n)' <=> NamedIn(x, n)
    BY DEF NamedIn, Tick!ToSet, Tick!tolower
  <2>5. Tick!Steady' <=> Tick!Steady
    BY <1>1 DEF Tick!Steady, Frame
  <2>6. machine \in machines /\ machines' = machines /\ Tick!IsMachine(machine)
    BY <1>1, TickShapes DEF TickInv, TickTyped, Frame
  <2>7. Tick!IsSeq(Rest)' /\ Tick!ToSet(Rest)' = Tick!ToSet(Tail(waiting))
    BY <2>1, <2>3 DEF Tick!IsSeq, Tick!ToSet
  <2>8. CASE facts' = facts /\ \A i \in DOMAIN machine.adapters : Tick!tolower(machine.adapters[i].name) # name
    <3>1. ~NamedIn(machine.adapters, name)
      BY <2>8 DEF NamedIn, Tick!ToSet
    <3>2. ASSUME NEW n, \A m \in machines : NamedIn(m.adapters, n), "Network" \notin unreadable
          PROVE  n \in Tick!ToSet(Tail(waiting)) \/ NamedIn(list, n)
      BY <2>2, <2>3, <2>6, <3>1, <3>2
    <3>3. ~(Tick!Steady /\ "Network" \notin unreadable)
      <4> SUFFICES ASSUME InLine(machine) PROVE FALSE
        BY <2>2, <2>6
      <4>1. 1 \in 1 .. Len(waiting) /\ Len(list) \in Nat
        BY <2>2, <2>3, TickSeq
      <4>2. name = Tick!tolower(machine.adapters[Len(list) + 1].name)
            /\ Len(machine.adapters) = Len(list) + Len(waiting)
        BY <2>1, <2>3, <4>1 DEF InLine
      <4>3. Len(list) + 1 \in 1 .. Len(machine.adapters)
        <5>1. \A n, k, c \in Nat : c = 1 + k => n + 1 \in 1 .. n + c
          OBVIOUS
        <5>2. Len(waiting) \in Nat
          BY <2>3
        <5> QED
          BY <2>3, <4>1, <4>2, <5>1, <5>2, Zenon
      <4>4. DOMAIN machine.adapters = 1 .. Len(machine.adapters)
        BY <2>6, TickSeq DEF Tick!IsMachine
      <4> QED
        BY <2>8, <4>2, <4>3, <4>4
    <3>4. Tick!IsSeq(facts.adapters)' /\ Tick!ToSet(facts.adapters)' = Tick!ToSet(list)
      BY <2>2, <2>8 DEF Tick!IsSeq, Tick!ToSet
    <3>5. \A n : NamedIn(facts.adapters, n)' <=> NamedIn(list, n)
      BY <2>4, <2>8
    <3>6. \A n : (\A m \in machines' : NamedIn(m.adapters, n)') <=> (\A m \in machines : NamedIn(m.adapters, n))
      BY <2>4, <2>6
    <3> QED
      BY <1>1, <2>2, <2>5, <2>6, <2>7, <3>2, <3>3, <3>4, <3>5, <3>6 DEF AdaptersRead, Tick!ToSet
  <2>9. CASE \E i \in DOMAIN machine.adapters :
               /\ Tick!tolower(machine.adapters[i].name) = name
               /\ facts' = [facts EXCEPT !.adapters = Append(list, machine.adapters[i])]
    <3>1. PICK i \in DOMAIN machine.adapters :
               /\ Tick!tolower(machine.adapters[i].name) = name
               /\ facts' = [facts EXCEPT !.adapters = Append(list, machine.adapters[i])]
      BY <2>9
    <3> DEFINE one == machine.adapters[i]
               longer == Append(list, one)
               n == Len(list)
    <3>2. one \in Tick!ToSet(machine.adapters) /\ Tick!tolower(one.name) = name
      BY <3>1 DEF Tick!ToSet
    <3>3. facts'.adapters = longer
      BY <1>3, <3>1 DEF FactsTrue
    <3> HIDE DEF one
    <3>4. /\ n \in Nat /\ longer \in Seq(Tick!ToSet(list) \cup {one}) /\ Len(longer) = n + 1
          /\ \A k \in 1 .. n : longer[k] = list[k]
          /\ longer[n + 1] = one
      <4>1. list \in Seq(Tick!ToSet(list) \cup {one}) /\ n \in Nat
        BY <2>2 DEF Tick!IsSeq
      <4> QED
        BY <4>1, AppendProperties
    <3> HIDE DEF longer
    <3>5. Tick!IsSeq(longer)
      BY <3>4, TickIsSeq
    <3>6. Tick!ToSet(longer) = Tick!ToSet(list) \cup {one}
      <4>1. Tick!ToSet(longer) = {longer[k] : k \in 1 .. n + 1} /\ Tick!ToSet(list) = {list[k] : k \in 1 .. n}
        BY <2>2, <3>4, <3>5, TickSeq
      <4>2. \A k \in 1 .. n + 1 : k \in 1 .. n \/ k = n + 1
        BY <3>4
      <4>3. n + 1 \in 1 .. n + 1 /\ 1 .. n \subseteq 1 .. n + 1
        BY <3>4
      <4> HIDE DEF n
      <4> QED
        BY <3>4, <4>1, <4>2, <4>3
    <3>7. \A x : NamedIn(longer, x) <=> NamedIn(list, x) \/ x = name
      BY <3>2, <3>6 DEF NamedIn
    <3>8. ASSUME NEW x, \A m \in machines : NamedIn(m.adapters, x), "Network" \notin unreadable
          PROVE  x \in Tick!ToSet(Tail(waiting)) \/ NamedIn(longer, x)
      BY <2>2, <2>3, <3>7, <3>8
    <3>9. ASSUME Tick!Steady, "Network" \notin unreadable, NEW m \in machines PROVE InLine(m)'
      <4>1. InLine(m) /\ m.adapters = machine.adapters
        BY <2>2, <2>6, <3>9 DEF Tick!Steady
      <4>2. /\ Len(m.adapters) = n + Len(waiting)
            /\ \A k \in 1 .. n : list[k] = m.adapters[k]
            /\ \A k \in 1 .. Len(waiting) : waiting[k] = Tick!tolower(m.adapters[n + k].name)
        BY <2>1, <4>1 DEF InLine
      <4>3. DOMAIN m.adapters = 1 .. Len(m.adapters)
        BY <2>6, <4>1, TickSeq DEF Tick!IsMachine
      <4> HIDE DEF n
      <4>4. 1 \in 1 .. Len(waiting) /\ n + 1 \in 1 .. Len(m.adapters)
        BY <2>3, <3>4, <4>2
      <4>5. i = n + 1
        <5>1. Tick!tolower(machine.adapters[n + 1].name) = Tick!tolower(machine.adapters[i].name)
          BY <2>3, <3>1, <4>1, <4>2, <4>4
        <5> QED
          BY <2>6, <3>1, <4>1, <4>3, <4>4, <5>1 DEF Tick!IsMachine
      <4>6. \A k \in 1 .. n + 1 : longer[k] = m.adapters[k]
        <5>1. \A k \in 1 .. n + 1 : k \in 1 .. n \/ k = n + 1
          BY <3>4
        <5> QED
          BY <3>4, <4>1, <4>2, <4>5, <5>1 DEF one
      <4>7. Len(m.adapters) = (n + 1) + Len(Tail(waiting))
        <5>1. \A a, b \in Nat : a + (1 + b) = (a + 1) + b
          OBVIOUS
        <5> QED
          BY <2>3, <3>4, <4>2, <5>1
      <4>8. \A k \in 1 .. Len(Tail(waiting)) :
               Tail(waiting)[k] = Tick!tolower(m.adapters[(n + 1) + k].name)
        <5>1. \A k \in 1 .. Len(Tail(waiting)) : n + (k + 1) = (n + 1) + k
          BY <2>3, <3>4
        <5> QED
          BY <2>3, <4>2, <5>1
      <4> QED
        BY <2>1, <3>3, <3>4, <4>6, <4>7, <4>8 DEF InLine, Tick!tolower
    <3>10. Tick!IsSeq(facts.adapters)' /\ Tick!ToSet(facts.adapters)' = Tick!ToSet(longer)
      BY <3>3, <3>5 DEF Tick!IsSeq, Tick!ToSet
    <3>11. \A x : NamedIn(facts.adapters, x)' <=> NamedIn(longer, x)
      BY <2>4, <3>3
    <3>12. \A x : (\A m \in machines' : NamedIn(m.adapters, x)') <=> (\A m \in machines : NamedIn(m.adapters, x))
      BY <2>4, <2>6
    <3>13. \A a \in Tick!ToSet(longer) : \E m \in machines : a \in Tick!ToSet(m.adapters)
      BY <2>2, <2>6, <3>2, <3>6
    <3> QED
      BY <1>1, <2>5, <2>6, <2>7, <3>8, <3>9, <3>10, <3>11, <3>12, <3>13 DEF AdaptersRead, Tick!ToSet
  <2> QED
    BY <1>2, <2>8, <2>9 DEF name
<1> QED
  BY <1>1, <1>3, <1>4, <1>5, <1>6 DEF TickInv, FactsTrue, ReportTrue

(* One cannot be read, or the rest of them; or all have been read.         *)
LEMMA TickAdapters == ASSUME TickInv, Tick!adapter_fails \/ Tick!adapters_done PROVE TickInv'
<1>1. /\ phase = "adapters" /\ phase' \in {"adapters", "processes"} /\ Frame /\ UNCHANGED <<sized, facts>>
      /\ unreadable \subseteq unreadable'
  BY DEF Tick!adapter_fails, Tick!adapters_done, Frame
<1>2. TickTyped' /\ report' = <<>> /\ FactsTrue
  BY <1>1 DEF TickInv, TickTyped, Frame
<1>3. ServicesRead' /\ RegistryRead' /\ TopicsRead' /\ ProcessesRead'
  BY <1>1, <1>2, TickFrame DEF FactsTrue, ServicesRead, ProcessesRead, RegistryRead, TopicsRead, Frame,
     Tick!IsSeq, Tick!ToSet
<1>4. AdaptersRead'
  <2>1. CASE Tick!adapters_done
    <3>1. Rest' = Rest
      BY <1>1, <2>1 DEF Rest, Tick!adapters_done
    <3> QED
      BY <1>1, <1>2, <3>1, AdaptersKept DEF FactsTrue
  <2>2. CASE Tick!adapter_fails
    <3> SUFFICES ASSUME "Network" \in Tick!caps PROVE AdaptersRead'
      BY <1>1, TickFrame DEF AdaptersRead
    <3>1. Tick!IsSeq(waiting) /\ waiting # <<>> /\ waiting' \in {Tail(waiting), <<>>}
          /\ "Network" \in unreadable' /\ phase' = "adapters"
      BY <1>1, <1>2, <2>2 DEF Tick!adapter_fails, FactsTrue, AdaptersRead, Rest
    <3>2. waiting \in Seq(Tick!ToSet(waiting))
      BY <3>1 DEF Tick!IsSeq
    <3>3. waiting' \in Seq(Tick!ToSet(waiting))
      <4>1. Tail(waiting) \in Seq(Tick!ToSet(waiting))
        BY <3>1, <3>2, HeadTailProperties
      <4>2. <<>> \in Seq(Tick!ToSet(waiting))
        OBVIOUS
      <4> QED
        BY <3>1, <4>1, <4>2
    <3>4. Tick!IsSeq(waiting') /\ Rest' = waiting'
      BY <3>1, <3>3, TickIsSeq DEF Rest
    <3>5. Tick!IsSeq(Rest)'
      BY <3>4 DEF Tick!IsSeq, Tick!ToSet
    <3>6. /\ Tick!IsSeq(facts.adapters) /\ machines' = machines
          /\ \A a \in Tick!ToSet(facts.adapters) : \E m \in machines : a \in Tick!ToSet(m.adapters)
      BY <1>1, <1>2 DEF FactsTrue, AdaptersRead, Frame
    <3>7. Tick!IsSeq(facts.adapters)' /\ Tick!ToSet(facts.adapters)' = Tick!ToSet(facts.adapters)
      BY <1>1, <3>6 DEF Tick!IsSeq, Tick!ToSet
    <3> QED
      BY <3>1, <3>5, <3>6, <3>7 DEF AdaptersRead, Tick!ToSet
  <2> QED
    BY <2>1, <2>2
<1> QED
  BY <1>1, <1>2, <1>3, <1>4 DEF TickInv, FactsTrue, ReportTrue

(* The process snapshot, or its failure.                                   *)
LEMMA TickSnapshot == ASSUME TickInv, Tick!take_snapshot \/ Tick!snapshot_fails PROVE TickInv'
<1>1. /\ phase = "processes" /\ phase' \in {"versions", "services"} /\ Frame /\ UNCHANGED <<sized, facts>>
      /\ phase' = "versions" => snapshot' = machine.processes
      /\ phase' = "services" => "Process" \in unreadable'
      /\ unreadable \subseteq unreadable'
  BY DEF Tick!take_snapshot, Tick!snapshot_fails, Frame
<1>2. TickTyped' /\ report' = <<>>
  BY <1>1 DEF TickInv, TickTyped, Frame
<1>3. FactsTrue
  BY <1>1 DEF TickInv
<1>4. AdaptersRead' /\ ServicesRead' /\ RegistryRead' /\ TopicsRead'
  <2>1. Rest' = Rest
    BY <1>1 DEF Rest
  <2>2. AdaptersRead'
    BY <1>1, <1>3, <2>1, AdaptersKept DEF FactsTrue
  <2> QED
    BY <1>1, <1>3, <2>2, TickFrame DEF FactsTrue, ServicesRead, RegistryRead, TopicsRead, Frame
<1>5. ProcessesRead'
  <2>1. facts.processes = <<>> /\ Len(facts.processes) = 0 /\ Tick!IsSeq(facts.processes)
    BY <1>1, <1>3 DEF FactsTrue, ProcessesRead
  <2>2. CASE phase' = "versions"
    <3>1. Tick!IsSeq(machine.processes) /\ machine \in machines'
      BY <1>1, TickShapes DEF TickInv, TickTyped, Tick!IsMachine, Frame
    <3>2. Len(machine.processes) \in Nat
      BY <3>1, TickSeq
    <3>3. /\ ReadUpTo(machine.processes, 0)' /\ Len(machine.processes) = 0 + Len(snapshot')
          /\ \A i \in 1 .. Len(snapshot') : snapshot'[i] = machine.processes[0 + i]
      BY <1>1, <2>1, <2>2, <3>2 DEF ReadUpTo
    <3>4. machine' = machine /\ facts' = facts
      BY <1>1 DEF Frame
    <3> QED
      BY <1>1, <2>1, <2>2, <3>1, <3>3, <3>4 DEF ProcessesRead, Tick!IsSeq, Tick!ToSet
  <2>3. CASE phase' = "services"
    BY <1>1, <2>1, <2>3 DEF ProcessesRead, Tick!IsSeq, Tick!ToSet
  <2> QED
    BY <1>1, <2>2, <2>3
<1> QED
  BY <1>1, <1>2, <1>3, <1>4, <1>5 DEF TickInv, FactsTrue, ReportTrue

(* The version of the next process.                                        *)
LEMMA TickVersion == ASSUME TickInv, Tick!read_version PROVE TickInv'
<1> DEFINE info == Head(snapshot)
           open == info \in Tick!ToSet(machine.processes)
           one == [executable |-> info.executable, version |-> IF open THEN info.version ELSE <<>>]
           list == facts.processes
<1>1. /\ phase = "versions" /\ Frame /\ UNCHANGED <<phase, sized, unreadable>>
      /\ snapshot # <<>> /\ snapshot' = Tail(snapshot)
      /\ facts' = [facts EXCEPT !.processes = Append(list, one)]
  BY DEF Tick!read_version, Frame
<1>2. TickTyped' /\ report' = <<>> /\ FactsTrue
  BY <1>1 DEF TickInv, TickTyped, Frame
<1>3. /\ DOMAIN facts' = DOMAIN facts /\ facts'.processes = Append(list, one)
      /\ UNCHANGED <<facts.adapters, facts.services, facts.registry, facts.dds>>
  BY <1>1, <1>2 DEF FactsTrue
<1>4. AdaptersRead' /\ ServicesRead' /\ RegistryRead' /\ TopicsRead'
  <2>1. Rest' = Rest
    BY <1>1 DEF Rest
  <2>2. AdaptersRead'
    BY <1>1, <1>2, <1>3, <2>1, AdaptersKept DEF FactsTrue
  <2> QED
    BY <1>1, <1>2, <1>3, <2>2, TickFrame DEF FactsTrue, ServicesRead, RegistryRead, TopicsRead, Frame
<1>5. PICK m \in machines :
          LET n == Len(list)
          IN /\ ReadUpTo(m.processes, n)
             /\ Len(m.processes) = n + Len(snapshot)
             /\ \A i \in 1 .. Len(snapshot) : snapshot[i] = m.processes[n + i]
  BY <1>1, <1>2 DEF FactsTrue, ProcessesRead
<1> DEFINE n == Len(list)
<1>6. Tick!IsSeq(list) /\ Tick!IsSeq(snapshot)
  BY <1>1, <1>2 DEF FactsTrue, ProcessesRead
<1> HIDE DEF one, info
<1>7. /\ n \in Nat /\ Append(list, one) \in Seq(Tick!ToSet(list) \cup {one})
      /\ Len(Append(list, one)) = n + 1
      /\ \A i \in 1 .. n : Append(list, one)[i] = list[i]
      /\ Append(list, one)[n + 1] = one
  <2>1. list \in Seq(Tick!ToSet(list) \cup {one}) /\ n \in Nat
    BY <1>6 DEF Tick!IsSeq
  <2> QED
    BY <2>1, AppendProperties
<1>8. Tick!IsSeq(facts'.processes)
  BY <1>3, <1>7, TickIsSeq
<1>9. /\ Tail(snapshot) \in Seq(Tick!ToSet(snapshot)) /\ Len(snapshot) \in Nat \ {0}
      /\ Len(Tail(snapshot)) = Len(snapshot) - 1
      /\ \A i \in 1 .. Len(Tail(snapshot)) : Tail(snapshot)[i] = snapshot[i + 1]
      /\ info = snapshot[1]
  <2>1. snapshot \in Seq(Tick!ToSet(snapshot)) /\ snapshot # <<>>
    BY <1>1, <1>6 DEF Tick!IsSeq
  <2> QED
    BY <2>1, HeadTailProperties, EmptySeq, LenProperties DEF info
<1>10. Tick!IsSeq(snapshot')
  BY <1>1, <1>9, TickIsSeq
<1>11. info = m.processes[n + 1] /\ n + 1 \in 1 .. Len(m.processes) /\ info \in Tick!ToSet(m.processes)
  <2>1. info = m.processes[n + 1] /\ n + 1 \in 1 .. Len(m.processes)
    BY <1>5, <1>7, <1>9
  <2>2. DOMAIN m.processes = 1 .. Len(m.processes)
    BY <1>2, TickShapes, TickSeq DEF TickInv, Tick!IsMachine
  <2> QED
    BY <2>1, <2>2 DEF Tick!ToSet
<1>12. one.executable = info.executable /\ VersionRead(one.version, info)
  <2>1. one.executable = info.executable /\ one.version = IF open THEN info.version ELSE <<>>
    BY DEF one
  <2>2. CASE open
    BY <2>1, <2>2 DEF VersionRead, TickInv, TickTyped
  <2>3. CASE ~open
    BY <1>11, <2>1, <2>3 DEF VersionRead, TickInv, TickTyped, Changed
  <2> QED
    BY <2>2, <2>3
<1>13. /\ Len(facts'.processes) = n + 1
       /\ \A i \in 1 .. n + 1 : /\ facts'.processes[i].executable = m.processes[i].executable
                                 /\ VersionRead(facts'.processes[i].version, m.processes[i])
  <2>1. \A i \in 1 .. n + 1 : i \in 1 .. n \/ i = n + 1
    BY <1>7
  <2>2. \A i \in 1 .. n + 1 : /\ Append(list, one)[i].executable = m.processes[i].executable
                              /\ VersionRead(Append(list, one)[i].version, m.processes[i])
    BY <1>5, <1>7, <1>11, <1>12, <2>1 DEF ReadUpTo
  <2> QED
    BY <1>3, <1>7, <2>2
<1>14. /\ Len(m.processes) = (n + 1) + Len(snapshot')
       /\ \A i \in 1 .. Len(snapshot') : snapshot'[i] = m.processes[(n + 1) + i]
  <2>1. snapshot' = Tail(snapshot) /\ Len(m.processes) = n + Len(snapshot)
        /\ \A i \in 1 .. Len(snapshot) : snapshot[i] = m.processes[n + i]
    BY <1>1, <1>5
  <2> HIDE DEF n
  <2>2. \A i \in 1 .. Len(Tail(snapshot)) : i + 1 \in 1 .. Len(snapshot) /\ n + (i + 1) = (n + 1) + i
    BY <1>7, <1>9
  <2>3. Len(snapshot) = 1 + Len(Tail(snapshot)) /\ Len(Tail(snapshot)) \in Nat
    BY <1>9
  <2>4. Len(m.processes) = (n + 1) + Len(Tail(snapshot))
    <3>1. n \in Nat
      BY <1>7
    <3>2. \A k, x \in Nat : k + (1 + x) = (k + 1) + x
      OBVIOUS
    <3> QED
      BY <2>1, <2>3, <3>1, <3>2
  <2> QED
    BY <1>9, <2>1, <2>2, <2>4
<1>15. ProcessesRead'
  <2>1. machines' = machines /\ phase' = "versions"
    BY <1>1 DEF Frame
  <2>2. \A v, p : VersionRead(v, p)' = VersionRead(v, p)
    BY <1>1, TickFrame
  <2> HIDE DEF n
  <2>3. ReadUpTo(m.processes, Len(facts.processes))'
    BY <1>13, <2>2 DEF ReadUpTo
  <2>4. /\ Len(m.processes) = Len(facts'.processes) + Len(snapshot')
        /\ \A i \in 1 .. Len(snapshot') : snapshot'[i] = m.processes[Len(facts'.processes) + i]
    BY <1>13, <1>14
  <2>5. Tick!IsSeq(facts.processes)' /\ Tick!IsSeq(snapshot)'
    BY <1>8, <1>10 DEF Tick!IsSeq, Tick!ToSet
  <2> QED
    BY <2>1, <2>3, <2>4, <2>5 DEF ProcessesRead
<1> QED
  BY <1>1, <1>2, <1>3, <1>4, <1>15 DEF TickInv, FactsTrue, ReportTrue

(* The services, once the processes are read.                              *)
LEMMA TickServices == ASSUME TickInv, Tick!enumerate_services PROVE TickInv'
<1>1. /\ phase \in {"processes", "versions", "services"} /\ phase' = "registry" /\ Frame
      /\ UNCHANGED <<snapshot, sized, unreadable>>
      /\ facts' = IF Tick!Needs("Service", "Services")
                  THEN [facts EXCEPT !.services = machine.services] ELSE facts
      /\ phase = "processes" => ~Tick!Needs("Process", "Processes")
      /\ phase = "versions" => snapshot = <<>>
  BY DEF Tick!enumerate_services, Frame
<1>2. TickTyped' /\ report' = <<>> /\ FactsTrue
  BY <1>1 DEF TickInv, TickTyped, Frame
<1>3. /\ DOMAIN facts' = DOMAIN facts
      /\ Tick!Needs("Service", "Services") => facts'.services = machine.services
      /\ UNCHANGED <<facts.adapters, facts.processes, facts.registry, facts.dds>>
  BY <1>1, <1>2 DEF FactsTrue
<1>4. AdaptersRead' /\ RegistryRead' /\ TopicsRead'
  <2>1. Rest' = Rest
    BY <1>1 DEF Rest
  <2>2. AdaptersRead'
    BY <1>1, <1>2, <1>3, <2>1, AdaptersKept DEF FactsTrue
  <2> QED
    BY <1>1, <1>2, <1>3, <2>2, TickFrame DEF FactsTrue, RegistryRead, TopicsRead, Frame
<1>5. ServicesRead'
  BY <1>1, <1>2, <1>3, TickFrame DEF ServicesRead, TickTyped, Frame
<1>6. \A list, k : ReadUpTo(list, k)' = ReadUpTo(list, k)
  BY <1>1, <1>3, TickFrame DEF ReadUpTo
<1>7. Tick!Needs("Process", "Processes") =>
          "Process" \in unreadable \/ \E m \in machines : ReadUpTo(m.processes, Len(m.processes))
  <2>1. CASE phase = "versions"
    <3>1. PICK m \in machines : ReadUpTo(m.processes, Len(facts.processes))
                                /\ Len(m.processes) = Len(facts.processes) + Len(snapshot)
      BY <1>2, <2>1 DEF FactsTrue, ProcessesRead
    <3>2. Len(snapshot) = 0 /\ Len(facts.processes) \in Nat
      BY <1>1, <1>2, <2>1, TickSeq DEF FactsTrue, ProcessesRead
    <3>3. Len(m.processes) = Len(facts.processes)
      BY <3>1, <3>2
    <3> QED
      BY <3>1, <3>3
  <2> QED
    BY <1>1, <1>2, <2>1 DEF FactsTrue, ProcessesRead
<1>8. ProcessesRead'
  BY <1>1, <1>2, <1>3, <1>6, <1>7, TickFrame DEF FactsTrue, ProcessesRead, Tick!IsSeq, Tick!ToSet, Frame
<1> QED
  BY <1>1, <1>2, <1>3, <1>4, <1>5, <1>8 DEF TickInv, FactsTrue, ReportTrue

(* A registry value is asked for its size and then for its data.           *)
LEMMA TickRegistry ==
    ASSUME TickInv, Tick!read_size \/ Tick!read_data \/ Tick!registry_done
    PROVE  TickInv'
<1>1. /\ Frame /\ UNCHANGED <<snapshot, unreadable>>
      /\ phase = "registry" /\ phase' \in {"registry", "dds"}
  BY DEF Tick!read_size, Tick!read_data, Tick!registry_done, Frame, TickInv, FactsTrue, RegistryRead
<1>2. TickTyped' /\ report' = <<>> /\ FactsTrue
  BY <1>1 DEF TickInv, TickTyped, Frame
<1>3. CASE /\ facts' = facts
           /\ \/ /\ sized = <<>> /\ phase' = "registry"
                 /\ \E key \in Tick!registry_rules : sized' = <<key, Len(machine.values[key].data)>>
              \/ /\ sized' = sized /\ sized = <<>> /\ phase' = "dds"
                 /\ Tick!registry_rules \subseteq DOMAIN facts.registry
  <2>0. AdaptersRead'
    <3>1. Rest' = Rest
      BY <1>1 DEF Rest
    <3> QED
      BY <1>1, <1>2, <1>3, <3>1, AdaptersKept DEF FactsTrue
  <2>1. AdaptersRead' /\ ServicesRead' /\ ProcessesRead' /\ TopicsRead'
    BY <1>1, <1>2, <1>3, <2>0, TickFrame DEF FactsTrue, ServicesRead, ProcessesRead, ReadUpTo,
       TopicsRead, Frame
  <2>2. RegistryRead'
    BY <1>1, <1>2, <1>3, TickFrame DEF FactsTrue, RegistryRead, TickTyped, Frame
  <2> QED
    BY <1>1, <1>2, <1>3, <2>1, <2>2 DEF TickInv, FactsTrue, ReportTrue
<1>4. CASE \E key, value : /\ facts' = Tick!Keep(key, value) /\ sized' = <<>> /\ phase' = "registry"
                           /\ \/ value = machine.values[key]
                              \/ value = Tick!Denied /\ Changed
  <2>1. PICK key, value : /\ facts' = [facts EXCEPT !.registry = Tick!With(facts.registry, key, value)]
                          /\ sized' = <<>> /\ phase' = "registry"
                          /\ \/ value = machine.values[key]
                             \/ value = Tick!Denied /\ Changed
    BY <1>4 DEF Tick!Keep
  <2>2. /\ DOMAIN facts' = DOMAIN facts /\ facts'.registry = Tick!With(facts.registry, key, value)
        /\ UNCHANGED <<facts.adapters, facts.services, facts.processes, facts.dds>>
    BY <1>2, <2>1 DEF FactsTrue
  <2>0. AdaptersRead'
    <3>1. Rest' = Rest
      BY <1>1 DEF Rest
    <3> QED
      BY <1>1, <1>2, <2>2, <3>1, AdaptersKept DEF FactsTrue
  <2>3. AdaptersRead' /\ ServicesRead' /\ ProcessesRead' /\ TopicsRead'
    BY <1>1, <1>2, <2>0, <2>1, <2>2, TickFrame DEF FactsTrue, ServicesRead, ProcessesRead, ReadUpTo,
       TopicsRead, Frame
  <2>4. RegistryRead'
    <3> DEFINE map == facts.registry
               new == Tick!With(map, key, value)
    <3>0. /\ facts'.registry = new /\ DOMAIN new = DOMAIN map \cup {key} /\ new[key] = value
          /\ \A k \in DOMAIN map : k # key => new[k] = map[k]
      BY <2>2 DEF Tick!With
    <3> HIDE DEF new
    <3>1. ASSUME NEW k \in DOMAIN facts'.registry
          PROVE  \/ \E m \in machines : facts'.registry[k] = m.values[k]
                 \/ facts'.registry[k] = Tick!Denied /\ Changed
      <4>1. CASE k = key
        BY <2>1, <3>0, <4>1 DEF TickInv, TickTyped
      <4>2. CASE k # key
        BY <1>2, <3>0, <4>2 DEF FactsTrue, RegistryRead
      <4> QED
        BY <4>1, <4>2
    <3> QED
      BY <1>1, <2>1, <3>1, TickFrame DEF RegistryRead, Tick!Denied, Frame
  <2> QED
    BY <1>1, <1>2, <2>1, <2>2, <2>3, <2>4 DEF TickInv, FactsTrue, ReportTrue
<1>5. CASE Tick!read_size
  BY <1>3, <1>4, <1>5 DEF Tick!read_size
<1>6. CASE Tick!read_data
  <2> DEFINE key == sized[1]
             value == machine.values[key]
  <2>1. /\ sized' = <<>> /\ phase' = "registry"
        /\ facts' = Tick!Keep(key, IF Len(value.data) > sized[2] THEN Tick!Denied ELSE value)
    BY <1>1, <1>6 DEF Tick!read_data
  <2>2. PICK m \in machines : sized[2] = Len(m.values[key].data) /\ key \in Tick!registry_rules
    BY <1>2, <1>6 DEF FactsTrue, RegistryRead, Tick!read_data
  <2>3. Len(value.data) > sized[2] => Changed
    <3> SUFFICES ASSUME Len(value.data) > sized[2], ~Changed PROVE FALSE
      OBVIOUS
    <3>1. machine = m
      BY <1>2 DEF Changed, TickInv, TickTyped
    <3>2. Len(m.values[key].data) \in Nat
      <4>1. PICK r \in DOMAIN rules : /\ Tick!kind_of(rules[r]) = "Registry"
                                      /\ Tick!registry_key(rules[r].payload) = key
        BY <2>2 DEF Tick!registry_rules, Tick!Wanted, Tick!ToSet
      <4>2. key \in DOMAIN m.values
        BY <4>1, TickShapes DEF TickInv
      <4>3. Tick!IsSeq(m.values[key].data)
        BY <4>2, TickShapes DEF TickInv, Tick!IsMachine
      <4> QED
        BY <4>3, TickSeq
    <3> QED
      BY <2>2, <3>1, <3>2
  <2> QED
    BY <1>4, <2>1, <2>3
<1>7. CASE Tick!registry_done
  BY <1>3, <1>7 DEF Tick!registry_done
<1> QED
  BY <1>5, <1>6, <1>7

(* A look at one topic.                                                    *)
LEMMA TickLook == ASSUME TickInv, Tick!look PROVE TickInv'
<1>1. PICK key, found :
          /\ facts' = [facts EXCEPT !.dds = Tick!With(facts.dds, key, found)]
          /\ found \in {machine.topics[key], Tick!LookFailed}
          /\ unreadable' = IF found = Tick!LookFailed THEN unreadable \cup {"Dds"} ELSE unreadable
  BY DEF Tick!look
<1>2. Frame /\ UNCHANGED <<phase, snapshot, sized>> /\ phase = "dds" /\ unreadable \subseteq unreadable'
      /\ (found = Tick!LookFailed => "Dds" \in unreadable')
  BY <1>1 DEF Tick!look, Frame
<1>3. TickTyped' /\ report' = <<>> /\ FactsTrue
  BY <1>2 DEF TickInv, TickTyped, Frame
<1>4. /\ DOMAIN facts' = DOMAIN facts /\ facts'.dds = Tick!With(facts.dds, key, found)
      /\ UNCHANGED <<facts.adapters, facts.services, facts.processes, facts.registry>>
  BY <1>1, <1>3 DEF FactsTrue
<1>5. AdaptersRead' /\ ServicesRead' /\ ProcessesRead' /\ RegistryRead'
  <2>1. Rest' = Rest
    BY <1>2 DEF Rest
  <2>2. AdaptersRead'
    BY <1>2, <1>3, <1>4, <2>1, AdaptersKept DEF FactsTrue
  <2> QED
    BY <1>2, <1>3, <1>4, <2>2, TickFrame DEF FactsTrue, ServicesRead, ProcessesRead, ReadUpTo,
       RegistryRead, Frame
<1>6. TopicsRead'
  <2> DEFINE map == facts.dds
             new == Tick!With(map, key, found)
  <2>0. /\ facts'.dds = new /\ DOMAIN new = DOMAIN map \cup {key} /\ new[key] = found
        /\ \A k \in DOMAIN map : k # key => new[k] = map[k]
    BY <1>4 DEF Tick!With
  <2> HIDE DEF new
  <2>1. ASSUME NEW k \in DOMAIN facts'.dds
        PROVE  \/ \E m \in machines : facts'.dds[k] = m.topics[k]
               \/ facts'.dds[k] = Tick!LookFailed /\ "Dds" \in unreadable'
    <3>1. CASE k = key
      BY <1>1, <1>2, <2>0, <3>1 DEF TickInv, TickTyped
    <3>2. CASE k # key
      BY <1>2, <1>3, <2>0, <3>2 DEF FactsTrue, TopicsRead
    <3> QED
      BY <3>1, <3>2
  <2> QED
    BY <1>2, <2>1 DEF TopicsRead, Tick!LookFailed, Frame
<1> QED
  BY <1>2, <1>3, <1>4, <1>5, <1>6 DEF TickInv, FactsTrue, ReportTrue
(* An evaluation, of what was read.                                        *)
LEMMA RuleKinds ==
    ASSUME NEW rule
    PROVE  /\ rule.payload.type = "ProcessRule" => Tick!kind_of(rule) = "Process"
           /\ rule.payload.type = "ServiceRule" => Tick!kind_of(rule) = "Service"
           /\ rule.payload.type = "RegistryRule" => Tick!kind_of(rule) = "Registry"
           /\ rule.payload.type \in {"AdapterCountRule", "AdapterStateRule"}
                 => Tick!kind_of(rule) = "Network"
           /\ rule.payload.type \in {"DdsTopicRule", "DdsValueRule"} => Tick!kind_of(rule) = "Dds"
  BY DEF Tick!kind_of

(* What the fields of a rule of each type may be.                          *)
LEMMA RuleFields ==
    ASSUME NEW rule, Tick!IsRule(rule)
    PROVE  /\ rule.payload.type = "ProcessRule" /\ rule.version # <<>> =>
                 /\ rule.version[1].value \in Seq(Nat)
                 /\ rule.version[1].op \in {"Equal", "NotEqual", "Less", "LessEqual", "Greater", "GreaterEqual"}
           /\ rule.payload.type = "ServiceRule" /\ rule.payload.expected_state # <<>> =>
                 rule.payload.expected_state = <<rule.payload.expected_state[1]>>
           /\ rule.payload.type = "RegistryRule" =>
                 /\ rule.payload.match \in {"Exists", "Equals", "Contains"}
                 /\ Tick!IsSeq(rule.payload.expected_value)
           /\ rule.payload.type = "AdapterCountRule" =>
                 /\ rule.payload.comparison \in {"AtLeast", "Exactly", "AtMost"}
                 /\ rule.payload.count \in Int
           /\ rule.payload.type = "DdsValueRule" =>
                 rule.payload.match \in {"Equals", "Contains", "AtLeast", "AtMost"}
  BY DEF Tick!IsRule

LEMMA KindsNeed ==
    /\ Tick!required_capability("Process") = "Processes"
    /\ Tick!required_capability("Service") = "Services"
    /\ Tick!required_capability("Registry") = "Registry"
    /\ Tick!required_capability("Network") = "Network"
    /\ Tick!required_capability("Dds") = "Dds"
  BY DEF Tick!required_capability

LEMMA VerdictIsStatus ==
    ASSUME NEW rule, NEW ok \in BOOLEAN
    PROVE  /\ Tick!Verdict(rule, ok).status = Tick!Status(ok) /\ Tick!Status(ok) \in {"Pass", "Fail"}
           /\ \A there \in BOOLEAN :
                 Tick!resolve(rule, there) = Tick!Verdict(rule, there = Tick!MustBePresent(rule))
  BY DEF Tick!Verdict, Tick!Result, Tick!Status, Tick!resolve

(* A verdict is earned if it is a claim about one moment.                  *)
LEMMA ClaimEarns ==
    ASSUME NEW rule, NEW ok \in BOOLEAN, NEW m \in machines, Tick!Status(ok) \in Tick!Claims(rule, m)
    PROVE  Earned(rule, Tick!Verdict(rule, ok))
  BY VerdictIsStatus DEF Earned

LEMMA ErrorEarns ==
    ASSUME NEW rule, NEW why, why # "not probed",
           \/ Tick!kind_of(rule) \in unreadable
           \/ Changed
           \/ \E m \in machines : Tick!Claims(rule, m) = {}
           \/ \E m \in machines : \E p \in Tick!ToSet(m.processes) :
                 why = "version unreadable" /\ p.version = <<>>
    PROVE  Earned(rule, Tick!error(rule, why))
<1>1. Tick!error(rule, why).status = "Error" /\ Tick!error(rule, why).why = why
  BY DEF Tick!error
<1>2. \A result : result.status = "Error" /\ result.why = why => Earned(rule, result)
  BY DEF Earned
<1> QED
  BY <1>1, <1>2

LEMMA MustBeBoolean == \A rule : Tick!MustBePresent(rule) \in BOOLEAN
  BY DEF Tick!MustBePresent

LEMMA ProcessJudged ==
    ASSUME TickInv, phase = "dds", NEW r \in DOMAIN rules, Able(rules[r]),
           rules[r].payload.type = "ProcessRule"
    PROVE  Earned(rules[r], Tick!evaluate_process(rules[r], rules[r].payload, facts))
<1> DEFINE rule == rules[r]
           name == Tick!tolower(rule.payload.executable)
           list == facts.processes
           I == {i \in 1 .. Len(list) : Tick!tolower(list[i].executable) = name}
           first == IF I # {} THEN Tick!Min(I) ELSE 0
           version == list[first].version
           result == Tick!evaluate_process(rule, rule.payload, facts)
           present == Tick!MustBePresent(rule)
<1>1. /\ Tick!IsSeq(list)
      /\ "Process" \in unreadable \/ \E m \in machines : ReadUpTo(m.processes, Len(m.processes))
  <2>1. rule.payload \in Tick!Wanted("Process") /\ "Processes" \in Tick!caps
    BY RuleKinds, KindsNeed DEF Able, Tick!Wanted, Tick!ToSet
  <2> QED
    BY <2>1 DEF Tick!Needs, TickInv, FactsTrue, ProcessesRead
<1>2. result = IF first # 0 /\ rule.version # <<>> /\ present
               THEN IF version = <<>> THEN Tick!error(rule, "version unreadable")
                    ELSE Tick!Verdict(rule, Tick!satisfies(version, rule.version[1]))
               ELSE Tick!resolve(rule, first # 0)
  BY DEF Tick!evaluate_process, Tick!SelectInSeq, Tick!equals_ignore_case
<1>3. Len(list) \in Nat /\ (I # {} => first \in I /\ first # 0) /\ (I = {} => first = 0)
  <2>1. Len(list) \in Nat
    BY <1>1, TickSeq
  <2>2. I \in SUBSET Nat /\ 0 \notin I
    BY <2>1
  <2> HIDE DEF I
  <2> QED
    BY <2>1, <2>2, TickMin
<1>4. rule.version # <<>> =>
          /\ rule.version[1].value \in Seq(Nat)
          /\ rule.version[1].op \in {"Equal", "NotEqual", "Less", "LessEqual", "Greater", "GreaterEqual"}
  <2>1. Tick!IsRule(rule)
    BY TickShapes DEF TickInv
  <2> HIDE DEF rule
  <2>2. rule.payload.type = "ProcessRule"
    BY DEF rule
  <2> QED
    BY <2>1, <2>2, RuleFields
<1>5. Tick!kind_of(rule) = "Process" /\ present \in BOOLEAN
  BY RuleKinds, MustBeBoolean
<1> HIDE DEF result, first, rule
<1>6. CASE "Process" \in unreadable
  <2>1. result.status = "Error" => result.why # "not probed"
    BY <1>2 DEF Tick!error, Tick!resolve, Tick!Verdict, Tick!Result
  <2>2. result.status \in {"Pass", "Fail", "Error"}
    BY <1>2 DEF Tick!error, Tick!resolve, Tick!Verdict, Tick!Result
  <2> QED
    BY <1>5, <1>6, <2>1, <2>2 DEF Earned, result, rule
<1>7. CASE "Process" \notin unreadable
  <2>1. PICK m \in machines : ReadUpTo(m.processes, Len(m.processes))
    BY <1>1, <1>7
  <2> DEFINE there == {x \in Tick!ToSet(m.processes) : Tick!tolower(x.executable) = name}
  <2>2. /\ Tick!Claims(rule, m)
           = IF rule.version = <<>> \/ there = {} \/ ~present
             THEN {Tick!Status((there # {}) = present)}
             ELSE {Tick!Status(Tick!Meets(p.version, rule.version[1])) : p \in {q \in there : q.version # <<>>}}
    BY <1>5 DEF Tick!Claims, Tick!ProcessClaims, Tick!Named
  <2>3. /\ Len(list) = Len(m.processes) /\ Tick!ToSet(m.processes) = {m.processes[i] : i \in 1 .. Len(list)}
        /\ \A i \in 1 .. Len(list) : /\ list[i].executable = m.processes[i].executable
                                     /\ VersionRead(list[i].version, m.processes[i])
        /\ \A p \in Tick!ToSet(m.processes) : p.version \in Seq(Nat)
    BY <2>1, TickShapes, TickSeq DEF ReadUpTo, TickInv, Tick!IsMachine
  <2>4. /\ I # {} <=> there # {}
        /\ I # {} => /\ m.processes[first] \in there
                     /\ VersionRead(version, m.processes[first])
                     /\ m.processes[first].version \in Seq(Nat)
    <3>1. \A i \in 1 .. Len(list) : i \in I <=> m.processes[i] \in there
      BY <2>3
    <3>2. \A p \in there : \E i \in 1 .. Len(list) : p = m.processes[i]
      BY <2>3
    <3>3. I \subseteq 1 .. Len(list) /\ \A p \in there : p.version \in Seq(Nat)
      BY <2>3
    <3> HIDE DEF I, there
    <3> QED
      BY <1>3, <2>3, <3>1, <3>2, <3>3
  <2>5. CASE I # {} /\ rule.version # <<>> /\ present /\ version = <<>>
    <3>1. result = Tick!error(rule, "version unreadable")
      BY <1>2, <1>3, <2>5
    <3>2. Changed \/ \E x \in machines : \E p \in Tick!ToSet(x.processes) : p.version = <<>>
      BY <2>4, <2>5 DEF VersionRead
    <3> QED
      BY <3>1, <3>2, ErrorEarns DEF result, rule
  <2>6. CASE I # {} /\ rule.version # <<>> /\ present /\ version # <<>>
    <3> DEFINE ok == Tick!satisfies(version, rule.version[1])
    <3>1. result = Tick!Verdict(rule, ok)
      BY <1>2, <1>3, <2>6
    <3>2. version = m.processes[first].version
      BY <2>4, <2>6 DEF VersionRead
    <3>3. ok = Tick!Meets(version, rule.version[1]) /\ ok \in BOOLEAN
      BY <1>4, <2>4, <2>6, <3>2, SatisfiesMeets
    <3> HIDE DEF ok, there
    <3>4. Tick!Status(ok) \in Tick!Claims(rule, m)
      BY <2>2, <2>4, <2>6, <3>2, <3>3
    <3> QED
      BY <3>1, <3>3, <3>4, ClaimEarns DEF result, rule
  <2>7. CASE I = {} \/ rule.version = <<>> \/ ~present
    <3> DEFINE ok == (I # {}) = present
    <3>1. result = Tick!Verdict(rule, ok)
      <4>1. result = Tick!resolve(rule, first # 0) /\ (first # 0) = (I # {})
        BY <1>2, <1>3, <2>7
      <4> QED
        BY <4>1, VerdictIsStatus
    <3>2. Tick!Claims(rule, m) = {Tick!Status(ok)}
      <4>1. (there # {}) = (I # {})
        BY <2>4
      <4> HIDE DEF there
      <4> QED
        BY <2>2, <2>7, <4>1
    <3> QED
      BY <3>1, <3>2, ClaimEarns DEF result, rule
  <2> QED
    BY <2>5, <2>6, <2>7
<1> QED
  BY <1>6, <1>7

(* The judge of each type of rule: its result is earned by the facts.      *)
LEMMA ServiceJudged ==
    ASSUME TickInv, phase = "dds", NEW r \in DOMAIN rules, Able(rules[r]),
           rules[r].payload.type = "ServiceRule"
    PROVE  Earned(rules[r], Tick!evaluate_service(rules[r], rules[r].payload, facts))
<1> DEFINE rule == rules[r]
           expected == rule.payload.expected_state
           name == Tick!tolower(rule.payload.service_name)
           list == facts.services
           I == {i \in 1 .. Len(list) : Tick!tolower(list[i].name) = name}
           there == {x \in Tick!ToSet(list) : Tick!tolower(x.name) = name}
           first == IF I # {} THEN Tick!Min(I) ELSE 0
           result == Tick!evaluate_service(rule, rule.payload, facts)
           present == Tick!MustBePresent(rule)
<1>1. PICK m \in machines : list = m.services
  <2>1. rule.payload \in Tick!Wanted("Service") /\ "Services" \in Tick!caps
    BY RuleKinds, KindsNeed DEF Able, Tick!Wanted, Tick!ToSet
  <2> QED
    BY <2>1 DEF Tick!Needs, TickInv, FactsTrue, ServicesRead
<1>2. result = IF first # 0 /\ expected # <<>> /\ present
               THEN Tick!Verdict(rule, list[first].state = expected[1])
               ELSE Tick!resolve(rule, first # 0)
  BY DEF Tick!evaluate_service, Tick!SelectInSeq, Tick!equals_ignore_case
<1>3. Len(list) \in Nat /\ Tick!ToSet(list) = {list[i] : i \in 1 .. Len(list)}
  BY <1>1, TickShapes, TickSeq DEF TickInv, Tick!IsMachine
<1>4. (I # {} => first \in I /\ first # 0) /\ (I = {} => first = 0)
  <2>1. I \in SUBSET Nat /\ 0 \notin I
    BY <1>3
  <2> HIDE DEF I
  <2> QED
    BY <2>1, TickMin
<1>5. (there # {} <=> I # {}) /\ (I # {} => list[first] \in there)
  <2>1. \A i \in 1 .. Len(list) : i \in I <=> list[i] \in there
    BY <1>3
  <2>2. (\A p \in there : \E i \in 1 .. Len(list) : p = list[i]) /\ I \subseteq 1 .. Len(list)
    BY <1>3
  <2> HIDE DEF I, there
  <2> QED
    BY <1>4, <2>1, <2>2
<1>6. Tick!Claims(rule, m) = IF there = {} \/ ~present THEN {Tick!Status((there # {}) = present)}
                             ELSE {Tick!Status(expected \in {<<>>, <<s.state>>}) : s \in there}
  <2>1. Tick!kind_of(rule) = "Service"
    BY RuleKinds
  <2> QED
    BY <1>1, <2>1 DEF Tick!Claims, Tick!ServiceClaims, Tick!Named
<1>7. present \in BOOLEAN /\ (expected # <<>> => expected = <<expected[1]>>)
  <2>1. Tick!IsRule(rule) /\ rule.payload.type = "ServiceRule"
    BY TickShapes DEF TickInv
  <2> HIDE DEF rule
  <2> QED
    BY <2>1, RuleFields, MustBeBoolean
<1> HIDE DEF result, first, rule, I, there
<1>8. CASE I # {} /\ expected # <<>> /\ present
  <2> DEFINE ok == list[first].state = expected[1]
  <2>1. ok <=> expected \in {<<>>, <<list[first].state>>}
    <3>1. \A a, b : <<a>> = <<b>> <=> a = b
      OBVIOUS
    <3>2. expected = <<expected[1]>> /\ expected # <<>>
      BY <1>7, <1>8
    <3> HIDE DEF list, expected
    <3> QED
      BY <3>1, <3>2
  <2>2. Tick!Status(ok) \in Tick!Claims(rule, m)
    BY <1>5, <1>6, <1>8, <2>1
  <2>3. result = Tick!Verdict(rule, ok)
    BY <1>2, <1>4, <1>8
  <2> QED
    BY <2>2, <2>3, ClaimEarns DEF result, rule
<1>9. CASE ~(I # {} /\ expected # <<>> /\ present)
  <2> DEFINE ok == (I # {}) = present
  <2>1. result = Tick!Verdict(rule, ok)
    <3>1. result = Tick!resolve(rule, first # 0) /\ (first # 0) = (I # {})
      BY <1>2, <1>4, <1>9
    <3> QED
      BY <3>1, VerdictIsStatus
  <2>2. Tick!Status(ok) \in Tick!Claims(rule, m)
    <3>1. (there # {}) = (I # {})
      BY <1>5
    <3>2. CASE there = {} \/ ~present
      BY <1>6, <3>1, <3>2
    <3>3. CASE there # {} /\ present
      <4>1. expected = <<>> /\ ok = TRUE /\ expected \in {<<>>, <<list[first].state>>}
        BY <1>5, <1>7, <1>9, <3>3
      <4> QED
        BY <1>5, <1>6, <3>3, <4>1
    <3> QED
      BY <3>2, <3>3
  <2> QED
    BY <2>1, <2>2, ClaimEarns DEF result, rule
<1> QED
  BY <1>8, <1>9

(* A text contains another if that is one of its slices.                   *)
LEMMA ContainsIsASlice ==
    ASSUME NEW whole, Tick!IsSeq(whole), NEW piece, Tick!IsSeq(piece)
    PROVE  Tick!contains_text(whole, piece)
             <=> \E i \in 1 .. Len(whole) + 1, j \in 0 .. Len(whole) : SubSeq(whole, i, j) = piece
<1>1. Len(whole) \in Nat /\ Len(piece) \in Nat /\ whole \in Seq(Tick!ToSet(whole))
  BY TickSeq DEF Tick!IsSeq
<1>2. \A i \in 1 .. Len(whole) + 1, j \in 0 .. Len(whole) :
          Len(SubSeq(whole, i, j)) = IF i <= j THEN j - i + 1 ELSE 0
  BY <1>1, SubSeqProperties
<1>3. ASSUME NEW i \in 0 .. Len(whole) - Len(piece), SubSeq(whole, i + 1, i + Len(piece)) = piece
      PROVE  \E k \in 1 .. Len(whole) + 1, j \in 0 .. Len(whole) : SubSeq(whole, k, j) = piece
  <2>1. i + 1 \in 1 .. Len(whole) + 1 /\ i + Len(piece) \in 0 .. Len(whole)
    BY <1>1
  <2> QED
    BY <1>3, <2>1
<1>4. ASSUME NEW i \in 1 .. Len(whole) + 1, NEW j \in 0 .. Len(whole), SubSeq(whole, i, j) = piece
      PROVE  \E k \in 0 .. Len(whole) - Len(piece) : SubSeq(whole, k + 1, k + Len(piece)) = piece
  <2>1. CASE i <= j
    <3>1. Len(piece) = j - i + 1
      BY <1>2, <1>4, <2>1
    <3>2. i - 1 \in 0 .. Len(whole) - Len(piece) /\ (i - 1) + 1 = i /\ (i - 1) + Len(piece) = j
      BY <1>1, <2>1, <3>1
    <3> QED
      BY <1>4, <3>2
  <2>2. CASE ~(i <= j)
    <3>1. Len(piece) = 0 /\ piece = <<>>
      BY <1>2, <1>4, <2>2, TickSeq
    <3>2. Len(SubSeq(whole, 1, 0)) = 0 /\ SubSeq(whole, 1, 0) \in Seq(Tick!ToSet(whole))
      BY <1>1, SubSeqProperties
    <3>3. SubSeq(whole, 0 + 1, 0 + Len(piece)) = piece /\ 0 \in 0 .. Len(whole) - Len(piece)
      BY <1>1, <3>1, <3>2, EmptySeq
    <3> QED
      BY <3>3
  <2> QED
    BY <2>1, <2>2
<1> QED
  BY <1>3, <1>4 DEF Tick!contains_text

LEMMA RegistryJudged ==
    ASSUME TickInv, phase = "dds", NEW r \in DOMAIN rules, Able(rules[r]),
           rules[r].payload.type = "RegistryRule"
    PROVE  Earned(rules[r], Tick!evaluate_registry(rules[r], rules[r].payload, facts))
<1> DEFINE rule == rules[r]
           p == rule.payload
           key == Tick!registry_key(p)
           value == facts.registry[key]
           fits == CASE p.match = "Exists"   -> TRUE
                     [] p.match = "Equals"   -> value.data = p.expected_value
                     [] p.match = "Contains" -> Tick!contains_text(value.data, p.expected_value)
           result == Tick!evaluate_registry(rule, p, facts)
<1>1. key \in DOMAIN facts.registry
  <2>1. p \in Tick!Wanted("Registry") /\ "Registry" \in Tick!caps
    BY RuleKinds, KindsNeed DEF Able, Tick!Wanted, Tick!ToSet
  <2>2. key \in Tick!registry_rules
    BY <2>1 DEF Tick!registry_rules
  <2> QED
    BY <2>2 DEF TickInv, FactsTrue, RegistryRead
<1>2. result = IF value.error THEN Tick!error(rule, "read failed")
               ELSE Tick!resolve(rule, value.exists /\ fits)
  BY <1>1 DEF Tick!evaluate_registry
<1>3. /\ Tick!kind_of(rule) = "Registry" /\ Tick!MustBePresent(rule) \in BOOLEAN
      /\ p.match \in {"Exists", "Equals", "Contains"} /\ Tick!IsSeq(p.expected_value)
      /\ \A m \in machines : key \in DOMAIN m.values
  <2>1. Tick!IsRule(rule) /\ p.type = "RegistryRule" /\ Tick!kind_of(rule) = "Registry"
    BY TickShapes, RuleKinds DEF TickInv
  <2>2. \A m \in machines : key \in DOMAIN m.values
    BY <2>1, TickShapes DEF TickInv
  <2> HIDE DEF rule
  <2> QED
    BY <2>1, <2>2, RuleFields, MustBeBoolean
<1> HIDE DEF result, rule, fits
<1>4. CASE value = Tick!Denied /\ Changed
  <2>1. result = Tick!error(rule, "read failed")
    <3>1. Tick!Denied.error
      BY DEF Tick!Denied
    <3> HIDE DEF value
    <3> QED
      BY <1>2, <1>4, <3>1
  <2> QED
    BY <1>4, <2>1, ErrorEarns DEF result, rule
<1>5. ASSUME NEW m \in machines, value = m.values[key]
      PROVE  Earned(rule, result)
  <2>1. value.exists \in BOOLEAN /\ value.error \in BOOLEAN /\ Tick!IsSeq(value.data)
    BY <1>3, <1>5, TickShapes DEF TickInv, Tick!IsMachine
  <2> DEFINE match == \/ p.match = "Exists"
                      \/ p.match = "Equals" /\ value.data = p.expected_value
                      \/ /\ p.match = "Contains"
                         /\ \E i \in 1 .. Len(value.data) + 1, j \in 0 .. Len(value.data) :
                               SubSeq(value.data, i, j) = p.expected_value
             ok == (value.exists /\ match) <=> Tick!MustBePresent(rule)
  <2>2. Tick!Claims(rule, m) = IF value.error THEN {} ELSE {Tick!Status(ok)}
    BY <1>3, <1>5 DEF Tick!Claims, Tick!RegistryClaims
  <2>3. fits \in BOOLEAN /\ fits = match
    <3>1. Tick!contains_text(value.data, p.expected_value)
            = \E i \in 1 .. Len(value.data) + 1, j \in 0 .. Len(value.data) :
                  SubSeq(value.data, i, j) = p.expected_value
      <4>1. Tick!contains_text(value.data, p.expected_value) \in BOOLEAN
        BY DEF Tick!contains_text
      <4> QED
        BY <1>3, <2>1, <4>1, ContainsIsASlice
    <3>2. CASE p.match = "Exists"
      BY <3>2 DEF fits
    <3>3. CASE p.match = "Equals"
      BY <3>3 DEF fits
    <3>4. CASE p.match = "Contains"
      BY <3>1, <3>4 DEF fits
    <3> QED
      BY <1>3, <3>2, <3>3, <3>4
  <2> HIDE DEF match
  <2>4. CASE value.error
    <3>1. result = Tick!error(rule, "read failed") /\ Tick!Claims(rule, m) = {}
      BY <1>2, <2>2, <2>4
    <3> QED
      BY <3>1, ErrorEarns
  <2>5. CASE ~value.error
    <3>1. Tick!Claims(rule, m) = {Tick!Status(ok)} /\ ok \in BOOLEAN
      BY <2>2, <2>5
    <3>2. result = Tick!resolve(rule, value.exists /\ fits)
      BY <1>2, <2>5
    <3>3. result = Tick!Verdict(rule, ok)
      <4>1. result = Tick!Verdict(rule, (value.exists /\ fits) = Tick!MustBePresent(rule))
        BY <2>1, <2>3, <3>2, VerdictIsStatus
      <4>2. ((value.exists /\ fits) = Tick!MustBePresent(rule)) = ok
        BY <1>3, <2>1, <2>3
      <4> QED
        BY <4>1, <4>2
    <3> QED
      BY <3>1, <3>3, ClaimEarns
  <2> QED
    BY <2>1, <2>4, <2>5
<1> QED
  BY <1>1, <1>4, <1>5 DEF TickInv, FactsTrue, RegistryRead, result, rule

(* What is known of the adapters when a rule needs them.                   *)
LEMMA AdaptersKnown ==
    ASSUME TickInv, phase = "dds", NEW r \in DOMAIN rules, Able(rules[r]),
           Tick!kind_of(rules[r]) = "Network"
    PROVE  /\ Tick!IsSeq(facts.adapters)
           /\ \A a \in Tick!ToSet(facts.adapters) : \E m \in machines : a \in Tick!ToSet(m.adapters)
           /\ "Network" \notin unreadable =>
                 /\ \A name : (\A m \in machines : NamedIn(m.adapters, name)) => NamedIn(facts.adapters, name)
                 /\ Tick!Steady => facts.adapters = machine.adapters
<1>1. "Network" \in Tick!caps
  BY KindsNeed DEF Able
<1>2. Rest = <<>> /\ Len(Rest) = 0 /\ Tick!ToSet(Rest) = {}
  BY DEF Rest, Tick!ToSet
<1>3. /\ Tick!IsSeq(facts.adapters)
      /\ \A a \in Tick!ToSet(facts.adapters) : \E m \in machines : a \in Tick!ToSet(m.adapters)
      /\ "Network" \notin unreadable =>
            /\ \A name : (\A m \in machines : NamedIn(m.adapters, name)) => NamedIn(facts.adapters, name)
            /\ Tick!Steady => \A m \in machines : InLine(m)
  BY <1>1, <1>2 DEF TickInv, FactsTrue, AdaptersRead
<1>4. machine \in machines /\ Tick!IsSeq(machine.adapters)
  BY TickShapes DEF TickInv, TickTyped, Tick!IsMachine
<1>5. ASSUME InLine(machine) PROVE facts.adapters = machine.adapters
  <2>1. /\ Len(machine.adapters) = Len(facts.adapters) + 0
        /\ \A i \in 1 .. Len(facts.adapters) : facts.adapters[i] = machine.adapters[i]
    BY <1>2, <1>5 DEF InLine
  <2>2. facts.adapters \in Seq(Tick!ToSet(facts.adapters)) /\ machine.adapters \in Seq(Tick!ToSet(machine.adapters))
    BY <1>3, <1>4 DEF Tick!IsSeq
  <2>3. Len(machine.adapters) = Len(facts.adapters)
    BY <2>1, <2>2
  <2> QED
    BY <2>1, <2>2, <2>3, SeqEqual
<1> QED
  BY <1>3, <1>4, <1>5

(* A verdict of a rule whose fact may be wrong counts for nothing.         *)
LEMMA DoubtEarns ==
    ASSUME NEW rule, NEW ok \in BOOLEAN,
           \/ Tick!kind_of(rule) = "Network" /\ "Network" \in unreadable
           \/ rule.payload.type = "AdapterCountRule" /\ ~Tick!Steady
    PROVE  Earned(rule, Tick!Verdict(rule, ok))
  BY DEF Earned, Tick!Verdict, Tick!Result

LEMMA TickCardinality ==
    ASSUME NEW n \in Nat, NEW S \in SUBSET (1 .. n)
    PROVE  Tick!Cardinality(S) = Cardinality(S) /\ Cardinality(S) \in 0 .. n
<1>1. Tick!Cardinality(S) = Cardinality(S)
  BY DEF Tick!Cardinality, Cardinality
<1>2. IsFiniteSet(1 .. n) /\ Cardinality(1 .. n) = n
  BY FS_Interval
<1>3. Cardinality(S) \in Nat /\ Cardinality(S) <= n
  BY <1>2, FS_Subset, FS_CardinalityType
<1> QED
  BY <1>1, <1>3

LEMMA CountJudged ==
    ASSUME TickInv, phase = "dds", NEW r \in DOMAIN rules, Able(rules[r]),
           rules[r].payload.type = "AdapterCountRule"
    PROVE  Earned(rules[r], Tick!evaluate_adapter_count(rules[r], rules[r].payload, facts))
<1> DEFINE rule == rules[r]
           p == rule.payload
           list == facts.adapters
           up == Tick!Cardinality({a \in DOMAIN list : list[a].link = "Connected"})
           ok == Tick!count_satisfies(up, p.comparison, p.count)
           due == CASE p.comparison = "AtLeast" -> p.count .. Len(list)
                    [] p.comparison = "Exactly" -> {p.count}
                    [] p.comparison = "AtMost"  -> 0 .. p.count
<1>1. Tick!kind_of(rule) = "Network"
  BY RuleKinds
<1>2. /\ Tick!IsSeq(list) /\ machine \in machines
      /\ "Network" \notin unreadable /\ Tick!Steady => list = machine.adapters
  BY <1>1, AdaptersKnown DEF TickInv, TickTyped
<1>3. p.comparison \in {"AtLeast", "Exactly", "AtMost"} /\ p.count \in Int
  <2>1. Tick!IsRule(rule) /\ p.type = "AdapterCountRule"
    BY TickShapes DEF TickInv
  <2> HIDE DEF rule
  <2> QED
    BY <2>1, RuleFields
<1>4. Tick!evaluate_adapter_count(rule, p, facts) = Tick!Verdict(rule, ok)
  BY DEF Tick!evaluate_adapter_count, Tick!is_up
<1>5. list = machine.adapters => Tick!Claims(rule, machine) = {Tick!Status(up \in due)}
  BY <1>1 DEF Tick!Claims, Tick!NetworkClaims
<1>6. up \in 0 .. Len(list) /\ Len(list) \in Nat
  <2>1. Len(list) \in Nat /\ DOMAIN list = 1 .. Len(list)
    BY <1>2, TickSeq
  <2> QED
    BY <2>1, TickCardinality
<1>7. ok = (up \in due) /\ ok \in BOOLEAN
  <2> HIDE DEF up
  <2>1. CASE p.comparison = "AtLeast"
    <3>1. ok = (up >= p.count) /\ due = p.count .. Len(list)
      BY <2>1 DEF Tick!count_satisfies
    <3> HIDE DEF ok, due
    <3> QED
      BY <1>3, <1>6, <3>1
  <2>2. CASE p.comparison = "Exactly"
    <3>1. ok = (up = p.count) /\ due = {p.count}
      BY <2>2 DEF Tick!count_satisfies
    <3> HIDE DEF ok, due
    <3> QED
      BY <1>3, <1>6, <3>1
  <2>3. CASE p.comparison = "AtMost"
    <3>1. ok = (up <= p.count) /\ due = 0 .. p.count
      BY <2>3 DEF Tick!count_satisfies
    <3> HIDE DEF ok, due
    <3> QED
      BY <1>3, <1>6, <3>1
  <2> QED
    BY <1>3, <2>1, <2>2, <2>3
<1> HIDE DEF rule, ok, due, up
<1>9. Earned(rule, Tick!Verdict(rule, ok))
  <2>1. CASE "Network" \notin unreadable /\ Tick!Steady
    <3>1. Tick!Status(ok) \in Tick!Claims(rule, machine)
      BY <1>2, <1>5, <1>7, <2>1
    <3> QED
      BY <1>2, <1>7, <3>1, ClaimEarns
  <2>2. CASE ~("Network" \notin unreadable /\ Tick!Steady)
    <3>1. rule.payload.type = "AdapterCountRule"
      BY DEF rule
    <3> QED
      BY <1>1, <1>7, <2>2, <3>1, DoubtEarns
  <2> QED
    BY <2>1, <2>2
<1> QED
  BY <1>4, <1>9 DEF rule

LEMMA AdapterJudged ==
    ASSUME TickInv, phase = "dds", NEW r \in DOMAIN rules, Able(rules[r]),
           rules[r].payload.type = "AdapterStateRule"
    PROVE  Earned(rules[r], Tick!evaluate_adapter_state(rules[r], rules[r].payload, facts))
<1> DEFINE rule == rules[r]
           p == rule.payload
           name == Tick!tolower(p.adapter_name)
           list == facts.adapters
           I == {i \in 1 .. Len(list) : Tick!tolower(list[i].name) = name}
           there(m) == {x \in Tick!ToSet(m.adapters) : Tick!tolower(x.name) = name}
           first == IF I # {} THEN Tick!Min(I) ELSE 0
           result == Tick!evaluate_adapter_state(rule, p, facts)
           present == Tick!MustBePresent(rule)
<1>1. Tick!kind_of(rule) = "Network" /\ present \in BOOLEAN
  BY RuleKinds, MustBeBoolean
<1>2. /\ Tick!IsSeq(list)
      /\ \A a \in Tick!ToSet(list) : \E m \in machines : a \in Tick!ToSet(m.adapters)
      /\ "Network" \notin unreadable =>
            ((\A m \in machines : NamedIn(m.adapters, name)) => NamedIn(list, name))
  BY <1>1, AdaptersKnown
<1>3. Len(list) \in Nat /\ Tick!ToSet(list) = {list[i] : i \in 1 .. Len(list)}
  BY <1>2, TickSeq
<1>4. result = Tick!resolve(rule, first # 0 /\ list[first].link = p.expected)
  BY DEF Tick!evaluate_adapter_state, Tick!SelectInSeq, Tick!equals_ignore_case
<1>5. (I # {} => first \in I /\ first # 0) /\ (I = {} => first = 0)
  <2>1. I \in SUBSET Nat /\ 0 \notin I
    BY <1>3
  <2> HIDE DEF I
  <2> QED
    BY <2>1, TickMin
<1>6. I # {} => /\ \E m \in machines : list[first] \in there(m)
      /\ Tick!tolower(list[first].name) = name
  <2> SUFFICES ASSUME I # {} PROVE /\ \E m \in machines : list[first] \in there(m)
                                   /\ Tick!tolower(list[first].name) = name
    OBVIOUS
  <2>1. first \in I
    BY <1>5
  <2> HIDE DEF first
  <2>2. list[first] \in Tick!ToSet(list) /\ Tick!tolower(list[first].name) = name
    BY <1>3, <2>1
  <2> QED
    BY <1>2, <2>2
<1>a. I = {} /\ "Network" \notin unreadable => \E m \in machines : there(m) = {}
  <2> SUFFICES ASSUME I = {}, "Network" \notin unreadable PROVE \E m \in machines : there(m) = {}
    OBVIOUS
  <2>1. \A i \in 1 .. Len(list) : Tick!tolower(list[i].name) # name
    OBVIOUS
  <2>2. ~NamedIn(list, name)
    BY <1>3, <2>1 DEF NamedIn
  <2>3. PICK m \in machines : ~NamedIn(m.adapters, name)
    BY <1>2, <2>2
  <2> QED
    BY <2>3 DEF NamedIn
<1>7. \A m \in machines :
         Tick!Claims(rule, m) = IF there(m) = {} THEN {Tick!Status(~present)}
                                ELSE {Tick!Status((a.link = p.expected) <=> present) : a \in there(m)}
  BY <1>1 DEF Tick!Claims, Tick!NetworkClaims, Tick!Named
<1>b. \A yes \in BOOLEAN : Tick!resolve(rule, yes) = Tick!Verdict(rule, yes = present)
  BY VerdictIsStatus
<1> HIDE DEF result, first, rule, I, there, present
<1>8. CASE I = {}
  <2>1. result = Tick!Verdict(rule, ~present)
    <3>1. (first # 0 /\ list[first].link = p.expected) = FALSE
      BY <1>5, <1>8
    <3>2. result = Tick!resolve(rule, FALSE) /\ (FALSE = present) = (~present)
      BY <1>1, <1>4, <3>1
    <3> QED
      BY <1>b, <3>2
  <2>2. CASE "Network" \in unreadable
    BY <1>1, <2>1, <2>2, DoubtEarns DEF result, rule
  <2>3. CASE "Network" \notin unreadable
    <3>1. PICK m \in machines : Tick!Status(~present) \in Tick!Claims(rule, m)
      BY <1>7, <1>8, <1>a, <2>3
    <3> QED
      BY <1>1, <2>1, <3>1, ClaimEarns DEF result, rule
  <2> QED
    BY <2>2, <2>3
<1>9. CASE I # {}
  <2> DEFINE is == list[first].link = p.expected
             ok == is <=> present
  <2>1. result = Tick!Verdict(rule, ok)
    <3>1. (first # 0 /\ list[first].link = p.expected) = is /\ is \in BOOLEAN
      BY <1>5, <1>9
    <3>2. result = Tick!resolve(rule, is) /\ (is = present) = ok
      BY <1>1, <1>4, <3>1
    <3> QED
      BY <1>b, <3>1, <3>2
  <2>2. PICK m \in machines : list[first] \in there(m)
    BY <1>6, <1>9
  <2>3. Tick!Status(ok) \in Tick!Claims(rule, m)
    BY <1>7, <2>2
  <2> QED
    BY <1>1, <2>1, <2>3, ClaimEarns DEF result, rule
<1> QED
  BY <1>8, <1>9

(* What is known of a topic that a rule names.                             *)
LEMMA TopicKnown ==
    ASSUME TickInv, phase = "dds", Tick!dds_topics \subseteq DOMAIN facts.dds,
           NEW r \in DOMAIN rules, Able(rules[r]), Tick!kind_of(rules[r]) = "Dds"
    PROVE  LET found == Tick!find_topic(facts, rules[r].payload)
               key   == Tick!dds_key(rules[r].payload)
           IN /\ found = <<facts.dds[key]>>
              /\ \/ /\ found[1] = Tick!LookFailed /\ "Dds" \in unreadable
                 \/ \E m \in machines :
                       /\ found[1] = m.topics[key]
                       /\ found[1].topic_found \in BOOLEAN /\ found[1].has_sample \in BOOLEAN
                       /\ found[1].error \in BOOLEAN
<1> DEFINE key == Tick!dds_key(rules[r].payload)
<1>1. rules[r].payload \in Tick!Wanted("Dds") /\ "Dds" \in Tick!caps
  BY KindsNeed DEF Able, Tick!Wanted, Tick!ToSet
<1>2. key \in DOMAIN facts.dds
  BY <1>1 DEF Tick!dds_topics
<1>3. Tick!find_topic(facts, rules[r].payload) = <<facts.dds[key]>>
  BY <1>2 DEF Tick!find_topic
<1>4. \/ facts.dds[key] = Tick!LookFailed /\ "Dds" \in unreadable
      \/ \E m \in machines : facts.dds[key] = m.topics[key]
  BY <1>2 DEF TickInv, FactsTrue, TopicsRead
<1>5. \A m \in machines : /\ m.topics[key].topic_found \in BOOLEAN /\ m.topics[key].has_sample \in BOOLEAN
                        /\ m.topics[key].error \in BOOLEAN
  <2>1. \A m \in machines : key \in DOMAIN m.topics /\ Tick!IsMachine(m)
    BY TickShapes DEF TickInv
  <2> QED
    BY <2>1 DEF Tick!IsMachine
<1> QED
  BY <1>3, <1>4, <1>5

LEMMA TopicJudged ==
    ASSUME TickInv, phase = "dds", Tick!dds_topics \subseteq DOMAIN facts.dds,
           NEW r \in DOMAIN rules, Able(rules[r]), rules[r].payload.type = "DdsTopicRule"
    PROVE  Earned(rules[r], Tick!evaluate_dds_topic(rules[r], rules[r].payload, facts))
<1> DEFINE rule == rules[r]
           key == Tick!dds_key(rule.payload)
           shown == facts.dds[key]
           result == Tick!evaluate_dds_topic(rule, rule.payload, facts)
           present == Tick!MustBePresent(rule)
<1>1. Tick!kind_of(rule) = "Dds" /\ present \in BOOLEAN
  BY RuleKinds, MustBeBoolean
<1>2. /\ Tick!find_topic(facts, rule.payload) = <<shown>>
      /\ \/ shown = Tick!LookFailed /\ "Dds" \in unreadable
         \/ \E m \in machines : /\ shown = m.topics[key]
                                /\ shown.topic_found \in BOOLEAN /\ shown.error \in BOOLEAN
  BY <1>1, TopicKnown
<1>3. result = IF shown.error THEN Tick!error(rule, "look failed")
               ELSE Tick!resolve(rule, shown.topic_found)
  BY <1>2 DEF Tick!evaluate_dds_topic, Tick!NoLook, Tick!LookError
<1> HIDE DEF result, shown
<1>4. CASE shown = Tick!LookFailed /\ "Dds" \in unreadable
  <2>1. shown.error
    BY <1>4 DEF Tick!LookFailed
  <2> QED
    BY <1>1, <1>3, <1>4, <2>1, ErrorEarns DEF result
<1>5. ASSUME NEW m \in machines, shown = m.topics[key],
             shown.topic_found \in BOOLEAN, shown.error \in BOOLEAN
      PROVE  Earned(rule, result)
  <2> DEFINE ok == shown.topic_found <=> present
  <2>1. Tick!Claims(rule, m) = IF shown.error THEN {} ELSE {Tick!Status(ok)}
    BY <1>1, <1>5 DEF Tick!Claims, Tick!DdsClaims
  <2>2. CASE shown.error
    BY <1>3, <2>1, <2>2, ErrorEarns
  <2>3. CASE ~shown.error
    <3>1. result = Tick!Verdict(rule, ok)
      <4>1. result = Tick!resolve(rule, shown.topic_found) /\ (shown.topic_found = present) = ok
        BY <1>1, <1>3, <1>5, <2>3
      <4> QED
        BY <1>5, <4>1, VerdictIsStatus
    <3>2. Tick!Status(ok) \in Tick!Claims(rule, m)
      BY <2>1, <2>3
    <3> QED
      BY <3>1, <3>2, ClaimEarns
  <2> QED
    BY <1>5, <2>2, <2>3
<1> QED
  BY <1>2, <1>4, <1>5 DEF result

(* The one answer of a value is yes.                                       *)
Matched(value, p) == Tick!matches(value, p) = {TRUE}

LEMMA MatchesAgree ==
    ASSUME NEW value, NEW p, p.match \in {"Equals", "Contains", "AtLeast", "AtMost"}
    PROVE  /\ Tick!matches(value, p) = {} <=> ~Tick!Answers(value, p)
           /\ Matched(value, p) <=> Tick!Agrees(value, p)
<1> DEFINE expected == Tick!stod(p.expected_value)
           number == value.kind = "number"
           words == Tick!readable(value)
           has == Tick!contains_text(words, p.expected_value)
<1>1. expected # <<>> => expected = <<expected[1]>>
  BY DEF Tick!stod
<1>2. has \in BOOLEAN
  BY DEF Tick!contains_text
<1> HIDE DEF expected, words, has
<1>3. CASE p.match = "AtLeast"
  <2>1. Tick!matches(value, p) = IF ~number \/ expected = <<>> THEN {} ELSE {value.value >= expected[1]}
    BY <1>3 DEF Tick!matches, expected
  <2>2. /\ Tick!Answers(value, p) <=> number /\ expected # <<>>
        /\ Tick!Agrees(value, p) <=> number /\ expected # <<>> /\ expected[1] <= value.value
    BY <1>3 DEF Tick!Answers, Tick!Agrees, expected
  <2> QED
    BY <2>1, <2>2 DEF Matched
<1>4. CASE p.match = "AtMost"
  <2>1. Tick!matches(value, p) = IF ~number \/ expected = <<>> THEN {} ELSE {value.value <= expected[1]}
    BY <1>4 DEF Tick!matches, expected
  <2>2. /\ Tick!Answers(value, p) <=> number /\ expected # <<>>
        /\ Tick!Agrees(value, p) <=> number /\ expected # <<>> /\ value.value <= expected[1]
    BY <1>4 DEF Tick!Answers, Tick!Agrees, expected
  <2> QED
    BY <2>1, <2>2 DEF Matched
<1>5. CASE p.match = "Equals" /\ number
  <2>1. Tick!matches(value, p) = IF expected = <<>> THEN {} ELSE {value.value = expected[1]}
    BY <1>5 DEF Tick!matches, expected
  <2>2. /\ Tick!Answers(value, p) <=> expected # <<>>
        /\ Tick!Agrees(value, p) <=> expected # <<>> /\ <<value.value>> = expected
    BY <1>5 DEF Tick!Answers, Tick!Agrees, expected
  <2>3. expected # <<>> => (<<value.value>> = expected <=> value.value = expected[1])
    BY <1>1
  <2> QED
    BY <2>1, <2>2, <2>3 DEF Matched
<1>6. CASE p.match = "Equals" /\ ~number
  <2>1. Tick!matches(value, p) = {words = p.expected_value}
    BY <1>6 DEF Tick!matches, words
  <2>2. Tick!Answers(value, p) /\ (Tick!Agrees(value, p) <=> words = p.expected_value)
    BY <1>6 DEF Tick!Answers, Tick!Agrees, words
  <2> QED
    BY <2>1, <2>2 DEF Matched
<1>7. CASE p.match = "Contains"
  <2>1. Tick!matches(value, p) = {has}
    BY <1>7 DEF Tick!matches, words, has
  <2>2. Tick!Answers(value, p) /\ (Tick!Agrees(value, p) <=> has)
    BY <1>7 DEF Tick!Answers, Tick!Agrees, words, has
  <2> QED
    BY <1>2, <2>1, <2>2 DEF Matched
<1> QED
  BY <1>3, <1>4, <1>5, <1>6, <1>7

(* The answer for the values of a path.                                    *)
CanMatch(p) == p.match \in {"Equals", "Contains", "AtLeast", "AtMost"}

LEMMA AnyJudged ==
    ASSUME NEW rule, NEW p, CanMatch(p), NEW values
    PROVE  Tick!any_matches(rule, values, p) =
               IF \E v \in Tick!ToSet(values) : Tick!Agrees(v, p) THEN Tick!Verdict(rule, TRUE)
               ELSE IF Tick!ToSet(values) = {} \/ \E v \in Tick!ToSet(values) : Tick!Answers(v, p)
               THEN Tick!Verdict(rule, FALSE)
               ELSE Tick!error(rule, "not comparable")
<1> DEFINE all == Tick!ToSet(values)
           answers == [v \in DOMAIN values |-> Tick!matches(values[v], p)]
           range == Tick!Range(answers)
<1>1. Tick!any_matches(rule, values, p) = IF range = {{}} THEN Tick!error(rule, "not comparable")
                                          ELSE Tick!Verdict(rule, {TRUE} \in range)
  BY DEF Tick!any_matches
<1>2. range = {Tick!matches(v, p) : v \in all}
  BY DEF Tick!Range, Tick!ToSet
<1> HIDE DEF range, all
<1>3. \A v : /\ Tick!matches(v, p) = {} <=> ~Tick!Answers(v, p)
             /\ Matched(v, p) <=> Tick!Agrees(v, p)
  <2> TAKE v
  <2> QED
    BY MatchesAgree DEF CanMatch
<1>4. {TRUE} \in range <=> \E v \in all : Tick!Agrees(v, p)
  BY <1>2, <1>3 DEF Matched
<1>5. range = {{}} <=> all # {} /\ \A v \in all : ~Tick!Answers(v, p)
  BY <1>2, <1>3
<1>6. \A v : Tick!Agrees(v, p) => Tick!Answers(v, p)
  BY DEF Tick!Agrees
<1>10. ({TRUE} \in range) \in BOOLEAN
  OBVIOUS
<1>7. CASE \E v \in all : Tick!Agrees(v, p)
  BY <1>1, <1>4, <1>5, <1>6, <1>7, <1>10 DEF all
<1>8. CASE ~(\E v \in all : Tick!Agrees(v, p)) /\ (all = {} \/ \E v \in all : Tick!Answers(v, p))
  BY <1>1, <1>4, <1>5, <1>8, <1>10 DEF all
<1>9. CASE all # {} /\ \A v \in all : ~Tick!Answers(v, p)
  BY <1>1, <1>5, <1>6, <1>9 DEF all
<1> QED
  BY <1>7, <1>8, <1>9

LEMMA ValueJudged ==
    ASSUME TickInv, phase = "dds", Tick!dds_topics \subseteq DOMAIN facts.dds,
           NEW r \in DOMAIN rules, Able(rules[r]), rules[r].payload.type = "DdsValueRule"
    PROVE  Earned(rules[r], Tick!evaluate_dds_value(rules[r], rules[r].payload, facts))
<1> DEFINE rule == rules[r]
           p == rule.payload
           key == Tick!dds_key(p)
           shown == facts.dds[key]
           found == Tick!resolve_all(shown.json, p.path)
           failed == Tick!Failed(found)
           values == Tick!ToSet(found.values)
           answer == Tick!any_matches(rule, found.values, p)
           result == Tick!evaluate_dds_value(rule, p, facts)
<1>1. Tick!kind_of(rule) = "Dds" /\ CanMatch(p)
  <2>1. Tick!IsRule(rule) /\ p.type = "DdsValueRule"
    BY TickShapes DEF TickInv
  <2> HIDE DEF rule
  <2> QED
    BY <2>1, RuleFields, RuleKinds DEF CanMatch
<1>2. /\ Tick!find_topic(facts, p) = <<shown>>
      /\ \/ shown = Tick!LookFailed /\ "Dds" \in unreadable
         \/ \E m \in machines :
               /\ shown = m.topics[key] /\ shown.topic_found \in BOOLEAN
               /\ shown.has_sample \in BOOLEAN /\ shown.error \in BOOLEAN
  BY <1>1, TopicKnown
<1>3. result = IF shown.error THEN Tick!error(rule, "look failed")
               ELSE IF ~shown.topic_found THEN Tick!Verdict(rule, FALSE)
               ELSE IF ~shown.has_sample THEN Tick!error(rule, "no sample yet")
               ELSE IF failed THEN Tick!error(rule, "not resolved")
               ELSE answer
  <2>1. <<shown>>[1] = shown /\ <<shown>> # <<>>
    OBVIOUS
  <2> HIDE DEF shown
  <2> QED
    BY <1>2, <2>1 DEF Tick!evaluate_dds_value, Tick!NoLook, Tick!LookError
<1>4. answer = IF \E v \in values : Tick!Agrees(v, p) THEN Tick!Verdict(rule, TRUE)
               ELSE IF values = {} \/ \E v \in values : Tick!Answers(v, p)
               THEN Tick!Verdict(rule, FALSE)
               ELSE Tick!error(rule, "not comparable")
  <2> HIDE DEF rule, p, found
  <2> QED
    BY <1>1, AnyJudged
<1> HIDE DEF result, answer
<1>5. CASE shown = Tick!LookFailed /\ "Dds" \in unreadable
  <2>1. shown.error
    BY <1>5 DEF Tick!LookFailed
  <2> QED
    BY <1>1, <1>3, <1>5, <2>1, ErrorEarns DEF result
<1>6. ASSUME NEW m \in machines, shown = m.topics[key], shown.topic_found \in BOOLEAN,
             shown.has_sample \in BOOLEAN, shown.error \in BOOLEAN
      PROVE  Earned(rule, result)
  <2>1. Tick!Claims(rule, m)
          = IF shown.error THEN {}
            ELSE IF ~shown.topic_found THEN {"Fail"}
            ELSE IF ~shown.has_sample \/ failed THEN {}
            ELSE IF \E v \in values : Tick!Agrees(v, p) THEN {"Pass"}
            ELSE IF values = {} \/ \E v \in values : Tick!Answers(v, p) THEN {"Fail"} ELSE {}
    BY <1>1, <1>6 DEF Tick!Claims, Tick!DdsClaims
  <2> HIDE DEF shown, failed, values, rule, p
  <2>2. Tick!Status(TRUE) = "Pass" /\ Tick!Status(FALSE) = "Fail"
    BY DEF Tick!Status
  <2>3. \A why : why # "not probed" /\ Tick!Claims(rule, m) = {} => Earned(rule, Tick!error(rule, why))
    BY ErrorEarns
  <2>4. \A ok \in BOOLEAN : Tick!Status(ok) \in Tick!Claims(rule, m) => Earned(rule, Tick!Verdict(rule, ok))
    BY ClaimEarns
  <2>5. CASE shown.error
    BY <1>3, <2>1, <2>3, <2>5
  <2>6. CASE ~shown.error /\ ~shown.topic_found
    BY <1>3, <2>1, <2>2, <2>4, <2>6
  <2>7. CASE ~shown.error /\ shown.topic_found /\ (~shown.has_sample \/ failed)
    BY <1>3, <2>1, <2>3, <2>7
  <2>8. CASE ~shown.error /\ shown.topic_found /\ shown.has_sample /\ ~failed
    <3>1. result = answer
      BY <1>3, <2>8
    <3>2. CASE \E v \in values : Tick!Agrees(v, p)
      BY <1>4, <2>1, <2>2, <2>4, <2>8, <3>1, <3>2
    <3>3. CASE ~(\E v \in values : Tick!Agrees(v, p)) /\ (values = {} \/ \E v \in values : Tick!Answers(v, p))
      BY <1>4, <2>1, <2>2, <2>4, <2>8, <3>1, <3>3
    <3>4. CASE ~(\E v \in values : Tick!Agrees(v, p)) /\ ~(values = {} \/ \E v \in values : Tick!Answers(v, p))
      BY <1>4, <2>1, <2>3, <2>8, <3>1, <3>4
    <3> QED
      BY <3>2, <3>3, <3>4
  <2> QED
    BY <1>6, <2>5, <2>6, <2>7, <2>8
<1> QED
  BY <1>2, <1>5, <1>6 DEF result

(* The judge of any rule that the client can check.                        *)
LEMMA PayloadJudged ==
    ASSUME TickInv, phase = "dds", Tick!dds_topics \subseteq DOMAIN facts.dds,
           NEW r \in DOMAIN rules, Able(rules[r])
    PROVE  /\ Earned(rules[r], Tick!evaluate_payload(rules[r], facts))
           /\ Tick!evaluate_payload(rules[r], facts).rule_id = rules[r].id
<1> DEFINE rule == rules[r]
           p == rule.payload
           result == Tick!evaluate_payload(rule, facts)
<1>1. p.type \in {"ProcessRule", "ServiceRule", "RegistryRule", "AdapterCountRule",
                  "AdapterStateRule", "DdsTopicRule", "DdsValueRule"}
  BY TickShapes DEF TickInv, Tick!IsRule
<1>2. \A why, ok : /\ Tick!error(rule, why).rule_id = rule.id
                   /\ Tick!Verdict(rule, ok).rule_id = rule.id
                   /\ Tick!resolve(rule, ok).rule_id = rule.id
  BY DEF Tick!error, Tick!Verdict, Tick!resolve, Tick!Result
<1>3. CASE p.type = "ProcessRule"
  <2>1. result = Tick!evaluate_process(rule, p, facts)
    BY <1>3 DEF Tick!evaluate_payload
  <2>2. Tick!evaluate_process(rule, p, facts).rule_id = rule.id
    BY <1>2 DEF Tick!evaluate_process
  <2> QED
    BY <1>3, <2>1, <2>2, ProcessJudged
<1>4. CASE p.type = "ServiceRule"
  <2>1. result = Tick!evaluate_service(rule, p, facts)
    BY <1>4 DEF Tick!evaluate_payload
  <2>2. Tick!evaluate_service(rule, p, facts).rule_id = rule.id
    BY <1>2 DEF Tick!evaluate_service
  <2> QED
    BY <1>4, <2>1, <2>2, ServiceJudged
<1>5. CASE p.type = "RegistryRule"
  <2>1. result = Tick!evaluate_registry(rule, p, facts)
    BY <1>5 DEF Tick!evaluate_payload
  <2>2. Tick!evaluate_registry(rule, p, facts).rule_id = rule.id
    BY <1>2 DEF Tick!evaluate_registry
  <2> QED
    BY <1>5, <2>1, <2>2, RegistryJudged
<1>6. CASE p.type = "AdapterCountRule"
  <2>1. result = Tick!evaluate_adapter_count(rule, p, facts)
    BY <1>6 DEF Tick!evaluate_payload
  <2>2. Tick!evaluate_adapter_count(rule, p, facts).rule_id = rule.id
    BY <1>2 DEF Tick!evaluate_adapter_count
  <2> QED
    BY <1>6, <2>1, <2>2, CountJudged
<1>7. CASE p.type = "AdapterStateRule"
  <2>1. result = Tick!evaluate_adapter_state(rule, p, facts)
    BY <1>7 DEF Tick!evaluate_payload
  <2>2. Tick!evaluate_adapter_state(rule, p, facts).rule_id = rule.id
    BY <1>2 DEF Tick!evaluate_adapter_state
  <2> QED
    BY <1>7, <2>1, <2>2, AdapterJudged
<1>8. CASE p.type = "DdsTopicRule"
  <2>1. result = Tick!evaluate_dds_topic(rule, p, facts)
    BY <1>8 DEF Tick!evaluate_payload
  <2>2. Tick!evaluate_dds_topic(rule, p, facts).rule_id = rule.id
    BY <1>2 DEF Tick!evaluate_dds_topic, Tick!LookError
  <2> QED
    BY <1>8, <2>1, <2>2, TopicJudged
<1>9. CASE p.type = "DdsValueRule"
  <2>1. result = Tick!evaluate_dds_value(rule, p, facts)
    BY <1>9 DEF Tick!evaluate_payload
  <2>2. Tick!evaluate_dds_value(rule, p, facts).rule_id = rule.id
    BY <1>2 DEF Tick!evaluate_dds_value, Tick!LookError, Tick!any_matches
  <2> QED
    BY <1>9, <2>1, <2>2, ValueJudged
<1> QED
  BY <1>1, <1>3, <1>4, <1>5, <1>6, <1>7, <1>8, <1>9

(* The report, from the facts.                                             *)
LEMMA TickEvaluate == ASSUME TickInv, Tick!evaluate_compliance PROVE TickInv'
<1>1. /\ phase = "dds" /\ Tick!dds_topics \subseteq DOMAIN facts.dds /\ phase' = "done"
      /\ report' = Tick!evaluate(rules, facts, Tick!caps)
      /\ UNCHANGED <<host, machine, rules, probes, snapshot, sized, facts, machines, unreadable>>
  BY DEF Tick!evaluate_compliance
<1>2. TickTyped' /\ sized' = <<>>
  BY <1>1 DEF TickInv, TickTyped, FactsTrue, RegistryRead
<1>3. DOMAIN rules = 1 .. Len(rules) /\ Len(rules) \in Nat
  BY TickShapes, TickSeq DEF TickInv
<1>4. /\ Tick!IsSeq(report') /\ Len(report') = Len(rules)
      /\ \A r \in DOMAIN rules :
            report'[r] = IF Able(rules[r]) THEN Tick!evaluate_payload(rules[r], facts)
                         ELSE Tick!Result(rules[r], "NotApplicable")
  <2> DEFINE of(r) == IF Able(rules[r]) THEN Tick!evaluate_payload(rules[r], facts)
                      ELSE Tick!Result(rules[r], "NotApplicable")
  <2>1. report' = [r \in 1 .. Len(rules) |-> of(r)]
    BY <1>1, <1>3 DEF Tick!evaluate, Able
  <2> HIDE DEF of
  <2>2. report' \in Seq({of(r) : r \in 1 .. Len(rules)}) /\ Len(report') = Len(rules)
    BY <1>3, <2>1
  <2>3. Tick!IsSeq(report')
    BY <2>2, TickIsSeq
  <2> QED
    BY <1>3, <2>1, <2>2, <2>3 DEF of
<1>5. Able(rules[1])' = Able(rules[1]) /\ \A rule : Able(rule)' = Able(rule)
  BY <1>1 DEF Able, Tick!caps, Tick!intersect
<1>6. \A rule, result : Earned(rule, result)' = Earned(rule, result)
  BY <1>1 DEF Earned, Changed, Tick!Steady
<1>7. ASSUME NEW r \in DOMAIN rules
      PROVE  /\ report'[r].rule_id = rules[r].id
             /\ IF Able(rules[r]) THEN Earned(rules[r], report'[r])
                ELSE report'[r].status = "NotApplicable"
  <2>1. CASE Able(rules[r])
    BY <1>1, <1>4, <2>1, PayloadJudged
  <2>2. CASE ~Able(rules[r])
    <3>1. report'[r] = Tick!Result(rules[r], "NotApplicable")
      BY <1>4, <2>2
    <3>2. \A rule : /\ Tick!Result(rule, "NotApplicable").rule_id = rule.id
                    /\ Tick!Result(rule, "NotApplicable").status = "NotApplicable"
      BY DEF Tick!Result
    <3> QED
      BY <2>2, <3>1, <3>2
  <2> QED
    BY <2>1, <2>2
<1>8. ReportTrue'
  BY <1>1, <1>4, <1>5, <1>6, <1>7 DEF ReportTrue, Tick!IsSeq, Tick!ToSet
<1> QED
  BY <1>1, <1>2, <1>8 DEF TickInv

LEMMA TickRests == ASSUME TickInv, UNCHANGED tick PROVE TickInv'
<1>1. UNCHANGED <<host, machine, rules, probes, phase, waiting, snapshot, sized, facts, report, machines,
                  unreadable>>
  BY DEF tick
<1>2. Frame
  BY <1>1 DEF Frame
<1>3. /\ Changed' = Changed /\ \A rule : Able(rule)' = Able(rule)
      /\ \A rule, result : Earned(rule, result)' = Earned(rule, result)
      /\ \A list, n : ReadUpTo(list, n)' = ReadUpTo(list, n)
  BY <1>1, <1>2, TickFrame DEF Changed, Able, Earned, ReadUpTo, Tick!Steady
<1>4. TickTyped' /\ ReportTrue'
  BY <1>1, <1>3 DEF TickInv, TickTyped, ReportTrue
<1>5. FactsTrue => FactsTrue'
  <2>1. AdaptersRead => AdaptersRead'
    <3>1. Rest' = Rest
      BY <1>1 DEF Rest
    <3> QED
      BY <1>1, <1>2, <3>1, AdaptersKept
  <2> QED
    BY <1>1, <1>2, <1>3, <2>1, TickFrame
       DEF FactsTrue, ServicesRead, ProcessesRead, RegistryRead, TopicsRead
<1> QED
  BY <1>1, <1>4, <1>5 DEF TickInv

LEMMA TickStep == ASSUME TickInv, [Next]_vars PROVE TickInv'
<1>1. CASE Tick!Next
  BY <1>1, TickChange, TickCollect, TickAdapter, TickAdapters, TickSnapshot, TickVersion, TickServices, TickRegistry, TickLook,
     TickEvaluate DEF Tick!Next
<1>2. CASE UNCHANGED tick
  BY <1>2, TickRests
<1> QED
  BY <1>1, <1>2, TickMoves

LEMMA TickInvariant == Spec => []TickInv
  BY TickInit, TickStep, PTL DEF Spec

(* A report counts each of its results once.                               *)
LEMMA SummaryCounts ==
    ASSUME TickInv, report # <<>>
    PROVE  LET sum == Tick!summarise(report)
           IN Tick!checked(sum) + sum.not_applicable = Len(report)
<1> DEFINE n == Len(report)
           of(status) == {r \in 1 .. n : report[r].status = status}
           pass == of("Pass")
           fail == of("Fail")
           error == of("Error")
           other == of("NotApplicable")
<1>1. n \in Nat /\ DOMAIN report = 1 .. n /\ n = Len(rules) /\ DOMAIN rules = 1 .. n
  BY TickShapes, TickSeq DEF TickInv, ReportTrue
<1>2. \A r \in 1 .. n : report[r].status \in {"Pass", "Fail", "Error", "NotApplicable"}
  BY <1>1 DEF TickInv, ReportTrue, Earned
<1>3. IsFiniteSet(1 .. n) /\ Cardinality(1 .. n) = n
  <2>1. \A k \in Nat : IsFiniteSet(1 .. k) /\ Cardinality(1 .. k) = k
    BY FS_Interval
  <2> QED
    BY <1>1, <2>1
<1>4. /\ IsFiniteSet(pass) /\ IsFiniteSet(fail) /\ IsFiniteSet(error) /\ IsFiniteSet(other)
      /\ IsFiniteSet(pass \cup fail) /\ IsFiniteSet(pass \cup fail \cup error)
  BY <1>3, FS_Subset
<1>5. 1 .. n = (pass \cup fail \cup error) \cup other
  BY <1>2
<1>6. pass \cap fail = {} /\ (pass \cup fail) \cap error = {} /\ (pass \cup fail \cup error) \cap other = {}
  OBVIOUS
<1> HIDE DEF pass, fail, error, other, n
<1>7. /\ Cardinality(pass) \in Nat /\ Cardinality(fail) \in Nat /\ Cardinality(error) \in Nat
      /\ Cardinality(other) \in Nat
  BY <1>4, FS_CardinalityType
<1>8. /\ Cardinality(pass \cup fail) = Cardinality(pass) + Cardinality(fail)
      /\ Cardinality(pass \cup fail \cup error) = Cardinality(pass \cup fail) + Cardinality(error)
      /\ Cardinality((pass \cup fail \cup error) \cup other) = Cardinality(pass \cup fail \cup error) + Cardinality(other)
  <2>1. ASSUME NEW S, NEW T, IsFiniteSet(S), IsFiniteSet(T), S \cap T = {}
        PROVE  Cardinality(S \cup T) = Cardinality(S) + Cardinality(T)
    <3>1. Cardinality(S) \in Nat /\ Cardinality(T) \in Nat /\ Cardinality(S \cap T) = 0
      BY <2>1, FS_CardinalityType, FS_EmptySet
    <3> QED
      BY <2>1, <3>1, FS_Union
  <2>2. Cardinality(pass \cup fail) = Cardinality(pass) + Cardinality(fail)
    BY <1>4, <1>6, <2>1
  <2>3. Cardinality(pass \cup fail \cup error) = Cardinality(pass \cup fail) + Cardinality(error)
    BY <1>4, <1>6, <2>1
  <2>4. Cardinality((pass \cup fail \cup error) \cup other) = Cardinality(pass \cup fail \cup error) + Cardinality(other)
    BY <1>4, <1>6, <2>1
  <2> QED
    BY <2>2, <2>3, <2>4
<1>9. Cardinality(pass) + Cardinality(fail) + Cardinality(error) + Cardinality(other) = n
  BY <1>3, <1>5, <1>7, <1>8
<1>10. /\ Tick!summarise(report).passed = Cardinality(pass)
       /\ Tick!summarise(report).failing = Cardinality(fail)
       /\ Tick!summarise(report).errors = Cardinality(error)
       /\ Tick!summarise(report).not_applicable = Cardinality(other)
  BY <1>1 DEF Tick!summarise, Tick!count_by_status, Tick!Cardinality, Cardinality, n, pass, fail, error, other
<1> QED
  BY <1>7, <1>9, <1>10 DEF Tick!checked, n

(* A machine that changed was in two states at least.                      *)
LEMMA ChangedIsMore ==
    ASSUME TickInv, Changed
    PROVE  Tick!Cardinality(machines) > 1
<1>1. PICK m, n \in machines : m # n
  BY DEF Changed
<1>2. IsFiniteSet(machines) /\ {m, n} \subseteq machines
  BY <1>1 DEF TickInv, TickTyped
<1>3. Cardinality({m}) = 1 /\ IsFiniteSet({m})
  BY FS_Singleton
<1>4. Cardinality({m} \cup {n}) = 2 /\ {m} \cup {n} \subseteq machines
  BY <1>1, <1>3, FS_AddElement
<1>5. Cardinality(machines) \in Nat /\ Cardinality({m} \cup {n}) <= Cardinality(machines)
  BY <1>2, <1>4, FS_Subset, FS_CardinalityType
<1>6. Tick!Cardinality(machines) = Cardinality(machines)
  BY DEF Tick!Cardinality, Cardinality
<1> QED
  BY <1>4, <1>5, <1>6

(* From the invariant to the property.                                     *)
LEMMA TickIsTyped == ASSUME TickInv PROVE Tick!TypeOK
<1>1. /\ host \in Hosts /\ machine \in Possible[host] /\ rules \in RuleSets[host] /\ probes \in Supplied
      /\ phase \in {"adapters", "processes", "versions", "services", "registry", "dds", "done"}
  BY DEF TickInv, TickTyped
<1>2. report # <<>> => [r \in DOMAIN report |-> report[r].rule_id] = [r \in DOMAIN rules |-> rules[r].id]
  <2> SUFFICES ASSUME report # <<>>
               PROVE  [r \in DOMAIN report |-> report[r].rule_id] = [r \in DOMAIN rules |-> rules[r].id]
    OBVIOUS
  <2>1. DOMAIN report = DOMAIN rules
    BY TickShapes, TickSeq DEF TickInv, ReportTrue
  <2>2. \A r \in DOMAIN rules : report[r].rule_id = rules[r].id
    BY DEF TickInv, ReportTrue
  <2> QED
    BY <2>1, <2>2
<1> QED
  BY <1>1, <1>2, SummaryCounts DEF Tick!TypeOK

LEMMA TickIsTrue ==
    ASSUME TickInv
    PROVE  Tick!ResultsAreTrue /\ Tick!ErrorsAreEarned /\ Tick!OnlyWhatItCanCheck
<1>1. ASSUME NEW r \in DOMAIN report
      PROVE  /\ r \in DOMAIN rules
             /\ IF Able(rules[r]) THEN Earned(rules[r], report[r])
                ELSE report[r].status = "NotApplicable"
  <2>1. CASE report = <<>>
    BY <2>1
  <2>2. CASE report # <<>>
    <3>1. DOMAIN report = DOMAIN rules
      BY <2>2, TickShapes, TickSeq DEF TickInv, ReportTrue
    <3> QED
      BY <2>2, <3>1 DEF TickInv, ReportTrue
  <2> QED
    BY <2>1, <2>2
<1>2. Tick!ResultsAreTrue
  <2> SUFFICES ASSUME NEW r \in DOMAIN report, report[r].status \in {"Pass", "Fail"}
               PROVE  \/ \E m \in machines : report[r].status \in Tick!Claims(rules[r], m)
                      \/ Tick!kind_of(rules[r]) \in {"Process", "Network"} \cap unreadable
                      \/ rules[r].payload.type = "AdapterCountRule" /\ ~Tick!Steady
    BY DEF Tick!ResultsAreTrue, Tick!Judged
  <2>1. Earned(rules[r], report[r])
    BY <1>1
  <2> QED
    BY <2>1 DEF Earned
<1>3. Tick!ErrorsAreEarned
  <2> SUFFICES ASSUME NEW r \in DOMAIN report, report[r].status = "Error"
               PROVE  /\ report[r].why # "not probed"
                      /\ \/ Tick!kind_of(rules[r]) \in unreadable
                         \/ Tick!Cardinality(machines) > 1
                         \/ \E m \in machines : Tick!Claims(rules[r], m) = {}
                         \/ \E m \in machines : \E p \in Tick!ToSet(m.processes) :
                               report[r].why = "version unreadable" /\ p.version = <<>>
    BY DEF Tick!ErrorsAreEarned
  <2>1. Earned(rules[r], report[r])
    BY <1>1
  <2> QED
    BY <2>1, ChangedIsMore DEF Earned
<1>4. Tick!OnlyWhatItCanCheck
  <2> SUFFICES ASSUME NEW r \in DOMAIN report
               PROVE  report[r].status # "NotApplicable" <=>
                         Tick!required_capability(Tick!kind_of(rules[r])) \in Declared \cap probes
    BY DEF Tick!OnlyWhatItCanCheck
  <2>1. r \in DOMAIN rules /\ (report[r].status # "NotApplicable" <=> Able(rules[r]))
    BY <1>1 DEF Earned
  <2>2. Tick!required_capability(Tick!kind_of(rules[r])) \notin {"Scripts", "Elevated"}
    <3>1. Tick!IsRule(rules[r])
      BY <1>1, TickShapes DEF TickInv
    <3>2. Tick!kind_of(rules[r]) \in {"Process", "Service", "Registry", "Network", "Dds"}
      BY <3>1, RuleKinds DEF Tick!IsRule
    <3> QED
      BY <3>2, KindsNeed
  <2>3. Tick!caps = Declared \cap (probes \cup {"Scripts", "Elevated"})
    BY DEF Tick!caps, Tick!intersect
  <2> DEFINE need == Tick!required_capability(Tick!kind_of(rules[r]))
  <2>4. Able(rules[r]) <=> need \in Tick!caps
    BY DEF Able
  <2> HIDE DEF need
  <2>5. need \in Tick!caps <=> need \in Declared \cap probes
    BY <2>2, <2>3 DEF need
  <2> QED
    BY <2>1, <2>4, <2>5 DEF need
<1> QED
  BY <1>2, <1>3, <1>4

(* Of a tick of any host and any rules, in whatever order the machine      *)
(* changes between two reads and whatever cannot be read: a Pass or a Fail *)
(* was true of the machine at one moment of the evaluation, but for one    *)
(* that processes or adapters which could not be read give, and for a      *)
(* number of adapters that changed while they were counted; an Error has a *)
(* cause; the report has one result for each rule and counts each once,    *)
(* and a rule that the client has no probe for does not apply (collect,    *)
(* evaluate, summarise).                                                   *)
THEOREM VerdictsAreEarned == Spec => []VerdictsAreTrue
<1>1. TickInv => VerdictsAreTrue
  BY TickIsTyped, TickIsTrue DEF VerdictsAreTrue
<1> QED
  BY <1>1, TickInvariant, PTL

-----------------------------------------------------------------------------
(* Codec.  What a reader makes of the bytes of a message: of all of them,  *)
(* of less, and of others.                                                 *)

(* A set of numbers with 0 and the successor of each has them all. *)
LEMMA Induction ==
    ASSUME NEW T, 0 \in T, \A n \in Nat : n \in T => n + 1 \in T
    PROVE  \A n \in Nat : n \in T
<1>. DEFINE U == Nat \ T
<1>. SUFFICES ASSUME U # {} PROVE FALSE
  OBVIOUS
<1>1. PICK m \in U : \A k \in U : ~(k < m)
  <2>. DEFINE R == OpToRel(<, Nat)
  <2>1. IsWellFoundedOn(R, Nat)
    BY NatLessThanWellFounded
  <2>2. PICK m \in U : \A k \in U : ~(<<k, m>> \in R)
    <3>. HIDE DEF R, U
    <3>1. U \subseteq Nat
      BY DEF U
    <3>. QED  BY <2>1, <3>1, WFMin
  <2>. QED  BY <2>2 DEF OpToRel
<1>2. m # 0 /\ m \in Nat /\ m - 1 \in Nat
  BY <1>1
<1>3. m - 1 \in T
  BY <1>1, <1>2
<1>. QED  BY <1>1, <1>2, <1>3

(* What holds before a walk of N steps and is kept by each holds at every step of it. *)
LEMMA WalkInduction ==
    ASSUME NEW N \in Nat, NEW T, 0 \in T, \A n \in 1 .. N : n - 1 \in T => n \in T
    PROVE  \A n \in 0 .. N : n \in T
<1>. DEFINE U == {n \in Nat : n <= N => n \in T}
<1>1. 0 \in U /\ \A n \in Nat : n \in U => n + 1 \in U
  <2>1. ASSUME NEW n \in Nat, n \in U PROVE n + 1 \in U
    <3>. SUFFICES ASSUME n + 1 <= N PROVE n + 1 \in T
      OBVIOUS
    <3>1. n \in T /\ n + 1 \in 1 .. N /\ (n + 1) - 1 = n
      BY <2>1
    <3>. QED  BY <3>1
  <2>. QED  BY <2>1
<1>. HIDE DEF U
<1>2. \A n \in Nat : n \in U
  BY <1>1, Induction
<1>. QED  BY <1>2 DEF U

Walked(f, first, N, G) == f[0] = first /\ \A n \in 1 .. N : f[n] = G[<<f[n - 1], n>>]

(* A walk of N steps that keeps an account in A has an account of each step. *)
LEMMA WalkExists ==
    ASSUME NEW D, NEW first \in D, NEW N \in Nat, NEW G \in [D \X (1 .. N) -> D]
    PROVE  \E f \in [0 .. N -> D] : Walked(f, first, N, G)
<1>. DEFINE T == {m \in Nat : m <= N => \E f \in [0 .. m -> D] : Walked(f, first, m, G)}
<1>1. 0 \in T
  <2>. DEFINE f == [n \in 0 .. 0 |-> first]
  <2>1. f \in [0 .. 0 -> D] /\ Walked(f, first, 0, G)
    BY DEF Walked
  <2>. QED  BY <2>1
<1>2. ASSUME NEW m \in Nat, m \in T PROVE m + 1 \in T
  <2>. SUFFICES ASSUME m + 1 <= N PROVE \E f \in [0 .. m + 1 -> D] : Walked(f, first, m + 1, G)
    OBVIOUS
  <2>1. PICK f \in [0 .. m -> D] : Walked(f, first, m, G)
    BY <1>2
  <2>. DEFINE g == [n \in 0 .. m + 1 |-> IF n = m + 1 THEN G[<<f[m], m + 1>>] ELSE f[n]]
  <2>2. G[<<f[m], m + 1>>] \in D
    OBVIOUS
  <2>3. g \in [0 .. m + 1 -> D]
    BY <2>2
  <2>4. Walked(g, first, m + 1, G)
    <3>1. g[0] = first /\ g[m + 1] = G[<<f[m], m + 1>>] /\ \A n \in 0 .. m : g[n] = f[n]
      BY <2>1 DEF Walked
    <3>2. \A n \in 1 .. m : g[n] = G[<<g[n - 1], n>>]
      <4>. TAKE n \in 1 .. m
      <4>1. n \in 0 .. m /\ n - 1 \in 0 .. m
        OBVIOUS
      <4>2. g[n] = f[n] /\ g[n - 1] = f[n - 1]
        BY <3>1, <4>1
      <4>. QED  BY <2>1, <4>2 DEF Walked
    <3>. HIDE DEF g
    <3>3. \A n \in 1 .. m + 1 : g[n] = G[<<g[n - 1], n>>]
      <4>. TAKE n \in 1 .. m + 1
      <4>1. CASE n \in 1 .. m
        BY <3>2, <4>1
      <4>2. CASE n = m + 1
        <5>1. n - 1 = m /\ g[n - 1] = f[m]
          BY <4>2, <3>1
        <5>. QED  BY <5>1, <4>2, <3>1
      <4>. QED  BY <4>1, <4>2
    <3>. QED  BY <3>1, <3>3 DEF Walked
  <2>. QED  BY <2>3, <2>4
<1>. HIDE DEF T
<1>3. N \in T
  BY <1>1, <1>2, Induction
<1>. QED  BY <1>3 DEF T

-----------------------------------------------------------------------------
Bytes == Seq(Nat)

(* A prefix, and a proper one. *)
Begins(p, whole) == \E g \in Bytes : whole = p \o g

Cut(short, whole) == \E rest \in Bytes : rest # <<>> /\ whole = short \o rest

LEMMA BytesEmpty == <<>> \in Bytes /\ Len(<<>>) = 0
  BY DEF Bytes

LEMMA BytesJoined ==
    ASSUME NEW a \in Bytes, NEW b \in Bytes
    PROVE  /\ a \o b \in Bytes /\ Len(a \o b) = Len(a) + Len(b)
           /\ Len(a) \in Nat /\ Len(b) \in Nat
           /\ <<>> \o a = a /\ a \o <<>> = a
  BY ConcatProperties, ConcatEmptySeq DEF Bytes

LEMMA BytesAssociate ==
    ASSUME NEW a \in Bytes, NEW b \in Bytes, NEW c \in Bytes
    PROVE  (a \o b) \o c = a \o (b \o c)
<1>1. a \in Seq(Nat) /\ b \in Seq(Nat) /\ c \in Seq(Nat)
  BY DEF Bytes
<1> QED
  BY <1>1, ConcatAssociative, SMTT(40)

LEMMA BytesCancel ==
    ASSUME NEW a \in Bytes, NEW b \in Bytes, NEW c \in Bytes, a \o b = a \o c
    PROVE  b = c
<1>1. a \in Seq(Nat) /\ b \in Seq(Nat) /\ c \in Seq(Nat)
  BY DEF Bytes
<1> QED
  BY <1>1, ConcatSimplifications

(* A sequence that begins as another is that one and a rest. *)
LEMMA RestExists ==
    ASSUME NEW a \in Bytes, NEW p \in Bytes, Len(p) <= Len(a),
           \A i \in 1 .. Len(p) : a[i] = p[i]
    PROVE  \E s \in Bytes : a = p \o s /\ Len(s) = Len(a) - Len(p)
<1> DEFINE s == SubSeq(a, Len(p) + 1, Len(a))
<1>1. /\ Len(a) \in Nat /\ Len(p) \in Nat
      /\ \A i \in Len(p) + 1 .. Len(a) : a[i] \in Nat
  BY DEF Bytes
<1>2. /\ s \in Seq(Nat) /\ Len(s) = Len(a) - Len(p)
      /\ \A i \in 1 .. Len(a) - Len(p) : s[i] = a[Len(p) + i]
  <2>1. /\ s \in Seq(Nat)
        /\ Len(s) = IF Len(p) + 1 <= Len(a) THEN Len(a) - (Len(p) + 1) + 1 ELSE 0
        /\ \A i \in 1 .. Len(a) - (Len(p) + 1) + 1 : s[i] = a[Len(p) + 1 + i - 1]
    BY <1>1, SubSeqProperties
  <2> HIDE DEF s
  <2> QED
    BY <1>1, <2>1
<1> HIDE DEF s
<1>3. /\ p \o s \in Seq(Nat) /\ Len(p \o s) = Len(a)
      /\ \A i \in 1 .. Len(a) : (p \o s)[i] = IF i <= Len(p) THEN p[i] ELSE s[i - Len(p)]
  BY <1>1, <1>2, ConcatProperties DEF Bytes
<1>4. \A i \in 1 .. Len(a) : (p \o s)[i] = a[i]
  <2> TAKE i \in 1 .. Len(a)
  <2>1. CASE i <= Len(p)
    BY <1>1, <1>3, <2>1
  <2>2. CASE ~(i <= Len(p))
    <3>1. i - Len(p) \in 1 .. Len(a) - Len(p) /\ Len(p) + (i - Len(p)) = i
      BY <1>1, <2>2
    <3> QED
      BY <1>2, <1>3, <2>2, <3>1
  <2> QED
    BY <2>1, <2>2
<1>5. a = p \o s
  BY <1>3, <1>4, SeqEqual DEF Bytes
<1> QED
  BY <1>2, <1>5 DEF Bytes

(* Of two beginnings of one sequence, one begins with the other. *)
LEMMA Splits ==
    ASSUME NEW a \in Bytes, NEW b \in Bytes, NEW p \in Bytes, NEW g \in Bytes
    PROVE  a \o b = p \o g => Begins(p, a) \/ Cut(a, p)
<1>1. /\ Len(a) \in Nat /\ Len(p) \in Nat
      /\ \A i \in 1 .. Len(a) : (a \o b)[i] = a[i]
      /\ \A i \in 1 .. Len(p) : (p \o g)[i] = p[i]
  <2>1. Len(a) \in Nat /\ Len(p) \in Nat /\ Len(b) \in Nat /\ Len(g) \in Nat
    BY DEF Bytes
  <2>2. \A i \in 1 .. Len(a) + Len(b) : (a \o b)[i] = IF i <= Len(a) THEN a[i] ELSE b[i - Len(a)]
    BY ConcatProperties DEF Bytes
  <2>3. \A i \in 1 .. Len(p) + Len(g) : (p \o g)[i] = IF i <= Len(p) THEN p[i] ELSE g[i - Len(p)]
    BY ConcatProperties DEF Bytes
  <2> QED
    BY <2>1, <2>2, <2>3
<1>2. ASSUME a \o b = p \o g, Len(p) <= Len(a) PROVE Begins(p, a)
  <2>1. Len(p) <= Len(a) /\ \A i \in 1 .. Len(p) : a[i] = p[i]
    BY <1>1, <1>2
  <2>2. \E s \in Bytes : a = p \o s
    BY <2>1, RestExists, ZenonT(30)
  <2> QED
    BY <2>2 DEF Begins
<1>3. ASSUME a \o b = p \o g, Len(a) < Len(p) PROVE Cut(a, p)
  <2>1. Len(a) <= Len(p) /\ \A i \in 1 .. Len(a) : p[i] = a[i]
    BY <1>1, <1>3
  <2>2. PICK s \in Bytes : p = a \o s /\ Len(s) = Len(p) - Len(a)
    BY <2>1, RestExists
  <2>3. s # <<>>
    BY <1>1, <1>3, <2>2, EmptySeq
  <2> QED
    BY <2>2, <2>3 DEF Cut
<1>4. Len(p) <= Len(a) \/ Len(a) < Len(p)
  BY <1>1
<1> QED
  BY <1>2, <1>3, <1>4, Zenon

(* Parts that are joined one after the other. *)
JoinedUp(f, parts, N) == f[0] = <<>> /\ \A n \in 1 .. N : f[n] = f[n - 1] \o parts[n]

LEMMA FlattenWalks ==
    ASSUME NEW N \in Nat, NEW parts \in [1 .. N -> Bytes]
    PROVE  \E f \in [0 .. N -> Bytes] : JoinedUp(f, parts, N) /\ Coding!FlattenSeq(parts) = f[N]
<1> DEFINE G == [x \in Bytes \X (1 .. N) |-> x[1] \o parts[x[2]]]
           Follows(h) == h = [i \in 1 .. N |-> IF i = 1 THEN parts[i] ELSE h[i - 1] \o parts[i]]
<1>1. <<>> \in Bytes /\ G \in [Bytes \X (1 .. N) -> Bytes]
  <2>1. \A x \in Bytes \X (1 .. N) : x[1] \o parts[x[2]] \in Bytes
    BY BytesJoined
  <2>2. <<>> \in Bytes
    BY BytesEmpty
  <2> QED
    BY <2>1, <2>2
<1>2. PICK f \in [0 .. N -> Bytes] : Walked(f, <<>>, N, G)
  <2> HIDE DEF G
  <2> QED
    BY <1>1, WalkExists
<1>3. f[0] = <<>> /\ \A n \in 1 .. N : n - 1 \in 0 .. N /\ f[n] = f[n - 1] \o parts[n]
  <2>1. \A n \in 1 .. N : n - 1 \in 0 .. N
    OBVIOUS
  <2> QED
    BY <1>2, <2>1 DEF Walked
<1>4. parts \in Seq(Bytes) /\ Len(parts) = N /\ \A n \in 1 .. N : n # 1 => n - 1 \in 1 .. N
  OBVIOUS
<1>5. CASE N = 0
  <2>1. parts = <<>>
    BY <1>4, <1>5, EmptySeq
  <2>2. Coding!FlattenSeq(parts) = <<>>
    BY <1>4, <1>5, <2>1 DEF Coding!FlattenSeq
  <2> QED
    BY <1>3, <1>5, <2>2 DEF JoinedUp
<1>6. CASE N # 0
  <2> DEFINE w == [i \in 1 .. N |-> f[i]]
  <2>1. Follows(w)
    <3>1. \A i \in 1 .. N : w[i] = IF i = 1 THEN parts[i] ELSE w[i - 1] \o parts[i]
      <4> TAKE i \in 1 .. N
      <4>1. w[i] = f[i - 1] \o parts[i] /\ <<>> \o parts[i] = parts[i]
        BY <1>3, BytesJoined
      <4>2. CASE i = 1
        <5>1. f[i - 1] = <<>>
          BY <1>3, <4>2
        <5> QED
          BY <4>1, <4>2, <5>1
      <4>3. CASE i # 1
        <5>1. i - 1 \in 1 .. N
          BY <1>4, <4>3, Zenon
        <5> QED
          BY <4>1, <4>3, <5>1
      <4> QED
        BY <4>2, <4>3
    <3> QED
      BY <3>1
  <2> DEFINE h == CHOOSE u : Follows(u)
  <2>2. Follows(h)
    BY <2>1, Zenon
  <2>3. Coding!FlattenSeq(parts) = h[N]
    BY <1>4, <1>6 DEF Coding!FlattenSeq
  <2> DEFINE k == [n \in 0 .. N |-> IF n = 0 THEN <<>> ELSE h[n]]
  <2>4. \A n \in 1 .. N : h[n] = IF n = 1 THEN parts[n] ELSE h[n - 1] \o parts[n]
    <3> HIDE DEF h
    <3> QED
      BY <2>2
  <2> HIDE DEF h, w
  <2>5. JoinedUp(k, parts, N)
    <3>1. ASSUME NEW n \in 1 .. N PROVE k[n] = k[n - 1] \o parts[n]
      <4>1. n - 1 \in 0 .. N /\ k[n] = h[n] /\ k[n - 1] = (IF n = 1 THEN <<>> ELSE h[n - 1])
        OBVIOUS
      <4>2. <<>> \o parts[n] = parts[n]
        BY BytesJoined
      <4> HIDE DEF k
      <4> QED
        BY <2>4, <4>1, <4>2
    <3>2. k[0] = <<>>
      OBVIOUS
    <3> HIDE DEF k
    <3> QED
      BY <3>1, <3>2 DEF JoinedUp
  <2>6. k \in [0 .. N -> Bytes]
    <3> DEFINE T == {n \in 0 .. N : k[n] \in Bytes}
    <3>1. 0 \in T
      BY <1>1
    <3>2. ASSUME NEW n \in 1 .. N, n - 1 \in T PROVE n \in T
      <4>1. k[n] = k[n - 1] \o parts[n] /\ parts[n] \in Bytes
        BY <2>5 DEF JoinedUp
      <4> HIDE DEF k
      <4>2. k[n] \in Bytes
        BY <3>2, <4>1, BytesJoined
      <4> QED
        BY <4>2
    <3> HIDE DEF T
    <3>3. \A n \in 0 .. N : n \in T
      BY <3>1, <3>2, WalkInduction
    <3> QED
      BY <3>3 DEF T
  <2>7. k[N] = h[N]
    BY <1>6
  <2> QED
    BY <2>3, <2>5, <2>6, <2>7
<1> QED
  BY <1>5, <1>6

(* What was joined so far begins what is joined in the end. *)
LEMMA JoinedBegins ==
    ASSUME NEW N \in Nat, NEW parts \in [1 .. N -> Bytes], NEW f \in [0 .. N -> Bytes],
           JoinedUp(f, parts, N)
    PROVE  \A n \in 0 .. N : Begins(f[n], f[N])
<1> DEFINE T == {m \in 0 .. N : \A n \in 0 .. m : Begins(f[n], f[m])}
<1>1. \A n \in 0 .. N : Begins(f[n], f[n])
  <2> TAKE n \in 0 .. N
  <2>1. f[n] = f[n] \o <<>> /\ <<>> \in Bytes
    BY BytesJoined, BytesEmpty
  <2> QED
    BY <2>1 DEF Begins
<1>2. 0 \in T
  BY <1>1
<1>3. ASSUME NEW m \in 1 .. N, m - 1 \in T PROVE m \in T
  <2>1. ASSUME NEW n \in 0 .. m - 1 PROVE Begins(f[n], f[m])
    <3>1. PICK g \in Bytes : f[m - 1] = f[n] \o g
      BY <1>3 DEF Begins
    <3>2. f[m] = (f[n] \o g) \o parts[m] /\ parts[m] \in Bytes /\ f[n] \in Bytes
      <4>1. n \in 0 .. N
        OBVIOUS
      <4> QED
        BY <3>1, <4>1 DEF JoinedUp
    <3>3. f[m] = f[n] \o (g \o parts[m])
      BY <3>2, BytesAssociate, Zenon
    <3>4. g \o parts[m] \in Bytes
      BY <3>2, BytesJoined
    <3> QED
      BY <3>3, <3>4 DEF Begins
  <2>2. \A n \in 0 .. m : n = m \/ n \in 0 .. m - 1
    OBVIOUS
  <2>3. m \in 0 .. N
    OBVIOUS
  <2>4. \A n \in 0 .. m : Begins(f[n], f[m])
    BY <1>1, <2>1, <2>2, <2>3
  <2> QED
    BY <2>3, <2>4
<1> HIDE DEF T
<1>4. N \in T
  BY <1>2, <1>3, WalkInduction
<1> QED
  BY <1>4 DEF T

(* What a reader makes of the encoding of a value, of less than that, and  *)
(* of anything: d is the cursor c after one read.                          *)
Cursors(V) == [rest : Bytes, read : Seq(V), ok : BOOLEAN, valid : BOOLEAN]

ReadsWhole(c, d, piece, v) ==
    \A tail \in Bytes :
        c.ok /\ c.rest = piece \o tail =>
            /\ d.rest = tail /\ d.read = Append(c.read, v)
            /\ d.ok /\ d.valid = c.valid

ReadsCut(c, d, piece) ==
    /\ ~c.ok => ~d.ok
    /\ c.ok /\ Cut(c.rest, piece) => ~d.ok

Keeps(c, d, S) ==
    d.ok /\ d.valid => /\ c.ok /\ c.valid
                      /\ \E v \in S : d.read = Append(c.read, v)

LEMMA CursorFields ==
    ASSUME NEW V, NEW c \in Cursors(V)
    PROVE  c.rest \in Bytes /\ c.read \in Seq(V) /\ c.ok \in BOOLEAN /\ c.valid \in BOOLEAN
  BY DEF Cursors

(* One more at the end of what was read. *)
LEMMA ReadAppended ==
    ASSUME NEW V, NEW s \in Seq(V), NEW v \in V
    PROVE  /\ Append(s, v) \in Seq(V) /\ Len(s) \in Nat /\ Len(Append(s, v)) = Len(s) + 1
           /\ \A i \in 1 .. Len(s) : Append(s, v)[i] = s[i]
           /\ Append(s, v)[Len(s) + 1] = v
  BY AppendProperties

(* After a part a, of a whole that goes on with p, g and tail or that was   *)
(* cut before left: what is left, r, begins with p or is cut within it.    *)
GoesOn(a, r, p, g, tail) == a \o r = ((a \o p) \o g) \o tail => r = p \o (g \o tail)

EndsLater(a, r, p, g, lack) ==
    (a \o r) \o lack = (a \o p) \o g /\ ~Cut(r, p)
      => \E s \in Bytes : r = p \o s /\ a \o r = (a \o p) \o s

LEMMA Left ==
    ASSUME NEW a \in Bytes, NEW r \in Bytes, NEW p \in Bytes, NEW g \in Bytes, NEW tail \in Bytes
    PROVE  GoesOn(a, r, p, g, tail)
<1>1. \A q \in Bytes : (q \o g) \o tail = q \o (g \o tail)
  <2> TAKE q \in Bytes
  <2> QED
    BY BytesAssociate, SMTT(40)
<1>2. \A h \in Bytes : (a \o p) \o h = a \o (p \o h)
  <2> TAKE h \in Bytes
  <2> QED
    BY BytesAssociate, SMTT(40)
<1>3. \A k \in Bytes : a \o r = a \o k => r = k
  BY BytesCancel
<1>4. a \o p \in Bytes /\ g \o tail \in Bytes
  BY BytesJoined
<1>5. \A h \in Bytes : p \o h \in Bytes
  BY BytesJoined
<1>6. ((a \o p) \o g) \o tail = (a \o p) \o (g \o tail)
  BY <1>1, <1>4
<1>7. (a \o p) \o (g \o tail) = a \o (p \o (g \o tail)) /\ p \o (g \o tail) \in Bytes
  BY <1>2, <1>4, <1>5
<1> QED
  BY <1>3, <1>6, <1>7 DEF GoesOn

LEMMA LeftSplits ==
    ASSUME NEW a \in Bytes, NEW r \in Bytes, NEW p \in Bytes, NEW g \in Bytes, NEW lack \in Bytes
    PROVE  EndsLater(a, r, p, g, lack)
<1>1. (a \o r) \o lack = a \o (r \o lack)
  BY BytesAssociate, SMTT(40)
<1>2. \A s \in Bytes : (a \o p) \o s = a \o (p \o s)
  <2> TAKE s \in Bytes
  <2> QED
    BY BytesAssociate, SMTT(40)
<1>3. r \o lack \in Bytes /\ p \o g \in Bytes
  BY BytesJoined
<1>4. \A h, k \in Bytes : a \o h = a \o k => h = k
  BY BytesCancel
<1>5. r \o lack = p \o g => Begins(p, r) \/ Cut(r, p)
  BY Splits
<1>6. SUFFICES ASSUME (a \o r) \o lack = (a \o p) \o g, ~Cut(r, p)
              PROVE  \E s \in Bytes : r = p \o s /\ a \o r = (a \o p) \o s
  BY DEF EndsLater
<1>7. a \o (r \o lack) = a \o (p \o g)
  BY <1>1, <1>2, <1>6
<1>8. PICK s \in Bytes : r = p \o s
  BY <1>3, <1>4, <1>5, <1>6, <1>7 DEF Begins
<1> QED
  BY <1>2, <1>8

(* A walk of N reads, the parts there are for them, and what each read does. *)
Walk(V, N, c) == N \in Nat /\ c \in [0 .. N -> Cursors(V)]
InParts(N, parts, f) == parts \in [1 .. N -> Bytes] /\ f \in [0 .. N -> Bytes] /\ JoinedUp(f, parts, N)
ReadsEach(N, c, parts, values) == \A n \in 1 .. N : ReadsWhole(c[n - 1], c[n], parts[n], values[n])
CutsEach(N, c, parts) == \A n \in 1 .. N : ReadsCut(c[n - 1], c[n], parts[n])
KeepsEach(V, N, c, S) == \A n \in 1 .. N : S[n] \subseteq V /\ Keeps(c[n - 1], c[n], S[n])

(* A walk reads what was joined, and leaves the rest. *)
ToRead(V, N, values, c, f, tail) ==
    /\ values \in Seq(V) /\ Len(values) = N /\ tail \in Bytes
    /\ c[0].ok /\ c[0].read = <<>> /\ c[0].rest = f[N] \o tail

HasRead(N, values, c, tail) ==
    c[N].rest = tail /\ c[N].read = values /\ c[N].ok /\ c[N].valid = c[0].valid

LEMMA WalkReads ==
    ASSUME NEW V, NEW N, NEW parts, NEW values, NEW c, NEW f, NEW tail,
           Walk(V, N, c), InParts(N, parts, f), ReadsEach(N, c, parts, values),
           ToRead(V, N, values, c, f, tail)
    PROVE  HasRead(N, values, c, tail)
<1>a. /\ values \in Seq(V) /\ Len(values) = N /\ tail \in Bytes
      /\ c[0].ok /\ c[0].read = <<>> /\ c[0].rest = f[N] \o tail
  BY DEF ToRead
<1>b. SUFFICES c[N].rest = tail /\ c[N].read = values /\ c[N].ok /\ c[N].valid = c[0].valid
  BY DEF HasRead
<1>0. /\ N \in Nat /\ c \in [0 .. N -> Cursors(V)]
      /\ parts \in [1 .. N -> Bytes] /\ f \in [0 .. N -> Bytes] /\ JoinedUp(f, parts, N)
      /\ \A n \in 1 .. N : ReadsWhole(c[n - 1], c[n], parts[n], values[n])
  BY DEF Walk, InParts, ReadsEach
<1> USE <1>0
<1> DEFINE Good(d, n) ==
               /\ d.ok /\ d.valid = c[0].valid
               /\ c[0].rest = f[n] \o d.rest
               /\ Len(d.read) = n
               /\ \A i \in 1 .. n : d.read[i] = values[i]
           T == {n \in 0 .. N : Good(c[n], n)}
<1>1. \A n \in 0 .. N : c[n] \in Cursors(V) /\ c[n].rest \in Bytes /\ f[n] \in Bytes /\ c[n].read \in Seq(V)
  BY CursorFields
<1>2. 0 \in T
  <2>1. c[0].rest = f[0] \o c[0].rest
    BY <1>1, BytesJoined DEF JoinedUp
  <2>2. Len(c[0].read) = 0
    BY <1>a
  <2>3. Good(c[0], 0)
    BY <1>a, <2>1, <2>2
  <2>4. 0 \in 0 .. N
    OBVIOUS
  <2> HIDE DEF Good
  <2> QED
    BY <2>3, <2>4
<1>3. ASSUME NEW n \in 1 .. N, n - 1 \in T PROVE n \in T
  <2>1. n - 1 \in 0 .. N /\ n \in 0 .. N /\ Good(c[n - 1], n - 1)
    <3> HIDE DEF Good
    <3> QED
      BY <1>3
  <2>2. PICK g \in Bytes : f[N] = f[n] \o g
    BY <2>1, JoinedBegins DEF Begins
  <2>3. /\ f[n] = f[n - 1] \o parts[n] /\ parts[n] \in Bytes
        /\ f[n - 1] \in Bytes /\ f[n] \in Bytes /\ c[n - 1].rest \in Bytes
    BY <1>1, <2>1 DEF JoinedUp
  <2>4. f[n - 1] \o c[n - 1].rest = ((f[n - 1] \o parts[n]) \o g) \o tail
    BY <1>a, <2>1, <2>2, <2>3
  <2> HIDE DEF Good
  <2>5. c[n - 1].rest = parts[n] \o (g \o tail)
    <3>1. GoesOn(f[n - 1], c[n - 1].rest, parts[n], g, tail)
      BY <1>a, <2>2, <2>3, Left
    <3> QED
      BY <2>4, <3>1 DEF GoesOn
  <2>6. /\ c[n].rest = g \o tail /\ c[n].read = Append(c[n - 1].read, values[n])
        /\ c[n].ok /\ c[n].valid = c[n - 1].valid
    <3>1. g \o tail \in Bytes /\ c[n - 1].ok
      BY <1>a, <2>1, BytesJoined DEF Good
    <3> QED
      BY <2>5, <3>1 DEF ReadsWhole
  <2>7. c[0].rest = f[n] \o c[n].rest
    <3>1. c[0].rest = (f[n] \o g) \o tail /\ c[n].rest = g \o tail
      BY <1>a, <2>2, <2>6
    <3>2. g \in Bytes /\ f[n] \in Bytes
      BY <2>2, <2>3
    <3>3. (f[n] \o g) \o tail = f[n] \o (g \o tail)
      BY <1>a, <3>2, BytesAssociate, Zenon
    <3> QED
      BY <3>1, <3>3
  <2>8. c[n].valid = c[0].valid
    BY <2>1, <2>6 DEF Good
  <2>9. Len(c[n].read) = n /\ \A i \in 1 .. n : c[n].read[i] = values[i]
    <3>1. /\ Len(c[n - 1].read) = n - 1 /\ \A i \in 1 .. n - 1 : c[n - 1].read[i] = values[i]
          /\ c[n - 1].read \in Seq(V) /\ values[n] \in V
      BY <1>1, <1>a, <2>1 DEF Good
    <3>2. /\ Len(c[n].read) = (n - 1) + 1
          /\ \A i \in 1 .. n - 1 : c[n].read[i] = c[n - 1].read[i]
          /\ c[n].read[(n - 1) + 1] = values[n]
      BY <2>6, <3>1, ReadAppended
    <3>3. Len(c[n].read) = n /\ c[n].read[n] = values[n]
      BY <3>2
    <3>4. \A i \in 1 .. n : i \in 1 .. n - 1 \/ i = n
      OBVIOUS
    <3> QED
      BY <3>1, <3>2, <3>3, <3>4
  <2>10. Good(c[n], n)
    BY <2>6, <2>7, <2>8, <2>9 DEF Good
  <2> QED
    BY <2>1, <2>10
<1> HIDE DEF T
<1>4. N \in T
  <2>1. \A n \in 0 .. N : n \in T
    BY <1>2, <1>3, WalkInduction
  <2> QED
    BY <2>1
<1> USE DEF T
<1>5. Good(c[N], N)
  BY <1>4
<1>6. c[N].read = values
  BY <1>1, <1>5, <1>a, SeqEqual
<1>7. c[N].rest = tail
  <2>1. f[N] \o c[N].rest = f[N] \o tail
    BY <1>5, <1>a
  <2>2. f[N] \in Bytes /\ c[N].rest \in Bytes
    BY <1>1
  <2> QED
    BY <1>a, <2>1, <2>2, BytesCancel, Zenon
<1> QED
  BY <1>5, <1>6, <1>7, <1>b

(* A walk that does not find all that was joined fails. *)
LEMMA WalkIsCut ==
    ASSUME NEW V, NEW N, NEW parts, NEW values, NEW c, NEW f,
           Walk(V, N, c), InParts(N, parts, f), ReadsEach(N, c, parts, values), CutsEach(N, c, parts),
           ~c[0].ok \/ Cut(c[0].rest, f[N])
    PROVE  ~c[N].ok
<1>0. /\ N \in Nat /\ c \in [0 .. N -> Cursors(V)]
      /\ parts \in [1 .. N -> Bytes] /\ f \in [0 .. N -> Bytes] /\ JoinedUp(f, parts, N)
      /\ \A n \in 1 .. N : /\ ReadsWhole(c[n - 1], c[n], parts[n], values[n])
                          /\ ReadsCut(c[n - 1], c[n], parts[n])
  BY DEF Walk, InParts, ReadsEach, CutsEach
<1> USE <1>0
<1> DEFINE Good(d, n) == d.ok => /\ Cut(c[0].rest, f[N])
                                 /\ c[0].rest = f[n] \o d.rest
           T == {n \in 0 .. N : Good(c[n], n)}
<1>1. \A n \in 0 .. N : c[n].rest \in Bytes /\ f[n] \in Bytes
  BY CursorFields
<1>2. 0 \in T
  <2>1. c[0].rest = f[0] \o c[0].rest
    BY <1>1, BytesJoined DEF JoinedUp
  <2> QED
    BY <2>1
<1>3. ASSUME NEW n \in 1 .. N, n - 1 \in T PROVE n \in T
  <2>1. n - 1 \in 0 .. N /\ n \in 0 .. N /\ Good(c[n - 1], n - 1)
    <3> HIDE DEF Good
    <3> QED
      BY <1>3
  <2> SUFFICES ASSUME c[n].ok PROVE Good(c[n], n)
    BY <2>1
  <2>2. c[n - 1].ok /\ ~Cut(c[n - 1].rest, parts[n])
    BY DEF ReadsCut
  <2>3. Cut(c[0].rest, f[N]) /\ c[0].rest = f[n - 1] \o c[n - 1].rest
    BY <2>1, <2>2, Zenon
  <2>4. PICK lack \in Bytes : f[N] = c[0].rest \o lack
    BY <2>3, Zenon DEF Cut
  <2>5. PICK g \in Bytes : f[N] = f[n] \o g
    BY <2>1, JoinedBegins DEF Begins
  <2>6. /\ f[n] = f[n - 1] \o parts[n] /\ parts[n] \in Bytes
        /\ f[n - 1] \in Bytes /\ f[n] \in Bytes /\ c[n - 1].rest \in Bytes
    BY <1>1, <2>1 DEF JoinedUp
  <2>7. (f[n - 1] \o c[n - 1].rest) \o lack = (f[n - 1] \o parts[n]) \o g
    BY <2>3, <2>4, <2>5, <2>6
  <2>8. PICK s \in Bytes : /\ c[n - 1].rest = parts[n] \o s
                          /\ f[n - 1] \o c[n - 1].rest = (f[n - 1] \o parts[n]) \o s
    <3>1. EndsLater(f[n - 1], c[n - 1].rest, parts[n], g, lack)
      BY <2>4, <2>5, <2>6, LeftSplits
    <3> QED
      BY <2>2, <2>7, <3>1 DEF EndsLater
  <2>9. c[n].rest = s
    BY <2>2, <2>8 DEF ReadsWhole
  <2>10. c[0].rest = f[n] \o s
    BY <2>3, <2>6, <2>8
  <2> QED
    BY <2>3, <2>9, <2>10 DEF Good
<1> HIDE DEF T
<1>4. N \in T
  <2>1. \A n \in 0 .. N : n \in T
    BY <1>2, <1>3, WalkInduction
  <2> QED
    BY <2>1
<1> USE DEF T
<1>5. SUFFICES ASSUME c[N].ok PROVE FALSE
  OBVIOUS
<1>6. PICK lack \in Bytes : lack # <<>> /\ f[N] = c[0].rest \o lack
  BY <1>4, <1>5 DEF Cut
<1>7. c[0].rest = f[N] \o c[N].rest
  BY <1>4, <1>5
<1>8. Len(f[N]) = (Len(f[N]) + Len(c[N].rest)) + Len(lack) /\ Len(lack) \in Nat \ {0}
  <2>1. Len(lack) \in Nat \ {0}
    BY <1>6, EmptySeq DEF Bytes
  <2>2. Len(f[N]) = Len(c[0].rest) + Len(lack) /\ Len(c[0].rest) = Len(f[N]) + Len(c[N].rest)
    <3>1. 0 \in 0 .. N /\ N \in 0 .. N
      OBVIOUS
    <3>2. c[0].rest \in Bytes /\ f[N] \in Bytes /\ c[N].rest \in Bytes
      BY <1>1, <3>1
    <3> QED
      BY <1>6, <1>7, <3>2, BytesJoined
  <2> QED
    BY <2>1, <2>2
<1>9. Len(f[N]) \in Nat /\ Len(c[N].rest) \in Nat
  BY <1>1, BytesJoined
<1> QED
  BY <1>8, <1>9

(* What a walk accepted has a value of the right kind in each place. *)
LEMMA WalkKeeps ==
    ASSUME NEW V, NEW N, NEW S, NEW c, Walk(V, N, c), KeepsEach(V, N, c, S),
           c[0].read = <<>>, c[N].ok, c[N].valid
    PROVE  /\ c[0].ok /\ c[0].valid
           /\ c[N].read \in Seq(V) /\ Len(c[N].read) = N /\ \A i \in 1 .. N : c[N].read[i] \in S[i]
<1>0. /\ N \in Nat /\ c \in [0 .. N -> Cursors(V)]
      /\ \A n \in 1 .. N : S[n] \subseteq V /\ Keeps(c[n - 1], c[n], S[n])
  BY DEF Walk, KeepsEach
<1> USE <1>0
<1> DEFINE Good(d, n) == d.ok /\ d.valid => /\ c[0].ok /\ c[0].valid
                                            /\ Len(d.read) = n
                                            /\ \A i \in 1 .. n : d.read[i] \in S[i]
           T == {n \in 0 .. N : Good(c[n], n)}
<1>1. \A n \in 0 .. N : c[n].read \in Seq(V)
  BY CursorFields
<1>2. 0 \in T
  <2>1. Len(c[0].read) = 0
    OBVIOUS
  <2> QED
    BY <2>1
<1>3. ASSUME NEW n \in 1 .. N, n - 1 \in T PROVE n \in T
  <2>1. n - 1 \in 0 .. N /\ n \in 0 .. N /\ Good(c[n - 1], n - 1)
    BY <1>3
  <2> SUFFICES ASSUME c[n].ok, c[n].valid PROVE Good(c[n], n)
    BY <2>1
  <2>2. PICK v \in S[n] : c[n].read = Append(c[n - 1].read, v)
    BY DEF Keeps
  <2>3. c[n - 1].ok /\ c[n - 1].valid
    BY DEF Keeps
  <2>4. /\ c[0].ok /\ c[0].valid /\ Len(c[n - 1].read) = n - 1
        /\ \A i \in 1 .. n - 1 : c[n - 1].read[i] \in S[i]
    BY <2>1, <2>3
  <2>5. /\ Len(c[n].read) = (n - 1) + 1
        /\ \A i \in 1 .. n - 1 : c[n].read[i] = c[n - 1].read[i]
        /\ c[n].read[(n - 1) + 1] = v
    <3>1. c[n - 1].read \in Seq(V) /\ v \in V
      BY <1>1, <2>1
    <3> QED
      BY <2>2, <2>4, <3>1, ReadAppended
  <2> QED
    BY <2>4, <2>5
<1> HIDE DEF T
<1>4. N \in T
  <2>1. \A n \in 0 .. N : n \in T
    BY <1>2, <1>3, WalkInduction
  <2> QED
    BY <2>1
<1> USE DEF T
<1> QED
  BY <1>1, <1>4

Simple == Nat \cup BOOLEAN \cup Bytes
SimpleKinds == {"string", "number", "flag", "late flag", "status", "type", "link", "check"}
Right(kind) == {v \in Simple : Coding!IsValue(kind, v)}

LEMMA RightIsSimple == \A kind : Right(kind) \subseteq Simple
  BY DEF Right

(* What is left behind a part. *)
LEMMA RestAfter ==
    ASSUME NEW p \in Bytes, NEW tail \in Bytes
    PROVE  SubSeq(p \o tail, Len(p) + 1, Len(p \o tail)) = tail
<1>1. p \in Seq(Nat) /\ tail \in Seq(Nat) /\ Len(p) \in Nat /\ Len(tail) \in Nat
  BY DEF Bytes
<1>2. p \o tail \in Seq(Nat) /\ Len(p \o tail) = Len(p) + Len(tail)
  BY <1>1, ConcatProperties
<1>3. CASE Len(tail) = 0
  <2>1. SubSeq(p \o tail, Len(p) + 1, Len(p \o tail)) = <<>>
    BY <1>1, <1>2, <1>3, SubSeqEmpty
  <2>2. tail = <<>>
    BY <1>1, <1>3, EmptySeq
  <2> QED
    BY <2>1, <2>2
<1>4. CASE Len(tail) # 0
  <2>1. /\ Len(p) + 1 \in Len(p) + 1 .. Len(p) + Len(tail)
        /\ Len(p) + Len(tail) \in Len(p) + 1 .. Len(p) + Len(tail)
        /\ (Len(p) + 1) - Len(p) = 1 /\ (Len(p) + Len(tail)) - Len(p) = Len(tail)
    BY <1>1, <1>4
  <2>2. SubSeq(p \o tail, Len(p) + 1, Len(p) + Len(tail)) = SubSeq(tail, 1, Len(tail))
    BY <1>1, <2>1, SubSeqOfConcat2
  <2>3. SubSeq(tail, 1, Len(tail)) = tail
    BY <1>1, SubSeqFull
  <2> QED
    BY <1>2, <2>2, <2>3
<1> QED
  BY <1>3, <1>4

(* Some of it taken, a cursor is a cursor. *)
IsTaken(V, c, d, n, v, valid) ==
    /\ d \in Cursors(V) /\ d.ok = TRUE /\ d.valid = (c.valid /\ valid)
    /\ d.read = Append(c.read, v) /\ d.rest = SubSeq(c.rest, n + 1, Len(c.rest))

LEMMA TookFields ==
    ASSUME NEW V, NEW c \in Cursors(V), NEW n \in Nat, n <= Len(c.rest), NEW v \in V, NEW valid \in BOOLEAN
    PROVE  IsTaken(V, c, Coding!Took(c, n, v, valid), n, v, valid)
<1> DEFINE rest == SubSeq(c.rest, n + 1, Len(c.rest))
<1>1. c.rest \in Seq(Nat) /\ c.read \in Seq(V) /\ c.valid \in BOOLEAN /\ Len(c.rest) \in Nat
  BY CursorFields DEF Bytes
<1>2. \A i \in n + 1 .. Len(c.rest) : c.rest[i] \in Nat
  BY <1>1
<1>3. rest \in Seq(Nat)
  BY <1>1, <1>2, SubSeqProperties
<1>4. Append(c.read, v) \in Seq(V)
  BY <1>1
<1> HIDE DEF rest
<1>5. Coding!Took(c, n, v, valid) =
        [rest |-> rest, read |-> Append(c.read, v), ok |-> TRUE, valid |-> c.valid /\ valid]
  BY DEF Coding!Took, rest
<1>6. (c.valid /\ valid) \in BOOLEAN
  BY <1>1
<1>7. [rest |-> rest, read |-> Append(c.read, v), ok |-> TRUE, valid |-> c.valid /\ valid] \in Cursors(V)
  BY <1>3, <1>4, <1>6 DEF Cursors, Bytes
<1> QED
  BY <1>5, <1>7 DEF rest, IsTaken

LEMMA ThrownFields ==
    ASSUME NEW V, NEW c \in Cursors(V)
    PROVE  Coding!Thrown(c) \in Cursors(V) /\ Coding!Thrown(c).ok = FALSE
  BY DEF Coding!Thrown, Cursors

(* A cell is one character. *)
LEMMA CellPiece ==
    ASSUME NEW k \in Nat, NEW tail \in Bytes
    PROVE  /\ <<k>> \in Bytes /\ <<k>> \o tail \in Bytes /\ <<k>> \o tail # <<>>
           /\ Head(<<k>> \o tail) = k
           /\ Len(<<k>> \o tail) = 1 + Len(tail) /\ Len(tail) \in Nat
           /\ SubSeq(<<k>> \o tail, 1 + 1, Len(<<k>> \o tail)) = tail
<1>1. <<k>> \in Bytes /\ Len(<<k>>) = 1 /\ <<k>>[1] = k
  BY DEF Bytes
<1>2. <<k>> \o tail \in Seq(Nat) /\ Len(<<k>> \o tail) = 1 + Len(tail) /\ (<<k>> \o tail)[1] = k
      /\ Len(tail) \in Nat
  BY <1>1, ConcatProperties DEF Bytes
<1>3. SubSeq(<<k>> \o tail, Len(<<k>>) + 1, Len(<<k>> \o tail)) = tail
  BY <1>1, RestAfter, Zenon
<1>4. <<k>> \o tail # <<>>
  BY <1>2, EmptySeq
<1>5. Head(<<k>> \o tail) = (<<k>> \o tail)[1]
  BY <1>2, <1>4
<1> QED
  BY <1>1, <1>2, <1>3, <1>4, <1>5 DEF Bytes

(* Less than a cell is nothing; what is less than a cell and more lacks some of the rest. *)
LEMMA CellCut ==
    ASSUME NEW k \in Nat, NEW b \in Bytes, NEW more \in Bytes, Cut(b, <<k>> \o more)
    PROVE  b = <<>> \/ \E r \in Bytes : b = <<k>> \o r /\ Cut(r, more)
<1>1. <<k>> \in Bytes
  BY CellPiece
<1>2. PICK lack \in Bytes : lack # <<>> /\ <<k>> \o more = b \o lack
  BY DEF Cut
<1>3. Begins(<<k>>, b) \/ Cut(b, <<k>>)
  BY <1>1, <1>2, Splits
<1>4. CASE Begins(<<k>>, b)
  <2>1. PICK r \in Bytes : b = <<k>> \o r
    BY <1>4 DEF Begins
  <2>2. (<<k>> \o r) \o lack = <<k>> \o (r \o lack)
    BY <1>1, <1>2, <2>1, BytesAssociate
  <2>3. r \o lack \in Bytes
    BY <1>2, <2>1, BytesJoined
  <2>4. <<k>> \o more = <<k>> \o (r \o lack)
    BY <1>2, <2>1, <2>2
  <2>5. more = r \o lack
    BY <1>1, <2>3, <2>4, BytesCancel
  <2>6. Cut(r, more)
    BY <1>2, <2>5 DEF Cut
  <2> QED
    BY <2>1, <2>6
<1>5. CASE Cut(b, <<k>>)
  <2>1. PICK g \in Bytes : g # <<>> /\ <<k>> = b \o g
    BY <1>5 DEF Cut
  <2>2. Len(g) \in Nat \ {0} /\ Len(b) \in Nat /\ Len(<<k>>) = 1
    BY <2>1, EmptySeq DEF Bytes
  <2>3. Len(<<k>>) = Len(b) + Len(g)
    BY <2>1, BytesJoined
  <2>4. Len(b) = 0
    BY <2>2, <2>3
  <2> QED
    BY <2>4, EmptySeq DEF Bytes
<1> QED
  BY <1>3, <1>4, <1>5

(* The text of a string, with its terminator, and without. *)
IsText(v, k, z, tail, chars, rest) ==
    /\ chars \in Bytes /\ Len(chars) = Len(v) + 1 /\ chars[Len(v) + 1] = z
    /\ SubSeq(chars, 1, Len(v)) = v
    /\ SubSeq(rest, 2, Len(v) + 2) = chars
    /\ Len(rest) = Len(v) + 2 + Len(tail) /\ Len(v) \in Nat /\ Len(tail) \in Nat

LEMMA TextOf ==
    ASSUME NEW v \in Bytes, NEW k \in Nat, NEW z \in Nat, NEW tail \in Bytes
    PROVE  IsText(v, k, z, tail, v \o <<z>>, (<<k>> \o (v \o <<z>>)) \o tail)
<1> DEFINE chars == v \o <<z>>
<1>1. v \in Seq(Nat) /\ tail \in Seq(Nat) /\ Len(v) \in Nat /\ Len(tail) \in Nat
  BY DEF Bytes
<1>2. <<z>> \in Seq(Nat) /\ Len(<<z>>) = 1 /\ <<z>>[1] = z /\ <<k>> \in Seq(Nat) /\ Len(<<k>>) = 1
  OBVIOUS
<1>3. chars \in Seq(Nat) /\ Len(chars) = Len(v) + 1 /\ chars[Len(v) + 1] = z
  <2>1. /\ chars \in Seq(Nat) /\ Len(chars) = Len(v) + 1
        /\ \A i \in 1 .. Len(v) + 1 : chars[i] = IF i <= Len(v) THEN v[i] ELSE <<z>>[i - Len(v)]
    BY <1>1, <1>2, ConcatProperties
  <2>2. Len(v) + 1 \in 1 .. Len(v) + 1 /\ ~(Len(v) + 1 <= Len(v)) /\ (Len(v) + 1) - Len(v) = 1
    BY <1>1
  <2> HIDE DEF chars
  <2> QED
    BY <1>2, <2>1, <2>2
<1>4. SubSeq(chars, 1, Len(v)) = v
  <2>1. CASE Len(v) = 0
    <3>1. v = <<>>
      BY <1>1, <2>1, EmptySeq
    <3>2. SubSeq(chars, 1, Len(v)) = <<>>
      BY <2>1, SubSeqEmpty
    <3> QED
      BY <3>1, <3>2
  <2>2. CASE Len(v) # 0
    <3>1. 1 \in 1 .. Len(v) /\ Len(v) \in 1 .. Len(v)
      BY <1>1, <2>2
    <3>2. SubSeq(chars, 1, Len(v)) = SubSeq(v, 1, Len(v))
      BY <1>1, <1>2, <3>1, SubSeqOfConcat1
    <3>3. SubSeq(v, 1, Len(v)) = v
      BY <1>1, SubSeqFull
    <3> QED
      BY <3>2, <3>3
  <2> QED
    BY <2>1, <2>2
<1> HIDE DEF chars
<1>5. /\ <<k>> \o chars \in Seq(Nat) /\ Len(<<k>> \o chars) = Len(v) + 2
      /\ Len((<<k>> \o chars) \o tail) = Len(v) + 2 + Len(tail)
  <2>1. <<k>> \o chars \in Seq(Nat) /\ Len(<<k>> \o chars) = 1 + Len(chars)
    BY <1>2, <1>3, ConcatProperties
  <2>2. Len((<<k>> \o chars) \o tail) = Len(<<k>> \o chars) + Len(tail)
    <3>1. <<k>> \o chars \in Seq(Nat) /\ tail \in Seq(Nat)
      BY <1>1, <2>1
    <3> QED
      BY <3>1, ConcatProperties, Zenon
  <2> QED
    <3>1. Len(<<k>> \o chars) = Len(v) + 2
      BY <1>1, <1>3, <2>1
    <3> QED
      BY <2>1, <2>2, <3>1, Zenon
<1>6. SubSeq((<<k>> \o chars) \o tail, 2, Len(v) + 2) = chars
  <2>1. 2 \in 1 .. Len(<<k>> \o chars) /\ Len(v) + 2 \in 1 .. Len(<<k>> \o chars)
    BY <1>1, <1>5
  <2>2. SubSeq((<<k>> \o chars) \o tail, 2, Len(v) + 2) = SubSeq(<<k>> \o chars, 2, Len(v) + 2)
    BY <1>1, <1>5, <2>1, SubSeqOfConcat1
  <2>3. SubSeq(<<k>> \o chars, Len(<<k>>) + 1, Len(<<k>> \o chars)) = chars
    BY <1>2, <1>3, RestAfter DEF Bytes
  <2> QED
    <3>1. Len(<<k>>) + 1 = 2
      BY <1>2
    <3> QED
      BY <1>5, <2>2, <2>3, <3>1
<1> QED
  BY <1>1, <1>3, <1>4, <1>5, <1>6 DEF chars, Bytes, IsText

LEMMA StringReads ==
    ASSUME NEW V, Simple \subseteq V, NEW c \in Cursors(V)
    PROVE  /\ Coding!ReadString(c) \in Cursors(V)
           /\ c.ok => Keeps(c, Coding!ReadString(c), Bytes)
<1> DEFINE rest == c.rest
           length == Head(c.rest)
           chars == SubSeq(c.rest, 2, length + 1)
           value == IF chars # <<>> /\ Coding!Last(chars) = Coding!End THEN Coding!Front(chars) ELSE chars
<1>1. CASE c.rest = <<>> \/ Len(c.rest) <= length
  <2>1. Coding!ReadString(c) = Coding!Thrown(c)
    BY <1>1 DEF Coding!ReadString
  <2> QED
    BY <2>1, ThrownFields DEF Keeps
<1>2. CASE ~(c.rest = <<>> \/ Len(c.rest) <= length)
  <2>1. rest \in Seq(Nat) /\ rest # <<>>
    BY <1>2, CursorFields DEF Bytes
  <2>2. length \in Nat /\ Len(rest) \in Nat /\ length < Len(rest)
    BY <1>2, <2>1, HeadTailProperties
  <2>3. chars \in Seq(Nat)
    <3>1. \A i \in 2 .. length + 1 : rest[i] \in Nat
      <4>1. \A i \in 2 .. length + 1 : i \in 1 .. Len(rest)
        BY <2>2
      <4> QED
        BY <2>1, <4>1, ElementOfSeq
    <3> QED
      BY <2>1, <2>2, <3>1, SubSeqProperties
  <2> HIDE DEF chars, length
  <2>4. Coding!Front(chars) \in Seq(Nat) \/ chars = <<>>
    <3>1. Len(chars) \in Nat /\ \A i \in 1 .. Len(chars) - 1 : chars[i] \in Nat
      BY <2>3
    <3>2. SubSeq(chars, 1, Len(chars) - 1) \in Seq(Nat)
      BY <3>1, SubSeqProperties
    <3> QED
      BY <3>2 DEF Coding!Front
  <2>5. value \in Bytes
    BY <2>3, <2>4 DEF Bytes
  <2> HIDE DEF value
  <2>6. Coding!ReadString(c) = Coding!Took(c, length + 1, value, TRUE)
    BY <1>2 DEF Coding!ReadString, value, length, chars
  <2>7. value \in V /\ length + 1 \in Nat /\ length + 1 <= Len(c.rest)
    BY <2>2, <2>5 DEF Simple
  <2> DEFINE d == Coding!Took(c, length + 1, value, TRUE)
  <2>8. d \in Cursors(V) /\ d.valid = (c.valid /\ TRUE) /\ d.read = Append(c.read, value)
    <3>1. IsTaken(V, c, d, length + 1, value, TRUE)
      BY <2>7, TookFields
    <3> QED
      BY <3>1 DEF IsTaken
  <2> HIDE DEF d
  <2>9. c.ok => Keeps(c, d, Bytes)
    BY <2>5, <2>8 DEF Keeps
  <2> QED
    BY <2>6, <2>8, <2>9 DEF d
<1> QED
  BY <1>1, <1>2

LEMMA StringWhole ==
    ASSUME NEW V, Simple \subseteq V, NEW c \in Cursors(V), c.ok, NEW v \in Bytes
    PROVE  LET piece == Coding!WriteSimple("string", v)
           IN /\ piece \in Bytes
              /\ ReadsWhole(c, Coding!ReadString(c), piece, v)
              /\ ReadsCut(c, Coding!ReadString(c), piece)
<1> DEFINE chars == v \o <<Coding!End>>
           k == Len(v) + 1
<1>1. v \in Seq(Nat) /\ Len(v) \in Nat /\ Coding!End \in Nat /\ k \in Nat
      /\ <<Coding!End>> \in Bytes /\ <<k>> \in Bytes
  BY DEF Bytes, Coding!End
<1>2. Coding!WriteSimple("string", v) = <<k>> \o chars
  <2>1. (<<k>> \o v) \o <<Coding!End>> = <<k>> \o (v \o <<Coding!End>>)
    BY <1>1, BytesAssociate
  <2> QED
    BY <2>1 DEF Coding!WriteSimple
<1> HIDE DEF k
<1>3. chars \in Bytes /\ Len(chars) = Len(v) + 1
  <2>1. IsText(v, k, Coding!End, <<>>, chars, (<<k>> \o chars) \o <<>>)
    BY <1>1, TextOf, BytesEmpty
  <2> QED
    BY <2>1 DEF IsText
<1>4. <<k>> \o chars \in Bytes /\ Len(<<k>> \o chars) = Len(v) + 2
  <2>1. Len(<<k>> \o chars) = 1 + Len(chars)
    BY <1>1, <1>3, CellPiece
  <2>2. <<k>> \o chars \in Bytes
    BY <1>1, <1>3, BytesJoined
  <2> QED
    BY <1>1, <1>3, <2>1, <2>2
<1>5. ReadsWhole(c, Coding!ReadString(c), <<k>> \o chars, v)
  <2>0. \A tail \in Bytes : (<<k>> \o chars) \o tail = <<k>> \o (chars \o tail)
    BY <1>1, <1>3, BytesAssociate, Zenon
  <2>1. SUFFICES ASSUME NEW tail \in Bytes, c.rest = (<<k>> \o chars) \o tail
                 PROVE  /\ Coding!ReadString(c).rest = tail
                        /\ Coding!ReadString(c).read = Append(c.read, v)
                        /\ Coding!ReadString(c).ok /\ Coding!ReadString(c).valid = c.valid
    BY DEF ReadsWhole
  <2>2. /\ chars[Len(v) + 1] = Coding!End /\ SubSeq(chars, 1, Len(v)) = v
        /\ SubSeq(c.rest, 2, Len(v) + 2) = chars /\ Len(c.rest) = Len(v) + 2 + Len(tail)
        /\ Len(tail) \in Nat
    <3>1. IsText(v, k, Coding!End, tail, chars, c.rest)
      BY <1>1, <2>1, TextOf
    <3> QED
      BY <3>1 DEF IsText
  <2>3. Head(c.rest) = k /\ c.rest # <<>>
    <3>1. (<<k>> \o chars) \o tail = <<k>> \o (chars \o tail)
      BY <2>0
    <3>2. chars \o tail \in Bytes
      BY <1>3, BytesJoined
    <3> QED
      BY <1>1, <2>1, <3>1, <3>2, CellPiece
  <2>4. SubSeq(c.rest, Len(v) + 2 + 1, Len(c.rest)) = tail
    BY <1>4, <2>1, RestAfter
  <2> HIDE DEF chars
  <2>5. Coding!Last(chars) = Coding!End /\ Coding!Front(chars) = v /\ chars # <<>>
    <3>1. Len(chars) - 1 = Len(v) /\ Len(chars) # 0
      BY <1>1, <1>3
    <3> QED
      BY <1>3, <2>2, <3>1 DEF Coding!Last, Coding!Front
  <2>6. PICK n \in Nat : n = k + 1
    BY <1>1
  <2>7. Coding!ReadString(c) = Coding!Took(c, n, v, TRUE)
    <3>1. k + 1 = Len(v) + 2 /\ ~(Len(c.rest) <= k)
      BY <1>1, <2>2 DEF k
    <3> QED
      BY <2>2, <2>3, <2>5, <2>6, <3>1 DEF Coding!ReadString
  <2>8. v \in V /\ n <= Len(c.rest) /\ n = Len(v) + 2
    BY <1>1, <2>2, <2>6 DEF Simple, k
  <2> DEFINE d == Coding!Took(c, n, v, TRUE)
  <2>9. /\ d.ok = TRUE /\ d.valid = (c.valid /\ TRUE) /\ d.read = Append(c.read, v)
        /\ d.rest = SubSeq(c.rest, n + 1, Len(c.rest))
    <3>1. IsTaken(V, c, d, n, v, TRUE)
      BY <2>6, <2>8, TookFields
    <3> HIDE DEF d
    <3> QED
      BY <3>1 DEF IsTaken
  <2> HIDE DEF d
  <2> QED
    BY <2>4, <2>7, <2>8, <2>9, CursorFields DEF d
<1>6. ReadsCut(c, Coding!ReadString(c), <<k>> \o chars)
  <2>1. SUFFICES ASSUME Cut(c.rest, <<k>> \o chars) PROVE ~Coding!ReadString(c).ok
    BY DEF ReadsCut
  <2>2. c.rest \in Bytes
    BY CursorFields
  <2>3. CASE c.rest = <<>>
    BY <2>3, ThrownFields DEF Coding!ReadString
  <2>4. ASSUME NEW r \in Bytes, c.rest = <<k>> \o r, Cut(r, chars) PROVE ~Coding!ReadString(c).ok
    <3>1. PICK g \in Bytes : g # <<>> /\ chars = r \o g
      BY <2>4 DEF Cut
    <3>2. Len(chars) = Len(r) + Len(g) /\ Len(r) \in Nat /\ Len(g) \in Nat
      BY <3>1, BytesJoined
    <3>3. Len(g) # 0
      BY <3>1, EmptySeq DEF Bytes
    <3>4. Head(c.rest) = k /\ Len(c.rest) = 1 + Len(r)
      BY <1>1, <2>4, CellPiece
    <3>5. Len(c.rest) <= k
      BY <1>1, <1>3, <3>2, <3>3, <3>4 DEF k
    <3> QED
      BY <3>4, <3>5, ThrownFields DEF Coding!ReadString
  <2> QED
    BY <1>1, <1>3, <2>1, <2>2, <2>3, <2>4, CellCut
<1> QED
  BY <1>2, <1>4, <1>5, <1>6

FlagKinds == {"flag", "late flag"}
NumberKinds == {"number", "status", "type", "link", "check"}

LEMMA FlagValues ==
    ASSUME NEW kind \in FlagKinds, NEW v
    PROVE  /\ Coding!IsValue(kind, v) <=> v \in BOOLEAN
           /\ Coding!WriteSimple(kind, v) = <<IF v THEN 1 ELSE 0>>
<1>1. Coding!IsValue(kind, v) <=> v \in BOOLEAN
  BY DEF Coding!IsValue, FlagKinds
<1>2. Coding!WriteSimple(kind, v) = <<IF v THEN 1 ELSE 0>>
  BY DEF Coding!WriteSimple, FlagKinds
<1> QED
  BY <1>1, <1>2

LEMMA NumberValues ==
    ASSUME NEW kind \in NumberKinds, NEW v
    PROVE  /\ Coding!IsValue(kind, v)
                <=> v \in Nat /\ (kind = "status" => v <= Coding!Error) /\ Coding!InRange(kind, v)
           /\ Coding!WriteSimple(kind, v) = <<v>>
<1>1. Coding!WriteSimple(kind, v) = <<v>>
  BY DEF Coding!WriteSimple, NumberKinds
<1>2. CASE kind \in {"type", "link", "check"}
  <2>1. Coding!Highest[kind] = 1 /\ kind \in DOMAIN Coding!Highest /\ kind # "status"
    BY <1>2 DEF Coding!Highest
  <2>2. Coding!IsValue(kind, v) <=> v \in 0 .. Coding!Highest[kind]
    BY <1>2 DEF Coding!IsValue
  <2>3. v \in 0 .. Coding!Highest[kind] <=> v \in Nat /\ v <= Coding!Highest[kind]
    BY <2>1
  <2> QED
    BY <1>1, <2>1, <2>2, <2>3 DEF Coding!InRange
<1>3. CASE kind = "status"
  <2>1. Coding!InRange(kind, v)
    BY <1>3 DEF Coding!InRange, Coding!Highest
  <2>2. Coding!IsValue(kind, v) <=> v \in 0 .. Coding!Error
    BY <1>3 DEF Coding!IsValue
  <2>3. v \in 0 .. Coding!Error <=> v \in Nat /\ v <= Coding!Error
    BY DEF Coding!Error
  <2> QED
    BY <1>1, <1>3, <2>1, <2>2, <2>3
<1>4. CASE kind = "number"
  <2>1. Coding!InRange(kind, v)
    BY <1>4 DEF Coding!InRange, Coding!Highest
  <2>2. Coding!IsValue(kind, v) <=> v \in Nat
    BY <1>4 DEF Coding!IsValue
  <2> QED
    BY <1>1, <1>4, <2>1, <2>2
<1> QED
  BY <1>2, <1>3, <1>4 DEF NumberKinds

LEMMA FlagReads ==
    ASSUME NEW V, Simple \subseteq V, NEW kind \in FlagKinds, NEW c \in Cursors(V)
    PROVE  /\ Coding!ReadFlag(c, kind) \in Cursors(V)
           /\ c.ok => Keeps(c, Coding!ReadFlag(c, kind), Right(kind))
<1>1. c.rest \in Seq(Nat) /\ Len(c.rest) \in Nat
  BY CursorFields DEF Bytes
<1>2. \A v \in BOOLEAN : v \in V /\ v \in Right(kind)
  BY FlagValues DEF Right, Simple
<1>3. ASSUME NEW n \in Nat, n <= Len(c.rest), NEW v \in BOOLEAN,
             Coding!ReadFlag(c, kind) = Coding!Took(c, n, v, TRUE)
      PROVE  /\ Coding!ReadFlag(c, kind) \in Cursors(V)
             /\ c.ok => Keeps(c, Coding!ReadFlag(c, kind), Right(kind))
  <2>1. IsTaken(V, c, Coding!Took(c, n, v, TRUE), n, v, TRUE)
    BY <1>2, <1>3, TookFields
  <2> QED
    BY <1>2, <1>3, <2>1 DEF IsTaken, Keeps
<1>4. CASE c.rest # <<>> /\ Head(c.rest) \in {0, 1}
  <2>1. PICK v \in BOOLEAN : v = (Head(c.rest) = 1)
    OBVIOUS
  <2>2. Coding!ReadFlag(c, kind) = Coding!Took(c, 1, v, TRUE)
    BY <1>4, <2>1 DEF Coding!ReadFlag
  <2>3. 1 <= Len(c.rest)
    BY <1>1, <1>4, EmptySeq
  <2> QED
    BY <1>3, <2>1, <2>2, <2>3
<1>5. CASE ~(c.rest # <<>> /\ Head(c.rest) \in {0, 1})
  <2>1. CASE kind = "late flag"
    <3>1. PICK v \in BOOLEAN : v = FALSE
      OBVIOUS
    <3>2. Coding!ReadFlag(c, kind) = Coding!Took(c, 0, v, TRUE)
      BY <1>5, <2>1, <3>1 DEF Coding!ReadFlag
    <3>3. 0 \in Nat /\ 0 <= Len(c.rest)
      BY <1>1
    <3> QED
      BY <1>3, <3>1, <3>2, <3>3
  <2>2. CASE kind # "late flag"
    <3>1. Coding!ReadFlag(c, kind) = Coding!Thrown(c)
      BY <1>5, <2>2 DEF Coding!ReadFlag
    <3> QED
      BY <3>1, ThrownFields DEF Keeps
  <2> QED
    BY <2>1, <2>2
<1> QED
  BY <1>4, <1>5

LEMMA NumberReads ==
    ASSUME NEW V, Simple \subseteq V, NEW kind \in NumberKinds, NEW c \in Cursors(V)
    PROVE  /\ Coding!ReadNumber(c, kind) \in Cursors(V)
           /\ c.ok => Keeps(c, Coding!ReadNumber(c, kind), Right(kind))
<1>1. CASE c.rest = <<>>
  <2>1. Coding!ReadNumber(c, kind) = Coding!Thrown(c)
    BY <1>1 DEF Coding!ReadNumber
  <2> QED
    BY <2>1, ThrownFields DEF Keeps
<1>2. CASE c.rest # <<>>
  <2> DEFINE value == IF kind = "status" /\ Head(c.rest) > Coding!Error THEN Coding!Error ELSE Head(c.rest)
  <2>1. c.rest \in Seq(Nat)
    BY CursorFields DEF Bytes
  <2>2. Head(c.rest) \in Nat /\ 1 <= Len(c.rest)
    BY <1>2, <2>1, HeadTailProperties, EmptySeq
  <2>3. value \in Nat /\ (kind = "status" => value <= Coding!Error)
    BY <2>2 DEF Coding!Error
  <2>4. Coding!ReadNumber(c, kind) = Coding!Took(c, 1, value, Coding!InRange(kind, value))
    BY <1>2 DEF Coding!ReadNumber
  <2> HIDE DEF value
  <2>5. value \in Simple /\ value \in V
    BY <2>3 DEF Simple
  <2>6. Coding!InRange(kind, value) => value \in Right(kind)
    BY <2>3, <2>5, NumberValues DEF Right
  <2>7. PICK valid \in BOOLEAN : valid = Coding!InRange(kind, value)
    BY DEF Coding!InRange
  <2>8. IsTaken(V, c, Coding!Took(c, 1, value, valid), 1, value, valid)
    BY <2>2, <2>5, <2>7, TookFields
  <2>9. Coding!ReadNumber(c, kind) = Coding!Took(c, 1, value, valid)
    BY <2>4, <2>7
  <2> QED
    BY <2>6, <2>7, <2>8, <2>9 DEF IsTaken, Keeps
<1> QED
  BY <1>1, <1>2

(* The cell that a value of one cell is written as is read as that value. *)
LEMMA FlagTakes ==
    ASSUME NEW kind \in FlagKinds, NEW v \in Right(kind), NEW c
    PROVE  LET k == IF v THEN 1 ELSE 0
           IN /\ k \in Nat /\ Coding!WriteSimple(kind, v) = <<k>>
              /\ c.rest # <<>> /\ Head(c.rest) = k
                    => Coding!ReadFlag(c, kind) = Coding!Took(c, 1, v, TRUE)
<1>1. v \in BOOLEAN /\ Coding!WriteSimple(kind, v) = <<IF v THEN 1 ELSE 0>>
  BY FlagValues DEF Right
<1>2. CASE v
  <2>1. (1 = 1) = v
    BY <1>1, <1>2
  <2> QED
    BY <1>1, <1>2, <2>1 DEF Coding!ReadFlag
<1>3. CASE ~v
  <2>1. (0 = 1) = v
    BY <1>1, <1>3
  <2> QED
    BY <1>1, <1>3, <2>1 DEF Coding!ReadFlag
<1> QED
  BY <1>2, <1>3

LEMMA NumberTakes ==
    ASSUME NEW kind \in NumberKinds, NEW v \in Right(kind), NEW c
    PROVE  /\ v \in Nat /\ Coding!WriteSimple(kind, v) = <<v>>
           /\ c.rest # <<>> /\ Head(c.rest) = v
                 => Coding!ReadNumber(c, kind) = Coding!Took(c, 1, v, TRUE)
<1>1. v \in Nat /\ Coding!WriteSimple(kind, v) = <<v>>
  BY NumberValues DEF Right
<1>2. (kind = "status" => v <= Coding!Error) /\ Coding!InRange(kind, v)
  BY NumberValues DEF Right
<1>3. Coding!InRange(kind, v) = TRUE
  BY <1>2 DEF Coding!InRange
<1>4. ~(kind = "status" /\ v > Coding!Error)
  BY <1>1, <1>2 DEF Coding!Error
<1> QED
  BY <1>1, <1>3, <1>4 DEF Coding!ReadNumber

(* A cell that is taken whole, or not at all. *)
LEMMA CellWhole ==
    ASSUME NEW V, NEW c \in Cursors(V), NEW k \in Nat, NEW v \in V, NEW d,
           c.rest # <<>> /\ Head(c.rest) = k => d = Coding!Took(c, 1, v, TRUE)
    PROVE  /\ <<k>> \in Bytes
           /\ ReadsWhole(c, d, <<k>>, v)
           /\ Cut(c.rest, <<k>>) => c.rest = <<>>
<1>1. <<k>> \in Bytes
  BY CellPiece, BytesEmpty
<1>2. ReadsWhole(c, d, <<k>>, v)
  <2>1. SUFFICES ASSUME NEW tail \in Bytes, c.ok, c.rest = <<k>> \o tail
                 PROVE  d.rest = tail /\ d.read = Append(c.read, v) /\ d.ok /\ d.valid = c.valid
    BY DEF ReadsWhole
  <2>2. /\ c.rest # <<>> /\ Head(c.rest) = k /\ 1 <= Len(c.rest)
        /\ SubSeq(c.rest, 1 + 1, Len(c.rest)) = tail
    BY <2>1, CellPiece
  <2>3. d = Coding!Took(c, 1, v, TRUE)
    BY <2>2
  <2>4. IsTaken(V, c, Coding!Took(c, 1, v, TRUE), 1, v, TRUE)
    BY <2>2, TookFields
  <2> QED
    BY <2>2, <2>3, <2>4, CursorFields DEF IsTaken
<1>3. ASSUME Cut(c.rest, <<k>>) PROVE c.rest = <<>>
  <2>1. PICK g \in Bytes : g # <<>> /\ <<k>> = c.rest \o g
    BY <1>3 DEF Cut
  <2>2. c.rest \in Bytes
    BY CursorFields
  <2>3. Len(<<k>>) = Len(c.rest) + Len(g) /\ Len(c.rest) \in Nat /\ Len(g) \in Nat
    BY <2>1, <2>2, BytesJoined
  <2>4. Len(g) # 0 /\ Len(<<k>>) = 1
    BY <2>1, EmptySeq DEF Bytes
  <2>5. Len(c.rest) = 0
    BY <2>3, <2>4
  <2> QED
    BY <2>2, <2>5, EmptySeq DEF Bytes
<1> QED
  BY <1>1, <1>2, <1>3

(* A simple value of each kind. *)
Reads(c, d, kind, piece, v) ==
    /\ piece \in Bytes
    /\ ReadsWhole(c, d, piece, v)
    /\ kind # "late flag" => ReadsCut(c, d, piece)

LEMMA SimpleReads ==
    ASSUME NEW V, Simple \subseteq V, NEW kind \in SimpleKinds, NEW c \in Cursors(V)
    PROVE  LET d == Coding!ReadSimple(c, kind)
           IN /\ d \in Cursors(V) /\ Keeps(c, d, Right(kind))
              /\ \A v \in Right(kind) : Reads(c, d, kind, Coding!WriteSimple(kind, v), v)
<1> DEFINE d == Coding!ReadSimple(c, kind)
<1>1. kind = "string" \/ kind \in FlagKinds \/ kind \in NumberKinds
  BY DEF SimpleKinds, FlagKinds, NumberKinds
<1>2. CASE ~c.ok
  <2>1. d = c
    BY <1>2 DEF Coding!ReadSimple
  <2>2. ASSUME NEW v \in Right(kind) PROVE Coding!WriteSimple(kind, v) \in Bytes
    <3>1. CASE kind = "string"
      <4>1. v \in Bytes
        BY <3>1 DEF Right, Coding!IsValue, Bytes
      <4>2. Len(v) + 1 \in Nat /\ Coding!End \in Nat
        BY <4>1, BytesJoined DEF Coding!End
      <4>3. <<Len(v) + 1>> \in Bytes /\ <<Coding!End>> \in Bytes
        BY <4>2 DEF Bytes
      <4>4. (<<Len(v) + 1>> \o v) \o <<Coding!End>> \in Bytes
        BY <4>1, <4>3, BytesJoined
      <4> QED
        BY <3>1, <4>4 DEF Coding!WriteSimple
    <3>2. CASE kind \in FlagKinds
      <4>1. PICK k \in Nat : Coding!WriteSimple(kind, v) = <<k>>
        BY <3>2, FlagTakes
      <4>2. <<k>> \in Bytes
        BY <4>1, CellPiece, BytesEmpty
      <4> QED
        BY <4>1, <4>2
    <3>3. CASE kind \in NumberKinds
      <4>1. v \in Nat /\ Coding!WriteSimple(kind, v) = <<v>>
        BY <3>3, NumberTakes
      <4>2. <<v>> \in Bytes
        BY <4>1, CellPiece, BytesEmpty
      <4> QED
        BY <4>1, <4>2
    <3> QED
      BY <1>1, <3>1, <3>2, <3>3
  <2> QED
    BY <1>2, <2>1, <2>2 DEF Keeps, Reads, ReadsWhole, ReadsCut
<1>3. CASE c.ok /\ kind = "string"
  <2>1. d = Coding!ReadString(c)
    BY <1>3 DEF Coding!ReadSimple
  <2>2. Right(kind) = Bytes
    BY <1>3 DEF Right, Coding!IsValue, Bytes, Simple
  <2> HIDE DEF d
  <2> QED
    BY <1>3, <2>1, <2>2, StringReads, StringWhole DEF Reads, d
<1>4. CASE c.ok /\ kind \in FlagKinds
  <2>1. d = Coding!ReadFlag(c, kind)
    BY <1>4 DEF Coding!ReadSimple, FlagKinds
  <2> HIDE DEF d
  <2>2. d \in Cursors(V) /\ Keeps(c, d, Right(kind))
    BY <1>4, <2>1, FlagReads
  <2>3. ASSUME NEW v \in Right(kind) PROVE Reads(c, d, kind, Coding!WriteSimple(kind, v), v)
    <3> DEFINE k == IF v THEN 1 ELSE 0
    <3>1. /\ k \in Nat /\ Coding!WriteSimple(kind, v) = <<k>>
          /\ c.rest # <<>> /\ Head(c.rest) = k => d = Coding!Took(c, 1, v, TRUE)
      BY <1>4, <2>1, FlagTakes
    <3>2. v \in V
      BY DEF Right
    <3> HIDE DEF k
    <3>3. <<k>> \in Bytes /\ ReadsWhole(c, d, <<k>>, v) /\ (Cut(c.rest, <<k>>) => c.rest = <<>>)
      BY <3>1, <3>2, CellWhole
    <3>4. kind # "late flag" /\ c.rest = <<>> => ~d.ok
      BY <2>1, ThrownFields DEF Coding!ReadFlag
    <3> QED
      BY <1>4, <3>1, <3>3, <3>4 DEF Reads, ReadsCut
  <2> QED
    BY <2>2, <2>3 DEF d
<1>5. CASE c.ok /\ kind \in NumberKinds
  <2>1. d = Coding!ReadNumber(c, kind)
    BY <1>5 DEF Coding!ReadSimple, NumberKinds
  <2> HIDE DEF d
  <2>2. d \in Cursors(V) /\ Keeps(c, d, Right(kind))
    BY <1>5, <2>1, NumberReads
  <2>3. ASSUME NEW v \in Right(kind) PROVE Reads(c, d, kind, Coding!WriteSimple(kind, v), v)
    <3>1. /\ v \in Nat /\ Coding!WriteSimple(kind, v) = <<v>>
          /\ c.rest # <<>> /\ Head(c.rest) = v => d = Coding!Took(c, 1, v, TRUE)
      BY <1>5, <2>1, NumberTakes
    <3>2. v \in V
      BY DEF Right
    <3>3. <<v>> \in Bytes /\ ReadsWhole(c, d, <<v>>, v) /\ (Cut(c.rest, <<v>>) => c.rest = <<>>)
      BY <3>1, <3>2, CellWhole
    <3>4. c.rest = <<>> => ~d.ok
      BY <2>1, ThrownFields DEF Coding!ReadNumber
    <3> QED
      BY <1>5, <3>1, <3>3, <3>4 DEF Reads, ReadsCut
  <2> QED
    BY <2>2, <2>3 DEF d
<1> QED
  BY <1>1, <1>2, <1>3, <1>4, <1>5

(* A cursor with nothing read yet, and one with all it read as one value more of another. *)
LEMMA Emptied ==
    ASSUME NEW V, NEW W, NEW c \in Cursors(V)
    PROVE  LET e == [c EXCEPT !.read = <<>>]
           IN /\ e \in Cursors(W) /\ e.read = <<>>
              /\ e.rest = c.rest /\ e.ok = c.ok /\ e.valid = c.valid
<1>1. <<>> \in Seq(W)
  BY EmptySeq
<1> QED
  BY <1>1 DEF Cursors

LEMMA Wrapped ==
    ASSUME NEW V, NEW W, NEW c \in Cursors(V), NEW e \in Cursors(W), e.read \in V
    PROVE  LET d == [e EXCEPT !.read = Append(c.read, @)]
           IN /\ d \in Cursors(V) /\ d.read = Append(c.read, e.read)
              /\ d.rest = e.rest /\ d.ok = e.ok /\ d.valid = e.valid
<1>1. Append(c.read, e.read) \in Seq(V)
  BY CursorFields, ReadAppended
<1> QED
  BY <1>1 DEF Cursors

-----------------------------------------------------------------------------
ElementKinds == SimpleKinds \ {"late flag"}
Elements(kinds) == {v \in Seq(Simple) : Coding!AreValues(kinds, v)}

(* The steps of the walk through an element. *)
ElementWalk(first, kinds, h) ==
    /\ h \in [0 .. Len(kinds) -> Cursors(Simple)]
    /\ h[0] = first
    /\ \A n \in 1 .. Len(kinds) : h[n] = Coding!ReadSimple(h[n - 1], kinds[n])

LEMMA ElementWalks ==
    ASSUME NEW kinds \in Seq(ElementKinds), NEW V, NEW c \in Cursors(V), c.ok
    PROVE  \E h : /\ ElementWalk([c EXCEPT !.read = <<>>], kinds, h)
                  /\ Coding!ReadElement(c, kinds) = [h[Len(kinds)] EXCEPT !.read = Append(c.read, @)]
<1> DEFINE N == Len(kinds)
           first == [c EXCEPT !.read = <<>>]
           D == Cursors(Simple)
           G == [x \in D \X (1 .. N) |-> Coding!ReadSimple(x[1], kinds[x[2]])]
           Follows(u) == u = [n \in 0 .. N |-> IF n = 0 THEN first ELSE Coding!ReadSimple(u[n - 1], kinds[n])]
           h == CHOOSE u : Follows(u)
<1>1. N \in Nat /\ \A n \in 1 .. N : kinds[n] \in SimpleKinds
  <2>1. \A n \in 1 .. N : kinds[n] \in ElementKinds
    BY ElementOfSeq
  <2>2. Len(kinds) \in Nat
    BY LenProperties
  <2> QED
    BY <2>1, <2>2 DEF ElementKinds
<1>2. first \in D
  BY Emptied
<1> HIDE DEF N, first
<1>3. \A e \in D : \A n \in 1 .. N : Coding!ReadSimple(e, kinds[n]) \in D
  BY <1>1, SimpleReads
<1>4. G \in [D \X (1 .. N) -> D]
  BY <1>3
<1>5. PICK u \in [0 .. N -> D] : Walked(u, first, N, G)
  <2> HIDE DEF G, D
  <2> QED
    BY <1>1, <1>2, <1>4, WalkExists
<1>6. Follows(u)
  <2>1. \A n \in 1 .. N : u[n] = Coding!ReadSimple(u[n - 1], kinds[n])
    <3> TAKE n \in 1 .. N
    <3>1. n - 1 \in 0 .. N
      BY <1>1
    <3>2. <<u[n - 1], n>> \in D \X (1 .. N)
      BY <1>5, <3>1
    <3>3. G[<<u[n - 1], n>>] = Coding!ReadSimple(u[n - 1], kinds[n])
      BY <3>2
    <3> HIDE DEF G
    <3> QED
      BY <1>5, <3>3 DEF Walked
  <2>2. \A n \in 0 .. N : n # 0 => n \in 1 .. N
    BY <1>1
  <2> HIDE DEF G
  <2>3. \A n \in 0 .. N : u[n] = IF n = 0 THEN first ELSE Coding!ReadSimple(u[n - 1], kinds[n])
    BY <1>5, <2>1, <2>2 DEF Walked
  <2> QED
    BY <1>5, <2>3
<1>7. Follows(h)
  BY <1>6
<1>8. h[0] = first /\ \A n \in 1 .. N : h[n] = Coding!ReadSimple(h[n - 1], kinds[n])
  <2> HIDE DEF h
  <2> QED
    BY <1>1, <1>7
<1>9. DOMAIN h = 0 .. N /\ h = [n \in 0 .. N |-> h[n]]
  <2> HIDE DEF h
  <2> QED
    BY <1>7
<1> HIDE DEF h
<1>10. \A n \in 0 .. N : h[n] \in D
  <2> DEFINE T == {n \in 0 .. N : h[n] \in D}
  <2>1. 0 \in T
    BY <1>1, <1>2, <1>8
  <2>2. ASSUME NEW n \in 1 .. N, n - 1 \in T PROVE n \in T
    <3>1. n \in 0 .. N
      BY <1>1
    <3>2. h[n] \in D
      BY <1>3, <1>8, <2>2
    <3> QED
      BY <3>1, <3>2
  <2> HIDE DEF T
  <2>3. \A n \in 0 .. N : n \in T
    BY <1>1, <2>1, <2>2, WalkInduction
  <2> QED
    BY <2>3 DEF T
<1>11. ElementWalk(first, kinds, h)
  <2>1. h \in [0 .. N -> D]
    BY <1>9, <1>10
  <2> QED
    BY <1>8, <2>1 DEF ElementWalk, N
<1>12. Coding!ReadElement(c, kinds) = [h[N] EXCEPT !.read = Append(c.read, @)]
  BY DEF Coding!ReadElement, h, N, first
<1> QED
  BY <1>11, <1>12 DEF N, first

LEMMA SeqIsTuple ==
    ASSUME NEW V, NEW s \in Seq(V), NEW N, Len(s) = N
    PROVE  s = [j \in 1 .. N |-> s[j]]
  OBVIOUS

LEMMA SameLength ==
    ASSUME NEW m \in Nat, NEW n \in Nat, 1 .. m = 1 .. n
    PROVE  m = n
<1>1. ~(m < n)
  <2>1. m < n => n \in 1 .. n /\ n \notin 1 .. m
    OBVIOUS
  <2> QED
    BY <2>1
<1>2. ~(n < m)
  <2>1. n < m => m \in 1 .. m /\ m \notin 1 .. n
    OBVIOUS
  <2> QED
    BY <2>1
<1> QED
  BY <1>1, <1>2

LEMMA TupleLength ==
    ASSUME NEW V, NEW v \in Seq(V), NEW N \in Nat, v = [i \in 1 .. N |-> v[i]]
    PROVE  Len(v) = N
<1>1. DOMAIN [i \in 1 .. N |-> v[i]] = 1 .. N
  OBVIOUS
<1>2. DOMAIN v = 1 .. N
  BY <1>1
<1>3. DOMAIN v = 1 .. Len(v) /\ Len(v) \in Nat
  BY LenProperties
<1> QED
  BY <1>2, <1>3, SameLength

LEMMA ElementReads ==
    ASSUME NEW kinds \in Seq(ElementKinds), NEW V, Seq(Simple) \subseteq V, NEW c \in Cursors(V)
    PROVE  LET d == Coding!ReadElement(c, kinds)
           IN /\ d \in Cursors(V) /\ Keeps(c, d, Elements(kinds))
              /\ \A v \in Elements(kinds) : Reads(c, d, "element", Coding!WriteAll(kinds, v), v)
<1> DEFINE d == Coding!ReadElement(c, kinds)
           N == Len(kinds)
<1>1. N \in Nat /\ DOMAIN kinds = 1 .. N /\ \A n \in 1 .. N : kinds[n] \in SimpleKinds /\ kinds[n] # "late flag"
  <2>1. \A n \in 1 .. N : kinds[n] \in ElementKinds
    BY ElementOfSeq
  <2>2. N \in Nat /\ DOMAIN kinds = 1 .. N
    BY LenProperties
  <2> QED
    BY <2>1, <2>2 DEF ElementKinds
<1> HIDE DEF N
<1>0. N \in Nat /\ 0 \in 0 .. N /\ N \in 0 .. N /\ \A n \in 1 .. N : n \in 0 .. N /\ n - 1 \in 0 .. N
  <2>1. N \in Nat
    BY <1>1
  <2> QED
    BY <2>1
<1>2. ASSUME NEW v \in Elements(kinds)
      PROVE  /\ v \in Seq(Simple) /\ Len(v) = N /\ v = [i \in 1 .. N |-> v[i]]
             /\ \A n \in 1 .. N : v[n] \in Right(kinds[n])
  <2>1. v \in Seq(Simple) /\ v = [i \in 1 .. N |-> v[i]] /\ \A i \in 1 .. N : Coding!IsValue(kinds[i], v[i])
    BY <1>1 DEF Elements, Coding!AreValues, N
  <2>2. N \in Nat
    BY <1>1
  <2>3. Len(v) = N
    BY <2>1, <2>2, TupleLength
  <2>4. \A n \in 1 .. N : v[n] \in Simple
    BY <2>1, <2>3, ElementOfSeq
  <2> QED
    BY <2>1, <2>3, <2>4 DEF Right
<1>3. \A e \in Cursors(Simple) : \A n \in 1 .. N :
         /\ Keeps(e, Coding!ReadSimple(e, kinds[n]), Right(kinds[n]))
         /\ \A v \in Right(kinds[n]) :
               Reads(e, Coding!ReadSimple(e, kinds[n]), kinds[n], Coding!WriteSimple(kinds[n], v), v)
  BY <1>1, SimpleReads
<1>4. ASSUME NEW v \in Elements(kinds)
      PROVE  \E parts \in [1 .. N -> Bytes], f \in [0 .. N -> Bytes] :
               /\ \A n \in 1 .. N : parts[n] = Coding!WriteSimple(kinds[n], v[n])
               /\ JoinedUp(f, parts, N) /\ Coding!WriteAll(kinds, v) = f[N]
  <2> DEFINE parts == [i \in 1 .. N |-> Coding!WriteSimple(kinds[i], v[i])]
  <2>1. PICK e : e \in Cursors(Simple)
    <3>1. <<>> \in Seq(Simple)
      BY EmptySeq
    <3>2. [rest |-> <<>>, read |-> <<>>, ok |-> TRUE, valid |-> TRUE] \in Cursors(Simple)
      BY <3>1, BytesEmpty DEF Cursors
    <3> QED
      BY <3>2
  <2>2. \A n \in 1 .. N : Coding!WriteSimple(kinds[n], v[n]) \in Bytes
    BY <1>2, <1>3, <2>1 DEF Reads
  <2>3. parts \in [1 .. N -> Bytes]
    BY <2>2
  <2>4. Coding!WriteAll(kinds, v) = Coding!FlattenSeq(parts)
    BY <1>1 DEF Coding!WriteAll
  <2>5. \A n \in 1 .. N : parts[n] = Coding!WriteSimple(kinds[n], v[n])
    OBVIOUS
  <2> HIDE DEF parts
  <2>6. PICK f \in [0 .. N -> Bytes] : JoinedUp(f, parts, N) /\ Coding!FlattenSeq(parts) = f[N]
    BY <1>1, <2>3, FlattenWalks
  <2> QED
    BY <2>3, <2>4, <2>5, <2>6
<1>5. CASE ~c.ok
  <2>1. d = c
    BY <1>5 DEF Coding!ReadElement
  <2>2. \A v \in Elements(kinds) : Coding!WriteAll(kinds, v) \in Bytes
    <3> TAKE v \in Elements(kinds)
    <3>1. PICK f \in [0 .. N -> Bytes] : Coding!WriteAll(kinds, v) = f[N]
      BY <1>4
    <3> QED
      BY <1>0, <3>1
  <2> QED
    BY <1>5, <2>1, <2>2 DEF Keeps, Reads, ReadsWhole, ReadsCut
<1>6. CASE c.ok
  <2> DEFINE first == [c EXCEPT !.read = <<>>]
  <2>1. /\ first \in Cursors(Simple) /\ first.read = <<>>
        /\ first.rest = c.rest /\ first.ok = c.ok /\ first.valid = c.valid
    BY Emptied
  <2>2. PICK h : ElementWalk(first, kinds, h) /\ d = [h[N] EXCEPT !.read = Append(c.read, @)]
    BY <1>6, ElementWalks DEF N
  <2> HIDE DEF first, d
  <2>3. /\ h \in [0 .. N -> Cursors(Simple)] /\ h[0] = first
        /\ \A n \in 1 .. N : h[n] = Coding!ReadSimple(h[n - 1], kinds[n])
    BY <2>2 DEF ElementWalk, N
  <2>4. h[N] \in Cursors(Simple) /\ h[N].read \in V
    <3>1. h[N] \in Cursors(Simple)
      BY <1>0, <2>3
    <3> QED
      BY <3>1, CursorFields
  <2>5. /\ d \in Cursors(V) /\ d.read = Append(c.read, h[N].read)
        /\ d.rest = h[N].rest /\ d.ok = h[N].ok /\ d.valid = h[N].valid
    BY <2>2, <2>4, Wrapped
  <2>6. \A n \in 1 .. N : h[n - 1] \in Cursors(Simple)
    BY <1>0, <2>3
  <2>9. Walk(Simple, N, h)
    BY <1>0, <2>3 DEF Walk
  <2>7. Keeps(c, d, Elements(kinds))
    <3> DEFINE S == [n \in 1 .. N |-> Right(kinds[n])]
    <3>1. KeepsEach(Simple, N, h, S)
      BY <1>3, <2>3, <2>6, RightIsSimple DEF KeepsEach
    <3>2. \A n \in 1 .. N : S[n] = Right(kinds[n])
      OBVIOUS
    <3> HIDE DEF S
    <3>3. SUFFICES ASSUME d.ok, d.valid PROVE c.ok /\ c.valid /\ h[N].read \in Elements(kinds)
      BY <2>5 DEF Keeps
    <3>4. h[N].ok /\ h[N].valid /\ h[0].read = <<>>
      BY <2>1, <2>3, <2>5, <3>3
    <3>5. /\ h[0].ok /\ h[0].valid /\ h[N].read \in Seq(Simple) /\ Len(h[N].read) = N
          /\ \A i \in 1 .. N : h[N].read[i] \in S[i]
      BY <2>9, <3>1, <3>4, WalkKeeps
    <3>6. Coding!AreValues(kinds, h[N].read)
      <4>1. h[N].read = [i \in 1 .. N |-> h[N].read[i]]
        BY <3>5, SeqIsTuple, Zenon
      <4>2. \A i \in 1 .. N : Coding!IsValue(kinds[i], h[N].read[i])
        BY <3>2, <3>5 DEF Right
      <4> QED
        BY <1>1, <4>1, <4>2 DEF Coding!AreValues, N
    <3> QED
      BY <2>1, <2>3, <3>5, <3>6 DEF Elements
  <2>8. ASSUME NEW v \in Elements(kinds)
        PROVE  Reads(c, d, "element", Coding!WriteAll(kinds, v), v)
    <3>1. PICK parts \in [1 .. N -> Bytes], f \in [0 .. N -> Bytes] :
             /\ \A n \in 1 .. N : parts[n] = Coding!WriteSimple(kinds[n], v[n])
             /\ JoinedUp(f, parts, N) /\ Coding!WriteAll(kinds, v) = f[N]
      BY <1>4
    <3>2. f[N] \in Bytes /\ InParts(N, parts, f)
      BY <1>0, <3>1 DEF InParts
    <3>3. ReadsEach(N, h, parts, v) /\ CutsEach(N, h, parts)
      <4>1. \A n \in 1 .. N : Reads(h[n - 1], h[n], kinds[n], parts[n], v[n])
        BY <1>2, <1>3, <2>3, <2>6, <3>1
      <4> QED
        BY <1>1, <4>1 DEF Reads, ReadsEach, CutsEach
    <3>4. ReadsWhole(c, d, f[N], v)
      <4>1. SUFFICES ASSUME NEW tail \in Bytes, c.rest = f[N] \o tail
                     PROVE  d.rest = tail /\ d.read = Append(c.read, v) /\ d.ok /\ d.valid = c.valid
        BY DEF ReadsWhole
      <4>2. h[0].ok /\ h[0].read = <<>> /\ h[0].rest = f[N] \o tail /\ tail \in Bytes
        BY <1>6, <2>1, <2>3, <4>1
      <4>3. v \in Seq(Simple) /\ Len(v) = N
        BY <1>2
      <4>4. ToRead(Simple, N, v, h, f, tail)
        BY <4>2, <4>3 DEF ToRead
      <4>5. HasRead(N, v, h, tail)
        BY <2>9, <3>2, <3>3, <4>4, WalkReads
      <4>6. h[N].rest = tail /\ h[N].read = v /\ h[N].ok /\ h[N].valid = h[0].valid
        BY <4>5 DEF HasRead
      <4> QED
        BY <2>1, <2>3, <2>5, <4>6
    <3>5. ReadsCut(c, d, f[N])
      <4>1. SUFFICES ASSUME Cut(c.rest, f[N]) PROVE ~d.ok
        BY <1>6 DEF ReadsCut
      <4>2. Cut(h[0].rest, f[N])
        BY <2>1, <2>3, <4>1
      <4>3. ~h[N].ok
        BY <2>9, <3>2, <3>3, <4>2, WalkIsCut
      <4> QED
        BY <2>5, <4>3
    <3> QED
      BY <3>1, <3>2, <3>4, <3>5 DEF Reads
  <2> QED
    BY <2>5, <2>7, <2>8 DEF d
<1> QED
  BY <1>5, <1>6

(* The count of a list: one cell, and a number whatever it is. *)
Counts(c, counted) ==
    /\ counted \in Cursors(Simple)
    /\ c.rest = <<>> => ~counted.ok
    /\ c.rest # <<>> => /\ counted.ok /\ counted.valid = c.valid
                        /\ Head(counted.read) = Head(c.rest) /\ Head(c.rest) \in Nat
                        /\ \A k \in Nat, r \in Bytes : c.rest = <<k>> \o r => counted.rest = r

LEMMA CountReads ==
    ASSUME NEW V, NEW c \in Cursors(V), c.ok
    PROVE  Counts(c, Coding!ReadSimple([c EXCEPT !.read = <<>>], "number"))
<1> DEFINE e == [c EXCEPT !.read = <<>>]
           kind == "number"
           counted == Coding!ReadSimple(e, kind)
<1>1. /\ e \in Cursors(Simple) /\ e.read = <<>>
      /\ e.rest = c.rest /\ e.ok = c.ok /\ e.valid = c.valid
  BY Emptied
<1> HIDE DEF e
<1>2. kind \in NumberKinds /\ kind \in SimpleKinds /\ kind \notin {"flag", "late flag"} /\ kind # "string"
      /\ kind # "status"
  BY DEF NumberKinds, SimpleKinds
<1> HIDE DEF kind
<1>3. counted = Coding!ReadNumber(e, kind)
  BY <1>1, <1>2 DEF Coding!ReadSimple
<1>4. counted \in Cursors(Simple)
  BY <1>1, <1>2, SimpleReads
<1> HIDE DEF counted
<1>5. CASE c.rest = <<>>
  <2>1. counted = Coding!Thrown(e)
    BY <1>1, <1>3, <1>5 DEF Coding!ReadNumber
  <2>2. ~counted.ok
    BY <1>1, <2>1, ThrownFields
  <2> QED
    BY <1>4, <1>5, <2>2 DEF Counts, counted, e, kind
<1>6. CASE c.rest # <<>>
  <2> DEFINE k == Head(c.rest)
  <2>1. c.rest \in Seq(Nat)
    BY CursorFields DEF Bytes
  <2>2. k \in Nat /\ 1 <= Len(c.rest)
    BY <1>6, <2>1, HeadTailProperties, EmptySeq
  <2> HIDE DEF k
  <2>3. k \in Right(kind)
    <3>1. Coding!InRange(kind, k)
      BY DEF kind, Coding!InRange, Coding!Highest
    <3>2. k \in Simple
      BY <2>2 DEF Simple
    <3> QED
      BY <1>2, <2>2, <3>1, <3>2, NumberValues DEF Right
  <2>4. counted = Coding!Took(e, 1, k, TRUE)
    BY <1>1, <1>2, <1>3, <1>6, <2>3, NumberTakes DEF k
  <2>5. IsTaken(Simple, e, Coding!Took(e, 1, k, TRUE), 1, k, TRUE)
    BY <1>1, <2>2, TookFields DEF Simple
  <2>6. /\ counted.ok /\ counted.valid = (e.valid /\ TRUE)
        /\ counted.read = Append(e.read, k) /\ counted.rest = SubSeq(e.rest, 1 + 1, Len(e.rest))
    BY <2>4, <2>5 DEF IsTaken
  <2>7. Head(counted.read) = k
    BY <1>1, <2>6
  <2>8. counted.valid = c.valid
    BY <1>1, <2>6, CursorFields
  <2>9. ASSUME NEW j \in Nat, NEW r \in Bytes, c.rest = <<j>> \o r PROVE counted.rest = r
    <3>1. SubSeq(<<j>> \o r, 1 + 1, Len(<<j>> \o r)) = r
      BY CellPiece
    <3> QED
      BY <1>1, <2>6, <2>9, <3>1
  <2> QED
    BY <1>4, <1>6, <2>2, <2>6, <2>7, <2>8, <2>9 DEF Counts, counted, e, kind, k
<1> QED
  BY <1>5, <1>6

-----------------------------------------------------------------------------
Rows == Seq(Simple)

(* The steps of the walk through a list of k elements. *)
ListWalk(first, kinds, k, h) ==
    /\ h \in [0 .. k -> Cursors(Rows)]
    /\ h[0] = first
    /\ \A n \in 1 .. k : h[n] = Coding!ReadElement(h[n - 1], kinds)

IsCounted(c, counted, k) ==
    /\ counted = Coding!ReadSimple([c EXCEPT !.read = <<>>], "number")
    /\ c.ok /\ counted.ok /\ counted \in Cursors(Simple) /\ k = Head(counted.read)

LEMMA ListWalks ==
    ASSUME NEW kinds \in Seq(ElementKinds), NEW V, NEW c \in Cursors(V),
           NEW counted, NEW k \in Nat, IsCounted(c, counted, k)
    PROVE  \E h : /\ ListWalk([counted EXCEPT !.read = <<>>], kinds, k, h)
                  /\ Coding!ReadList(c, kinds) = [h[k] EXCEPT !.read = Append(c.read, @)]
<1> DEFINE first == [counted EXCEPT !.read = <<>>]
           D == Cursors(Rows)
           G == [x \in D \X (1 .. k) |-> Coding!ReadElement(x[1], kinds)]
           Follows(u) == u = [n \in 0 .. k |-> IF n = 0 THEN first ELSE Coding!ReadElement(u[n - 1], kinds)]
           h == CHOOSE u : Follows(u)
<1>2. first \in D
  BY Emptied DEF IsCounted
<1> HIDE DEF first
<1>3. \A e \in D : Coding!ReadElement(e, kinds) \in D
  BY ElementReads DEF Rows
<1>4. G \in [D \X (1 .. k) -> D]
  BY <1>3
<1>5. PICK u \in [0 .. k -> D] : Walked(u, first, k, G)
  <2> HIDE DEF G, D
  <2> QED
    BY <1>2, <1>4, WalkExists
<1>6. Follows(u)
  <2>1. \A n \in 1 .. k : u[n] = Coding!ReadElement(u[n - 1], kinds)
    <3> TAKE n \in 1 .. k
    <3>1. n - 1 \in 0 .. k
      OBVIOUS
    <3>2. <<u[n - 1], n>> \in D \X (1 .. k)
      BY <1>5, <3>1
    <3>3. G[<<u[n - 1], n>>] = Coding!ReadElement(u[n - 1], kinds)
      BY <3>2
    <3> HIDE DEF G
    <3> QED
      BY <1>5, <3>3 DEF Walked
  <2>2. \A n \in 0 .. k : n # 0 => n \in 1 .. k
    OBVIOUS
  <2> HIDE DEF G
  <2>3. \A n \in 0 .. k : u[n] = IF n = 0 THEN first ELSE Coding!ReadElement(u[n - 1], kinds)
    BY <1>5, <2>1, <2>2 DEF Walked
  <2> QED
    BY <1>5, <2>3
<1>7. Follows(h)
  BY <1>6
<1>8. h[0] = first /\ \A n \in 1 .. k : h[n] = Coding!ReadElement(h[n - 1], kinds)
  <2> HIDE DEF h
  <2> QED
    BY <1>7
<1>9. DOMAIN h = 0 .. k /\ h = [n \in 0 .. k |-> h[n]]
  <2> HIDE DEF h
  <2> QED
    BY <1>7
<1> HIDE DEF h
<1>10. \A n \in 0 .. k : h[n] \in D
  <2> DEFINE T == {n \in 0 .. k : h[n] \in D}
  <2>1. 0 \in T
    BY <1>2, <1>8
  <2>2. ASSUME NEW n \in 1 .. k, n - 1 \in T PROVE n \in T
    <3>1. n \in 0 .. k
      OBVIOUS
    <3>2. h[n] \in D
      BY <1>3, <1>8, <2>2
    <3> QED
      BY <3>1, <3>2
  <2> HIDE DEF T
  <2>3. \A n \in 0 .. k : n \in T
    BY <2>1, <2>2, WalkInduction
  <2> QED
    BY <2>3 DEF T
<1>11. ListWalk(first, kinds, k, h)
  <2>1. h \in [0 .. k -> D]
    BY <1>9, <1>10
  <2> QED
    BY <1>8, <2>1 DEF ListWalk
<1>12. Coding!ReadList(c, kinds) = [h[k] EXCEPT !.read = Append(c.read, @)]
  BY DEF Coding!ReadList, h, first, IsCounted
<1> QED
  BY <1>11, <1>12 DEF first

ListsOf(kinds) == {v \in Seq(Rows) : Coding!IsList(kinds, v)}
WriteList(kinds, v) == <<Len(v)>> \o Coding!FlattenSeq([i \in DOMAIN v |-> Coding!WriteAll(kinds, v[i])])

(* A list is its count and its elements. *)
ListParts(kinds, v, N, parts, f) ==
    /\ N = Len(v) /\ N \in Nat /\ InParts(N, parts, f) /\ f[N] \in Bytes
    /\ \A n \in 1 .. N : v[n] \in Elements(kinds) /\ parts[n] = Coding!WriteAll(kinds, v[n])
    /\ <<N>> \in Bytes /\ WriteList(kinds, v) = <<N>> \o f[N] /\ WriteList(kinds, v) \in Bytes

LEMMA ListIsWritten ==
    ASSUME NEW kinds \in Seq(ElementKinds), NEW v \in ListsOf(kinds)
    PROVE  \E N, parts, f : ListParts(kinds, v, N, parts, f)
<1> DEFINE N == Len(v)
           parts == [n \in 1 .. N |-> Coding!WriteAll(kinds, v[n])]
<1>1. v \in Seq(Rows) /\ Coding!IsList(kinds, v)
  BY DEF ListsOf
<1>2. N \in Nat /\ DOMAIN v = 1 .. N /\ \A n \in 1 .. N : v[n] \in Seq(Simple)
  <2>1. N \in Nat /\ DOMAIN v = 1 .. N
    BY <1>1, LenProperties
  <2>2. \A n \in 1 .. N : v[n] \in Rows
    BY <1>1, ElementOfSeq
  <2> QED
    BY <2>1, <2>2 DEF Rows
<1>3. \A n \in 1 .. N : v[n] \in Elements(kinds)
  <2>1. \A n \in 1 .. N : Coding!AreValues(kinds, v[n])
    BY <1>1 DEF Coding!IsList
  <2> HIDE DEF N
  <2> QED
    BY <1>2, <2>1 DEF Elements
<1>4. \A n \in 1 .. N : Coding!WriteAll(kinds, v[n]) \in Bytes
  <2>1. PICK e : e \in Cursors(Rows)
    <3>1. <<>> \in Seq(Rows)
      BY EmptySeq
    <3>2. [rest |-> <<>>, read |-> <<>>, ok |-> TRUE, valid |-> TRUE] \in Cursors(Rows)
      BY <3>1, BytesEmpty DEF Cursors
    <3> QED
      BY <3>2
  <2> HIDE DEF N
  <2>2. \A w \in Elements(kinds) : Coding!WriteAll(kinds, w) \in Bytes
    BY <2>1, ElementReads DEF Reads, Rows
  <2> QED
    BY <1>3, <2>2
<1>5. parts \in [1 .. N -> Bytes]
  BY <1>4
<1>6. WriteList(kinds, v) = <<N>> \o Coding!FlattenSeq(parts)
  BY <1>2 DEF WriteList
<1>7. \A n \in 1 .. N : parts[n] = Coding!WriteAll(kinds, v[n])
  OBVIOUS
<1> HIDE DEF parts, N
<1>8. PICK f \in [0 .. N -> Bytes] : JoinedUp(f, parts, N) /\ Coding!FlattenSeq(parts) = f[N]
  BY <1>2, <1>5, FlattenWalks
<1>9. f[N] \in Bytes /\ <<N>> \in Bytes
  <2>1. N \in 0 .. N
    BY <1>2
  <2> QED
    BY <1>2, <1>8, <2>1, CellPiece, BytesEmpty
<1>10. <<N>> \o f[N] \in Bytes
  BY <1>9, BytesJoined
<1>11. InParts(N, parts, f)
  BY <1>5, <1>8 DEF InParts
<1>12. ListParts(kinds, v, N, parts, f)
  BY <1>2, <1>3, <1>6, <1>7, <1>8, <1>9, <1>10, <1>11 DEF ListParts, N
<1> QED
  BY <1>12

(* What the walk of a list reads, once its count was read. *)
LEMMA ElementsRead ==
    ASSUME NEW kinds \in Seq(ElementKinds), NEW k \in Nat, NEW first, NEW h, ListWalk(first, kinds, k, h)
    PROVE  /\ Walk(Rows, k, h)
           /\ KeepsEach(Rows, k, h, [n \in 1 .. k |-> Elements(kinds)])
           /\ \A v, parts, f : ListParts(kinds, v, k, parts, f)
                                 => ReadsEach(k, h, parts, v) /\ CutsEach(k, h, parts)
<1>1. /\ h \in [0 .. k -> Cursors(Rows)]
      /\ \A n \in 1 .. k : h[n] = Coding!ReadElement(h[n - 1], kinds)
  BY DEF ListWalk
<1>2. \A n \in 1 .. k : h[n - 1] \in Cursors(Rows)
  <2>1. \A n \in 1 .. k : n - 1 \in 0 .. k
    OBVIOUS
  <2> QED
    BY <1>1, <2>1
<1>3. \A e \in Cursors(Rows) :
         /\ Keeps(e, Coding!ReadElement(e, kinds), Elements(kinds))
         /\ \A v \in Elements(kinds) :
               Reads(e, Coding!ReadElement(e, kinds), "element", Coding!WriteAll(kinds, v), v)
  BY ElementReads DEF Rows
<1>4. Elements(kinds) \subseteq Rows
  BY DEF Elements, Rows
<1>5. KeepsEach(Rows, k, h, [n \in 1 .. k |-> Elements(kinds)])
  BY <1>1, <1>2, <1>3, <1>4 DEF KeepsEach
<1>6. ASSUME NEW v, NEW parts, NEW f, ListParts(kinds, v, k, parts, f)
      PROVE  ReadsEach(k, h, parts, v) /\ CutsEach(k, h, parts)
  <2>1. \A n \in 1 .. k : v[n] \in Elements(kinds) /\ parts[n] = Coding!WriteAll(kinds, v[n])
    BY <1>6 DEF ListParts
  <2>2. \A n \in 1 .. k : Reads(h[n - 1], h[n], "element", parts[n], v[n])
    BY <1>1, <1>2, <1>3, <2>1
  <2> QED
    BY <2>2 DEF Reads, ReadsEach, CutsEach
<1> QED
  BY <1>1, <1>5, <1>6 DEF Walk

LEMMA ListReads ==
    ASSUME NEW kinds \in Seq(ElementKinds), NEW V, Seq(Rows) \subseteq V, NEW c \in Cursors(V)
    PROVE  LET d == Coding!ReadList(c, kinds)
           IN /\ d \in Cursors(V) /\ Keeps(c, d, ListsOf(kinds))
              /\ \A v \in ListsOf(kinds) : Reads(c, d, "list", WriteList(kinds, v), v)
<1> DEFINE d == Coding!ReadList(c, kinds)
           counted == Coding!ReadSimple([c EXCEPT !.read = <<>>], "number")
           k == Head(counted.read)
           first == [counted EXCEPT !.read = <<>>]
<1>1. \A v \in ListsOf(kinds) : WriteList(kinds, v) \in Bytes
  BY ListIsWritten DEF ListParts
<1>2. ASSUME ~c.ok PROVE d = Coding!Thrown(c)
  BY <1>2 DEF Coding!ReadList
<1>3. ASSUME ~counted.ok PROVE d = Coding!Thrown(c)
  BY <1>3 DEF Coding!ReadList
<1>4. c.ok => Counts(c, counted)
  BY CountReads
<1> HIDE DEF d, counted
<1>5. CASE ~c.ok
  <2>1. d \in Cursors(V) /\ ~d.ok
    BY <1>2, <1>5, ThrownFields
  <2> QED
    BY <1>1, <1>5, <2>1 DEF Keeps, Reads, ReadsWhole, ReadsCut, d
<1>6. CASE c.ok /\ c.rest = <<>>
  <2>1. ~counted.ok
    BY <1>4, <1>6 DEF Counts
  <2>2. d \in Cursors(V) /\ ~d.ok
    BY <1>3, <2>1, ThrownFields
  <2>3. ASSUME NEW v \in ListsOf(kinds) PROVE ReadsWhole(c, d, WriteList(kinds, v), v)
    <3>1. PICK N, parts, f : ListParts(kinds, v, N, parts, f)
      BY ListIsWritten
    <3>2. N \in Nat /\ f[N] \in Bytes /\ <<N>> \in Bytes /\ WriteList(kinds, v) = <<N>> \o f[N]
      BY <3>1 DEF ListParts
    <3>3. SUFFICES ASSUME NEW tail \in Bytes, c.rest = (<<N>> \o f[N]) \o tail PROVE FALSE
      BY <3>2 DEF ReadsWhole
    <3>4. c.rest = <<N>> \o (f[N] \o tail) /\ f[N] \o tail \in Bytes
      <4>1. (<<N>> \o f[N]) \o tail = <<N>> \o (f[N] \o tail)
        BY <3>2, <3>3, BytesAssociate, Zenon
      <4>2. f[N] \o tail \in Bytes
        BY <3>2, <3>3, BytesJoined, Zenon
      <4> QED
        BY <3>3, <4>1, <4>2
    <3> QED
      BY <1>6, <3>2, <3>4, CellPiece
  <2> QED
    BY <1>1, <1>6, <2>2, <2>3 DEF Keeps, Reads, ReadsCut, d
<1>7. CASE c.ok /\ c.rest # <<>>
  <2>1. /\ counted \in Cursors(Simple) /\ counted.ok /\ counted.valid = c.valid
        /\ k = Head(c.rest) /\ k \in Nat
        /\ \A j \in Nat, r \in Bytes : c.rest = <<j>> \o r => counted.rest = r
    BY <1>4, <1>7 DEF Counts
  <2>2. IsCounted(c, counted, k)
    BY <1>7, <2>1 DEF IsCounted, counted
  <2>3. /\ first \in Cursors(Rows) /\ first.read = <<>>
        /\ first.rest = counted.rest /\ first.ok = counted.ok /\ first.valid = counted.valid
    BY <2>1, Emptied
  <2> HIDE DEF k
  <2>4. PICK h : ListWalk(first, kinds, k, h) /\ d = [h[k] EXCEPT !.read = Append(c.read, @)]
    BY <2>1, <2>2, ListWalks DEF d
  <2> HIDE DEF first
  <2>5. /\ Walk(Rows, k, h)
        /\ KeepsEach(Rows, k, h, [n \in 1 .. k |-> Elements(kinds)])
        /\ \A v, parts, f : ListParts(kinds, v, k, parts, f)
                              => ReadsEach(k, h, parts, v) /\ CutsEach(k, h, parts)
    BY <2>1, <2>4, ElementsRead
  <2>6. h[0] = first /\ h[k] \in Cursors(Rows)
    <3>1. k \in 0 .. k
      BY <2>1
    <3> QED
      BY <2>4, <3>1 DEF ListWalk
  <2>7. h[k].read \in V
    BY <2>6, CursorFields
  <2>8. /\ d \in Cursors(V) /\ d.read = Append(c.read, h[k].read)
        /\ d.rest = h[k].rest /\ d.ok = h[k].ok /\ d.valid = h[k].valid
    BY <2>4, <2>6, <2>7, Wrapped
  <2>9. h[0].ok /\ h[0].read = <<>> /\ h[0].rest = counted.rest /\ h[0].valid = c.valid
    BY <2>1, <2>3, <2>6
  <2>10. Keeps(c, d, ListsOf(kinds))
    <3> DEFINE S == [n \in 1 .. k |-> Elements(kinds)]
    <3>1. \A n \in 1 .. k : S[n] = Elements(kinds)
      OBVIOUS
    <3>2. KeepsEach(Rows, k, h, S)
      BY <2>5
    <3> HIDE DEF S
    <3>3. SUFFICES ASSUME d.ok, d.valid PROVE c.valid /\ h[k].read \in ListsOf(kinds)
      BY <1>7, <2>8 DEF Keeps
    <3>4. h[k].ok /\ h[k].valid
      BY <2>8, <3>3
    <3>5. /\ h[0].valid /\ h[k].read \in Seq(Rows) /\ Len(h[k].read) = k
          /\ \A i \in 1 .. k : h[k].read[i] \in S[i]
      BY <2>5, <2>9, <3>2, <3>4, WalkKeeps
    <3>6. \A i \in 1 .. k : Coding!AreValues(kinds, h[k].read[i])
      BY <3>1, <3>5 DEF Elements
    <3>7. h[k].read = [j \in 1 .. k |-> h[k].read[j]]
      BY <3>5, SeqIsTuple, Zenon
    <3>8. Coding!IsList(kinds, h[k].read)
      BY <2>1, <3>5, <3>6, <3>7 DEF Coding!IsList
    <3> QED
      BY <2>9, <3>5, <3>8 DEF ListsOf
  <2>11. ASSUME NEW v \in ListsOf(kinds) PROVE Reads(c, d, "list", WriteList(kinds, v), v)
    <3>1. PICK N, parts, f : ListParts(kinds, v, N, parts, f)
      BY ListIsWritten
    <3>2. /\ N \in Nat /\ f[N] \in Bytes /\ <<N>> \in Bytes /\ WriteList(kinds, v) = <<N>> \o f[N]
          /\ WriteList(kinds, v) \in Bytes /\ N = Len(v) /\ InParts(N, parts, f)
      BY <3>1 DEF ListParts
    <3>3. v \in Seq(Rows)
      BY DEF ListsOf
    <3>4. ASSUME NEW r \in Bytes, c.rest = <<N>> \o r
          PROVE  k = N /\ h[0].rest = r
      <4>1. Head(<<N>> \o r) = N
        BY <3>2, CellPiece
      <4> QED
        BY <2>1, <2>9, <3>2, <3>4, <4>1
    <3>5. k = N => Walk(Rows, N, h) /\ ReadsEach(N, h, parts, v) /\ CutsEach(N, h, parts)
      BY <2>5, <3>1
    <3>6. ReadsWhole(c, d, WriteList(kinds, v), v)
      <4>1. SUFFICES ASSUME NEW tail \in Bytes, c.rest = (<<N>> \o f[N]) \o tail
                     PROVE  d.rest = tail /\ d.read = Append(c.read, v) /\ d.ok /\ d.valid = c.valid
        BY <3>2 DEF ReadsWhole
      <4>2. c.rest = <<N>> \o (f[N] \o tail) /\ f[N] \o tail \in Bytes /\ tail \in Bytes
        <5>1. (<<N>> \o f[N]) \o tail = <<N>> \o (f[N] \o tail)
          BY <3>2, <4>1, BytesAssociate, Zenon
        <5>2. f[N] \o tail \in Bytes /\ tail \in Bytes
          BY <3>2, <4>1, BytesJoined, Zenon
        <5> QED
          BY <4>1, <5>1, <5>2
      <4>3. k = N /\ h[0].rest = f[N] \o tail
        BY <3>4, <4>2
      <4>4. ToRead(Rows, N, v, h, f, tail)
        BY <2>9, <3>2, <3>3, <4>2, <4>3 DEF ToRead
      <4>5. HasRead(N, v, h, tail)
        BY <3>2, <3>5, <4>3, <4>4, WalkReads
      <4>6. h[k].rest = tail /\ h[k].read = v /\ h[k].ok /\ h[k].valid = h[0].valid
        BY <4>3, <4>5 DEF HasRead
      <4> QED
        BY <2>8, <2>9, <4>6
    <3>7. ReadsCut(c, d, WriteList(kinds, v))
      <4>1. SUFFICES ASSUME Cut(c.rest, <<N>> \o f[N]) PROVE ~d.ok
        BY <1>7, <3>2 DEF ReadsCut
      <4>2. PICK r \in Bytes : c.rest = <<N>> \o r /\ Cut(r, f[N])
        <5>1. c.rest \in Bytes
          BY CursorFields
        <5> QED
          BY <1>7, <3>2, <4>1, <5>1, CellCut
      <4>3. k = N /\ h[0].rest = r
        BY <3>4, <4>2
      <4>4. Cut(h[0].rest, f[N])
        BY <4>2, <4>3
      <4>5. ~h[N].ok
        BY <3>2, <3>5, <4>3, <4>4, WalkIsCut
      <4> QED
        BY <2>8, <4>3, <4>5
    <3> QED
      BY <3>2, <3>6, <3>7 DEF Reads
  <2> QED
    BY <2>8, <2>10, <2>11 DEF d
<1> QED
  BY <1>5, <1>6, <1>7

FieldKinds == SimpleKinds \cup {"disk", "adapter", "result"}
FieldValue == Simple \cup Seq(Rows)
RightField(kind) == IF kind \notin DOMAIN Coding!Lists THEN Right(kind) ELSE ListsOf(Coding!Lists[kind])

LEMMA ValueIsSimple ==
    ASSUME NEW kind \in SimpleKinds, NEW v, Coding!IsValue(kind, v)
    PROVE  v \in Right(kind)
<1>1. CASE kind = "string"
  BY <1>1 DEF Coding!IsValue, Right, Simple, Bytes
<1>2. CASE kind \in FlagKinds
  BY <1>2, FlagValues DEF Right, Simple
<1>3. CASE kind \in NumberKinds
  BY <1>3, NumberValues DEF Right, Simple
<1> QED
  BY <1>1, <1>2, <1>3 DEF SimpleKinds, FlagKinds, NumberKinds

LEMMA ListKinds ==
    ASSUME NEW kind \in DOMAIN Coding!Lists
    PROVE  Coding!Lists[kind] \in Seq(ElementKinds)
<1>1. "string" \in ElementKinds /\ "number" \in ElementKinds /\ "type" \in ElementKinds
      /\ "link" \in ElementKinds /\ "check" \in ElementKinds
  BY DEF ElementKinds, SimpleKinds
<1>2. Coding!Disk \in Seq(ElementKinds)
  BY <1>1 DEF Coding!Disk
<1>3. Coding!Adapter \in Seq(ElementKinds)
  BY <1>1 DEF Coding!Adapter
<1>4. Coding!Result \in Seq(ElementKinds)
  BY <1>1 DEF Coding!Result
<1>5. kind = "disk" \/ kind = "adapter" \/ kind = "result"
  BY DEF Coding!Lists
<1> QED
  BY <1>2, <1>3, <1>4, <1>5 DEF Coding!Lists

(* A tuple of values is a sequence. *)
LEMMA ListIsRows ==
    ASSUME NEW kinds \in Seq(ElementKinds), NEW v, Coding!IsList(kinds, v)
    PROVE  v \in ListsOf(kinds)
<1>1. Len(v) \in Nat /\ v = [j \in 1 .. Len(v) |-> v[j]]
      /\ \A j \in 1 .. Len(v) : Coding!AreValues(kinds, v[j])
  BY DEF Coding!IsList
<1>2. Len(kinds) \in Nat /\ DOMAIN kinds = 1 .. Len(kinds)
  BY LenProperties
<1>3. \A n \in 1 .. Len(kinds) : kinds[n] \in SimpleKinds
  <2>1. \A n \in 1 .. Len(kinds) : kinds[n] \in ElementKinds
    BY ElementOfSeq
  <2> QED
    BY <2>1 DEF ElementKinds
<1>4. ASSUME NEW w, Coding!AreValues(kinds, w) PROVE w \in Rows
  <2>1. w = [i \in 1 .. Len(kinds) |-> w[i]] /\ \A i \in 1 .. Len(kinds) : Coding!IsValue(kinds[i], w[i])
    BY <1>2, <1>4 DEF Coding!AreValues
  <2>2. \A i \in 1 .. Len(kinds) : w[i] \in Simple
    BY <1>3, <2>1, ValueIsSimple, RightIsSimple
  <2>3. w \in [1 .. Len(kinds) -> Simple]
    BY <2>1, <2>2
  <2> QED
    BY <1>2, <2>3 DEF Rows
<1>5. \A j \in 1 .. Len(v) : v[j] \in Rows
  BY <1>1, <1>4
<1>6. v \in [1 .. Len(v) -> Rows]
  BY <1>1, <1>5
<1>7. v \in Seq(Rows)
  BY <1>1, <1>6
<1> QED
  BY <1>7 DEF ListsOf

LEMMA FieldReads ==
    ASSUME NEW kind \in FieldKinds, NEW c \in Cursors(FieldValue)
    PROVE  LET d == Coding!ReadField(c, kind)
           IN /\ d \in Cursors(FieldValue) /\ Keeps(c, d, RightField(kind)) /\ RightField(kind) \subseteq FieldValue
              /\ \A v \in RightField(kind) : Reads(c, d, kind, Coding!WriteField(kind, v), v)
<1> DEFINE d == Coding!ReadField(c, kind)
<1>1. kind \in SimpleKinds <=> kind \notin DOMAIN Coding!Lists
  BY DEF Coding!Lists, FieldKinds, SimpleKinds
<1>2. CASE kind \in SimpleKinds
  <2>1. d = Coding!ReadSimple(c, kind) /\ RightField(kind) = Right(kind)
        /\ \A v : Coding!WriteField(kind, v) = Coding!WriteSimple(kind, v)
    BY <1>1, <1>2 DEF Coding!ReadField, Coding!WriteField, RightField
  <2>2. Simple \subseteq FieldValue /\ Right(kind) \subseteq FieldValue
    BY RightIsSimple DEF FieldValue
  <2> HIDE DEF d
  <2>3. /\ d \in Cursors(FieldValue) /\ Keeps(c, d, Right(kind))
        /\ \A v \in Right(kind) : Reads(c, d, kind, Coding!WriteSimple(kind, v), v)
    BY <1>2, <2>1, <2>2, SimpleReads
  <2> QED
    BY <2>1, <2>2, <2>3 DEF d
<1>3. CASE kind \in DOMAIN Coding!Lists
  <2> DEFINE kinds == Coding!Lists[kind]
  <2>1. d = Coding!ReadList(c, kinds) /\ RightField(kind) = ListsOf(kinds)
        /\ \A v : Coding!WriteField(kind, v) = WriteList(kinds, v)
    BY <1>3 DEF Coding!ReadField, Coding!WriteField, RightField, WriteList
  <2>2. kinds \in Seq(ElementKinds)
    BY <1>3, ListKinds
  <2> HIDE DEF d, kinds
  <2>3. Seq(Rows) \subseteq FieldValue /\ ListsOf(kinds) \subseteq FieldValue
    BY DEF FieldValue, ListsOf
  <2>4. /\ d \in Cursors(FieldValue) /\ Keeps(c, d, ListsOf(kinds))
        /\ \A v \in ListsOf(kinds) : Reads(c, d, "list", WriteList(kinds, v), v)
    BY <2>1, <2>2, <2>3, ListReads
  <2> QED
    BY <2>1, <2>3, <2>4 DEF d, Reads
<1> QED
  BY <1>1, <1>2, <1>3

(* The fields of a message: only the last of an announce may be missing. *)
WrittenKinds == FieldKinds \ {"late flag"}

LEMMA SchemaKinds ==
    ASSUME NEW t \in DOMAIN Coding!Schema
    PROVE  LET kinds == Coding!Schema[t]
           IN /\ kinds \in Seq(FieldKinds) /\ Len(kinds) # 0 /\ kinds[1] \in {"string", "number"}
              /\ t # "announce" => kinds \in Seq(WrittenKinds)
              /\ t = "announce" => Len(kinds) = 4 /\ kinds[4] = "late flag"
                                   /\ kinds[1] # "late flag" /\ kinds[2] # "late flag" /\ kinds[3] # "late flag"
<1>1. /\ "string" \in WrittenKinds /\ "number" \in WrittenKinds /\ "status" \in WrittenKinds
      /\ "flag" \in WrittenKinds /\ "disk" \in WrittenKinds /\ "adapter" \in WrittenKinds
      /\ "result" \in WrittenKinds
  BY DEF WrittenKinds, FieldKinds, SimpleKinds
<1>2. WrittenKinds \subseteq FieldKinds /\ "late flag" \in FieldKinds
  BY DEF WrittenKinds, FieldKinds, SimpleKinds
<1>3. ASSUME NEW s \in Seq(WrittenKinds) PROVE s \in Seq(FieldKinds)
  <2>1. \A i \in 1 .. Len(s) : s[i] \in WrittenKinds
    BY ElementOfSeq
  <2>2. Len(s) \in Nat /\ s = [i \in 1 .. Len(s) |-> s[i]]
    BY LenProperties
  <2>3. s \in [1 .. Len(s) -> FieldKinds]
    BY <1>2, <2>1, <2>2
  <2> QED
    BY <2>2, <2>3
<1>4. t = "announce" \/ t = "resource" \/ t = "bundle" \/ t = "report" \/ t = "command" \/ t = "result"
  BY DEF Coding!Schema
<1>5. CASE t = "announce"
  <2> DEFINE kind == "late flag"
  <2>1. "string" \in FieldKinds /\ "number" \in FieldKinds /\ kind \in FieldKinds
    BY <1>1, <1>2
  <2> HIDE DEF kind
  <2>3. <<"string", "string", "number", kind>> \in Seq(FieldKinds)
    BY <2>1
  <2> USE DEF kind
  <2>2. Coding!Schema[t] = <<"string", "string", "number", "late flag">>
    BY <1>5 DEF Coding!Schema
  <2>4. /\ Len(<<"string", "string", "number", "late flag">>) = 4
        /\ <<"string", "string", "number", "late flag">>[4] = "late flag"
        /\ <<"string", "string", "number", "late flag">>[1] = "string" /\ <<"string", "string", "number", "late flag">>[2] = "string"
        /\ <<"string", "string", "number", "late flag">>[3] = "number"
    OBVIOUS
  <2>5. Coding!Schema[t][1] # "late flag" /\ Coding!Schema[t][2] # "late flag" /\ Coding!Schema[t][3] # "late flag"
    BY <2>2, <2>4
  <2>6. Coding!Schema[t][4] = "late flag" /\ Coding!Schema[t][1] = "string"
    BY <2>2, <2>4
  <2>10. Len(Coding!Schema[t]) = 4
    BY <2>2, <2>4
  <2>7. Coding!Schema[t] \in Seq(FieldKinds)
    BY <2>2, <2>3
  <2>8. Len(Coding!Schema[t]) # 0
    BY <2>10
  <2>9. Coding!Schema[t][1] \in {"string", "number"}
    BY <2>6, Zenon
  <2> QED
    BY <1>5, <2>5, <2>6, <2>7, <2>8, <2>9, <2>10, Zenon
<1>6. CASE t = "resource"
  <2>1. <<"string", "number", "number", "number", "disk", "adapter">> \in Seq(WrittenKinds)
    BY <1>1
  <2>2. Coding!Schema[t] = <<"string", "number", "number", "number", "disk", "adapter">>
    BY <1>6 DEF Coding!Schema
  <2>3. Len(<<"string", "number", "number", "number", "disk", "adapter">>) # 0 /\ <<"string", "number", "number", "number", "disk", "adapter">>[1] \in {"string", "number"}
    OBVIOUS
  <2>4. t # "announce"
    BY <1>6
  <2> QED
    BY <1>3, <2>1, <2>2, <2>3, <2>4
<1>7. CASE t = "bundle"
  <2>1. <<"number", "string", "string">> \in Seq(WrittenKinds)
    BY <1>1
  <2>2. Coding!Schema[t] = <<"number", "string", "string">>
    BY <1>7 DEF Coding!Schema
  <2>3. Len(<<"number", "string", "string">>) # 0 /\ <<"number", "string", "string">>[1] \in {"string", "number"}
    OBVIOUS
  <2>4. t # "announce"
    BY <1>7
  <2> QED
    BY <1>3, <2>1, <2>2, <2>3, <2>4
<1>8. CASE t = "report"
  <2>1. <<"string", "number", "result">> \in Seq(WrittenKinds)
    BY <1>1
  <2>2. Coding!Schema[t] = <<"string", "number", "result">>
    BY <1>8 DEF Coding!Schema
  <2>3. Len(<<"string", "number", "result">>) # 0 /\ <<"string", "number", "result">>[1] \in {"string", "number"}
    OBVIOUS
  <2>4. t # "announce"
    BY <1>8
  <2> QED
    BY <1>3, <2>1, <2>2, <2>3, <2>4
<1>9. CASE t = "command"
  <2>1. <<"string", "string", "string", "string", "number">> \in Seq(WrittenKinds)
    BY <1>1
  <2>2. Coding!Schema[t] = <<"string", "string", "string", "string", "number">>
    BY <1>9 DEF Coding!Schema
  <2>3. Len(<<"string", "string", "string", "string", "number">>) # 0 /\ <<"string", "string", "string", "string", "number">>[1] \in {"string", "number"}
    OBVIOUS
  <2>4. t # "announce"
    BY <1>9
  <2> QED
    BY <1>3, <2>1, <2>2, <2>3, <2>4
<1>10. CASE t = "result"
  <2>1. <<"string", "string", "status", "string", "number", "flag", "flag", "string", "string",
          "string", "number">> \in Seq(WrittenKinds)
    BY <1>1
  <2>2. Coding!Schema[t] = <<"string", "string", "status", "string", "number", "flag", "flag", "string", "string",
          "string", "number">>
    BY <1>10 DEF Coding!Schema
  <2>3. Len(<<"string", "string", "status", "string", "number", "flag", "flag", "string", "string",
          "string", "number">>) # 0 /\ <<"string", "string", "status", "string", "number", "flag", "flag", "string", "string",
          "string", "number">>[1] \in {"string", "number"}
    OBVIOUS
  <2>4. t # "announce"
    BY <1>10
  <2> QED
    BY <1>3, <2>1, <2>2, <2>3, <2>4
<1> QED
  BY <1>4, <1>5, <1>6, <1>7, <1>8, <1>9, <1>10

(* A message and the pieces it is written as. *)
Pieces(t, m, N, parts, f) ==
    /\ N = Len(Coding!Schema[t]) /\ N \in Nat /\ InParts(N, parts, f)
    /\ \A n \in 0 .. N : f[n] \in Bytes
    /\ m \in Seq(FieldValue) /\ Len(m) = N
    /\ \A n \in 1 .. N : /\ m[n] \in RightField(Coding!Schema[t][n])
                         /\ parts[n] = Coding!WriteField(Coding!Schema[t][n], m[n])
    /\ Coding!encode(t, m) = f[N]

LEMMA FirstCursor ==
    ASSUME NEW bytes \in Bytes, NEW V
    PROVE  LET c == Coding!Cursor(bytes)
           IN c \in Cursors(V) /\ c.rest = bytes /\ c.read = <<>> /\ c.ok /\ c.valid
<1>1. <<>> \in Seq(V)
  BY EmptySeq
<1> QED
  BY <1>1 DEF Coding!Cursor, Cursors

LEMMA MessageFields ==
    ASSUME NEW t \in DOMAIN Coding!Schema, NEW m
    PROVE  Coding!IsMessage(t, m) <=>
             /\ m = [i \in 1 .. Len(Coding!Schema[t]) |-> m[i]]
             /\ \A i \in 1 .. Len(Coding!Schema[t]) : m[i] \in RightField(Coding!Schema[t][i])
<1> DEFINE kinds == Coding!Schema[t]
<1>1. kinds \in Seq(FieldKinds)
  BY SchemaKinds
<1> HIDE DEF kinds
<1>2. DOMAIN kinds = 1 .. Len(kinds) /\ \A i \in 1 .. Len(kinds) : kinds[i] \in FieldKinds
  BY <1>1, LenProperties, ElementOfSeq
<1>3. ASSUME NEW kind \in FieldKinds, NEW v
      PROVE  (IF kind \notin DOMAIN Coding!Lists THEN Coding!IsValue(kind, v)
              ELSE Coding!IsList(Coding!Lists[kind], v)) <=> v \in RightField(kind)
  <2>1. CASE kind \in DOMAIN Coding!Lists
    <3>1. Coding!Lists[kind] \in Seq(ElementKinds)
      BY <2>1, ListKinds
    <3>2. Coding!IsList(Coding!Lists[kind], v) <=> v \in ListsOf(Coding!Lists[kind])
      BY <3>1, ListIsRows DEF ListsOf
    <3> QED
      BY <2>1, <3>2 DEF RightField
  <2>2. CASE kind \notin DOMAIN Coding!Lists
    <3>1. kind \in SimpleKinds
      BY <2>2 DEF FieldKinds, Coding!Lists
    <3>2. Coding!IsValue(kind, v) <=> v \in Right(kind)
      BY <3>1, ValueIsSimple DEF Right
    <3> QED
      BY <2>2, <3>2 DEF RightField
  <2> QED
    BY <2>1, <2>2
<1>4. Coding!IsMessage(t, m) <=>
        /\ m = [i \in 1 .. Len(kinds) |-> m[i]]
        /\ \A i \in 1 .. Len(kinds) :
              IF kinds[i] \notin DOMAIN Coding!Lists THEN Coding!IsValue(kinds[i], m[i])
              ELSE Coding!IsList(Coding!Lists[kinds[i]], m[i])
  BY <1>2 DEF Coding!IsMessage, kinds
<1>5. \A i \in 1 .. Len(kinds) :
        (IF kinds[i] \notin DOMAIN Coding!Lists THEN Coding!IsValue(kinds[i], m[i])
         ELSE Coding!IsList(Coding!Lists[kinds[i]], m[i])) <=> m[i] \in RightField(kinds[i])
  BY <1>2, <1>3
<1> QED
  BY <1>4, <1>5 DEF kinds

LEMMA MessageIsWritten ==
    ASSUME NEW t \in DOMAIN Coding!Schema, NEW m, Coding!IsMessage(t, m)
    PROVE  \E N, parts, f : Pieces(t, m, N, parts, f)
<1> DEFINE kinds == Coding!Schema[t]
           N == Len(kinds)
           parts == [n \in 1 .. N |-> Coding!WriteField(kinds[n], m[n])]
<1>1. kinds \in Seq(FieldKinds)
  BY SchemaKinds
<1>2. m = [i \in 1 .. N |-> m[i]] /\ \A i \in 1 .. N : m[i] \in RightField(kinds[i])
  BY MessageFields
<1> HIDE DEF kinds
<1>3. N \in Nat /\ \A i \in 1 .. N : kinds[i] \in FieldKinds
  BY <1>1, LenProperties, ElementOfSeq
<1> HIDE DEF N
<1>4. PICK e : e \in Cursors(FieldValue)
  BY FirstCursor, BytesEmpty
<1>5. \A i \in 1 .. N : m[i] \in FieldValue /\ Coding!WriteField(kinds[i], m[i]) \in Bytes
  BY <1>2, <1>3, <1>4, FieldReads DEF Reads
<1>6. m \in Seq(FieldValue) /\ Len(m) = N /\ DOMAIN m = 1 .. N
  <2>1. m \in [1 .. N -> FieldValue]
    BY <1>2, <1>5
  <2> QED
    BY <1>3, <2>1
<1>7. parts \in [1 .. N -> Bytes]
  BY <1>5
<1>8. Coding!encode(t, m) = Coding!FlattenSeq(parts)
  BY <1>6 DEF Coding!encode, kinds
<1>9. \A n \in 1 .. N : parts[n] = Coding!WriteField(kinds[n], m[n])
  OBVIOUS
<1> HIDE DEF parts
<1>10. PICK f \in [0 .. N -> Bytes] : JoinedUp(f, parts, N) /\ Coding!FlattenSeq(parts) = f[N]
  BY <1>3, <1>7, FlattenWalks
<1>11. InParts(N, parts, f) /\ \A n \in 0 .. N : f[n] \in Bytes
  BY <1>7, <1>10 DEF InParts
<1>12. Coding!encode(t, m) = f[N]
  BY <1>8, <1>10
<1>13. Pieces(t, m, N, parts, f)
  BY <1>2, <1>3, <1>6, <1>9, <1>11, <1>12 DEF Pieces, kinds, N
<1> QED
  BY <1>13

-----------------------------------------------------------------------------
(* The steps of the walk through a message. *)
MessageWalk(t, bytes, N, h) ==
    /\ N = Len(Coding!Schema[t])
    /\ h \in [0 .. N -> Cursors(FieldValue)]
    /\ h[0] = Coding!Cursor(bytes)
    /\ \A n \in 1 .. N : h[n] = Coding!ReadField(h[n - 1], Coding!Schema[t][n])
    /\ Coding!read(t, bytes) = h[N]

LEMMA MessageWalks ==
    ASSUME NEW t \in DOMAIN Coding!Schema, NEW bytes \in Bytes
    PROVE  \E N, h : MessageWalk(t, bytes, N, h)
<1> DEFINE kinds == Coding!Schema[t]
           N == Len(kinds)
           first == Coding!Cursor(bytes)
           D == Cursors(FieldValue)
           G == [x \in D \X (1 .. N) |-> Coding!ReadField(x[1], kinds[x[2]])]
           Steps(u) == u = [n \in 0 .. N |-> IF n = 0 THEN first ELSE Coding!ReadField(u[n - 1], kinds[n])]
           h == CHOOSE u : Steps(u)
<1>1. kinds \in Seq(FieldKinds)
  BY SchemaKinds
<1>2. first \in D
  BY FirstCursor
<1>3. Coding!read(t, bytes) = h[N]
  BY DEF Coding!read
<1> HIDE DEF first, kinds
<1>4. N \in Nat /\ \A i \in 1 .. N : kinds[i] \in FieldKinds
  BY <1>1, LenProperties, ElementOfSeq
<1> HIDE DEF N
<1>5. \A e \in D : \A n \in 1 .. N : Coding!ReadField(e, kinds[n]) \in D
  BY <1>4, FieldReads
<1>6. G \in [D \X (1 .. N) -> D]
  BY <1>5
<1>7. PICK u \in [0 .. N -> D] : Walked(u, first, N, G)
  <2> HIDE DEF G, D
  <2> QED
    BY <1>2, <1>4, <1>6, WalkExists
<1>8. Steps(u)
  <2>1. \A n \in 1 .. N : u[n] = Coding!ReadField(u[n - 1], kinds[n])
    <3> TAKE n \in 1 .. N
    <3>1. n - 1 \in 0 .. N
      BY <1>4
    <3>2. <<u[n - 1], n>> \in D \X (1 .. N)
      BY <1>7, <3>1
    <3>3. G[<<u[n - 1], n>>] = Coding!ReadField(u[n - 1], kinds[n])
      BY <3>2
    <3> HIDE DEF G
    <3> QED
      BY <1>7, <3>3 DEF Walked
  <2>2. \A n \in 0 .. N : n # 0 => n \in 1 .. N
    BY <1>4
  <2> HIDE DEF G
  <2>3. \A n \in 0 .. N : u[n] = IF n = 0 THEN first ELSE Coding!ReadField(u[n - 1], kinds[n])
    BY <1>7, <2>1, <2>2 DEF Walked
  <2> QED
    BY <1>7, <2>3
<1>9. Steps(h)
  BY <1>8
<1>10. h[0] = first /\ \A n \in 1 .. N : h[n] = Coding!ReadField(h[n - 1], kinds[n])
  <2> HIDE DEF h
  <2> QED
    BY <1>4, <1>9
<1>11. DOMAIN h = 0 .. N /\ h = [n \in 0 .. N |-> h[n]]
  <2> HIDE DEF h
  <2> QED
    BY <1>9
<1> HIDE DEF h
<1>12. \A n \in 0 .. N : h[n] \in D
  <2> DEFINE T == {n \in 0 .. N : h[n] \in D}
  <2>1. 0 \in T
    BY <1>2, <1>4, <1>10
  <2>2. ASSUME NEW n \in 1 .. N, n - 1 \in T PROVE n \in T
    <3>1. n \in 0 .. N
      BY <1>4
    <3>2. h[n] \in D
      BY <1>5, <1>10, <2>2
    <3> QED
      BY <3>1, <3>2
  <2> HIDE DEF T
  <2>3. \A n \in 0 .. N : n \in T
    BY <1>4, <2>1, <2>2, WalkInduction
  <2> QED
    BY <2>3 DEF T
<1>13. h \in [0 .. N -> Cursors(FieldValue)]
  BY <1>11, <1>12
<1>14. MessageWalk(t, bytes, N, h)
  BY <1>3, <1>10, <1>13 DEF MessageWalk, N, kinds, first
<1> QED
  BY <1>14

(* What each step of the walk through a message does. *)
Stepped(t, bytes, N, h) ==
    /\ N \in Nat \ {0} /\ Walk(FieldValue, N, h)
    /\ h[0].ok /\ h[0].valid /\ h[0].read = <<>> /\ h[0].rest = bytes
    /\ KeepsEach(FieldValue, N, h, [n \in 1 .. N |-> RightField(Coding!Schema[t][n])])
    /\ \A m, parts, f : Pieces(t, m, N, parts, f) =>
          /\ ReadsEach(N, h, parts, m)
          /\ \A n \in 1 .. N : Coding!Schema[t][n] # "late flag" => ReadsCut(h[n - 1], h[n], parts[n])

LEMMA MessageSteps ==
    ASSUME NEW t \in DOMAIN Coding!Schema, NEW bytes \in Bytes, NEW N, NEW h, MessageWalk(t, bytes, N, h)
    PROVE  Stepped(t, bytes, N, h)
<1> DEFINE kinds == Coding!Schema[t]
<1>1. kinds \in Seq(FieldKinds) /\ Len(kinds) # 0
  BY SchemaKinds
<1>2. /\ N = Len(kinds) /\ h \in [0 .. N -> Cursors(FieldValue)]
      /\ h[0] = Coding!Cursor(bytes)
      /\ \A n \in 1 .. N : h[n] = Coding!ReadField(h[n - 1], kinds[n])
  BY DEF MessageWalk
<1> HIDE DEF kinds
<1>3. N \in Nat \ {0} /\ \A n \in 1 .. N : kinds[n] \in FieldKinds
  <2>1. Len(kinds) \in Nat /\ \A n \in 1 .. Len(kinds) : kinds[n] \in FieldKinds
    BY <1>1, LenProperties, ElementOfSeq
  <2> QED
    BY <1>1, <1>2, <2>1
<1>4. \A n \in 1 .. N : h[n - 1] \in Cursors(FieldValue)
  <2>1. \A n \in 1 .. N : n - 1 \in 0 .. N
    BY <1>3
  <2> QED
    BY <1>2, <2>1
<1>5. \A n \in 1 .. N :
        /\ Keeps(h[n - 1], h[n], RightField(kinds[n])) /\ RightField(kinds[n]) \subseteq FieldValue
        /\ \A v \in RightField(kinds[n]) :
              Reads(h[n - 1], h[n], kinds[n], Coding!WriteField(kinds[n], v), v)
  <2> TAKE n \in 1 .. N
  <2>1. kinds[n] \in FieldKinds /\ h[n - 1] \in Cursors(FieldValue) /\ h[n] = Coding!ReadField(h[n - 1], kinds[n])
    BY <1>2, <1>3, <1>4
  <2> QED
    BY <2>1, FieldReads
<1>6. Walk(FieldValue, N, h)
  BY <1>2, <1>3 DEF Walk
<1>7. h[0].ok /\ h[0].valid /\ h[0].read = <<>> /\ h[0].rest = bytes
  BY <1>2, FirstCursor
<1>8. KeepsEach(FieldValue, N, h, [n \in 1 .. N |-> RightField(kinds[n])])
  BY <1>5 DEF KeepsEach
<1>9. ASSUME NEW m, NEW parts, NEW f, Pieces(t, m, N, parts, f)
      PROVE  /\ ReadsEach(N, h, parts, m)
             /\ \A n \in 1 .. N : kinds[n] # "late flag" => ReadsCut(h[n - 1], h[n], parts[n])
  <2>1. \A n \in 1 .. N : m[n] \in RightField(kinds[n]) /\ parts[n] = Coding!WriteField(kinds[n], m[n])
    BY <1>9 DEF Pieces, kinds
  <2>2. \A n \in 1 .. N : Reads(h[n - 1], h[n], kinds[n], parts[n], m[n])
    BY <1>5, <2>1
  <2> QED
    BY <2>2 DEF Reads, ReadsEach
<1> QED
  BY <1>3, <1>6, <1>7, <1>8, <1>9 DEF kinds, Stepped

(* Whatever comes in, what is accepted is a message of the topic. *)
LEMMA MessageIsKept ==
    ASSUME NEW t \in DOMAIN Coding!Schema, NEW bytes \in Bytes, Coding!accepts(t, bytes)
    PROVE  Coding!IsMessage(t, Coding!read(t, bytes).read)
<1>1. PICK N, h : MessageWalk(t, bytes, N, h)
  BY MessageWalks
<1> DEFINE S == [n \in 1 .. N |-> RightField(Coding!Schema[t][n])]
<1>2. \A n \in 1 .. N : S[n] = RightField(Coding!Schema[t][n])
  OBVIOUS
<1>3. Walk(FieldValue, N, h) /\ h[0].read = <<>> /\ KeepsEach(FieldValue, N, h, S)
  BY <1>1, MessageSteps DEF Stepped
<1> HIDE DEF S
<1>4. Coding!read(t, bytes) = h[N] /\ N = Len(Coding!Schema[t])
  BY <1>1 DEF MessageWalk
<1>5. h[N].ok /\ h[N].valid
  BY <1>4 DEF Coding!accepts
<1>6. h[N].read \in Seq(FieldValue) /\ Len(h[N].read) = N /\ \A i \in 1 .. N : h[N].read[i] \in S[i]
  BY <1>3, <1>5, WalkKeeps
<1>7. h[N].read = [j \in 1 .. N |-> h[N].read[j]]
  BY <1>6, SeqIsTuple, Zenon
<1>8. \A i \in 1 .. N : h[N].read[i] \in RightField(Coding!Schema[t][i])
  BY <1>2, <1>6
<1> DEFINE m == h[N].read
<1>9. m = [i \in 1 .. Len(Coding!Schema[t]) |-> m[i]]
      /\ \A i \in 1 .. Len(Coding!Schema[t]) : m[i] \in RightField(Coding!Schema[t][i])
  BY <1>4, <1>7, <1>8
<1> HIDE DEF m
<1>10. Coding!IsMessage(t, m)
  BY <1>9, MessageFields
<1> QED
  BY <1>4, <1>10 DEF m

(* The first field is a cell at least. *)
LEMMA FirstPiece ==
    ASSUME NEW t \in DOMAIN Coding!Schema, NEW m, NEW N, NEW parts, NEW f, Pieces(t, m, N, parts, f)
    PROVE  /\ N \in Nat \ {0} /\ f[N] \in Bytes
           /\ \A n \in 1 .. N : f[n] # <<>>
<1> DEFINE kinds == Coding!Schema[t]
<1>1. N \in Nat \ {0} /\ N = Len(kinds)
  BY SchemaKinds DEF Pieces
<1>2. /\ parts \in [1 .. N -> Bytes] /\ f \in [0 .. N -> Bytes] /\ JoinedUp(f, parts, N)
      /\ \A n \in 0 .. N : f[n] \in Bytes
      /\ m[1] \in RightField(kinds[1]) /\ parts[1] = Coding!WriteField(kinds[1], m[1])
  BY <1>1 DEF Pieces, InParts
<1>3. kinds[1] \in {"string", "number"}
  BY SchemaKinds
<1> HIDE DEF kinds
<1>4. \E k \in Nat : \E b \in Bytes : parts[1] = <<k>> \o b
  <2> DEFINE kind == kinds[1]
             v == m[1]
  <2>1. RightField(kind) = Right(kind) /\ Coding!WriteField(kind, v) = Coding!WriteSimple(kind, v)
    BY <1>3 DEF RightField, Coding!WriteField, Coding!Lists
  <2> HIDE DEF kind, v
  <2>2. CASE kind = "string"
    <3>1. v \in Bytes
      BY <1>2, <2>1, <2>2 DEF Right, Coding!IsValue, Bytes, kind, v
    <3>2. <<Coding!End>> \in Bytes /\ Len(v) + 1 \in Nat
      BY <3>1, BytesJoined DEF Coding!End, Bytes
    <3>3. <<Len(v) + 1>> \in Bytes
      BY <3>2, CellPiece, BytesEmpty
    <3>4. v \o <<Coding!End>> \in Bytes
      BY <3>1, <3>2, BytesJoined
    <3>5. Coding!WriteSimple(kind, v) = (<<Len(v) + 1>> \o v) \o <<Coding!End>>
      BY <2>2 DEF Coding!WriteSimple
    <3>6. (<<Len(v) + 1>> \o v) \o <<Coding!End>> = <<Len(v) + 1>> \o (v \o <<Coding!End>>)
      BY <3>1, <3>2, <3>3, BytesAssociate
    <3> QED
      BY <1>2, <2>1, <3>2, <3>4, <3>5, <3>6 DEF kind, v
  <2>3. CASE kind = "number"
    <3>1. kind \in NumberKinds
      BY <2>3 DEF NumberKinds
    <3>2. v \in Nat /\ Coding!WriteSimple(kind, v) = <<v>>
      BY <1>2, <2>1, <3>1, NumberTakes DEF kind, v
    <3>3. <<v>> \in Bytes
      BY <3>2, CellPiece, BytesEmpty
    <3>4. <<v>> \o <<>> = <<v>>
      BY <3>3, BytesJoined
    <3> QED
      BY <1>2, <2>1, <3>2, <3>4, BytesEmpty DEF kind, v
  <2> QED
    BY <1>3, <2>2, <2>3 DEF kind
<1>5. parts[1] # <<>> /\ parts[1] \in Bytes
  <2>1. parts[1] \in Bytes
    BY <1>1, <1>2
  <2> QED
    BY <1>4, <2>1, CellPiece
<1>6. f[1] = parts[1]
  <2>1. f[1] = f[0] \o parts[1] /\ f[0] = <<>>
    <3>1. 1 \in 1 .. N /\ 1 - 1 = 0
      BY <1>1
    <3>2. f[1] = f[1 - 1] \o parts[1] /\ f[0] = <<>>
      BY <1>2, <3>1 DEF JoinedUp
    <3> QED
      BY <3>1, <3>2
  <2> QED
    BY <1>5, <2>1, BytesJoined
<1> DEFINE T == {n \in 0 .. N : n # 0 => Len(f[n]) # 0}
<1>7. 0 \in T
  BY <1>1
<1>8. ASSUME NEW n \in 1 .. N, n - 1 \in T PROVE n \in T
  <2>1. n \in 0 .. N /\ n - 1 \in 0 .. N
    BY <1>1
  <2>2. CASE n = 1
    BY <1>5, <1>6, <2>1, <2>2, EmptySeq DEF Bytes
  <2>3. CASE n # 1
    <3>1. f[n] = f[n - 1] \o parts[n] /\ f[n - 1] \in Bytes /\ parts[n] \in Bytes
      BY <1>2, <2>1 DEF JoinedUp
    <3>2. Len(f[n]) = Len(f[n - 1]) + Len(parts[n]) /\ Len(f[n - 1]) \in Nat /\ Len(parts[n]) \in Nat
      BY <3>1, BytesJoined
    <3>3. Len(f[n - 1]) # 0
      BY <1>8, <2>1, <2>3
    <3>4. \A a, b \in Nat : a # 0 => a + b # 0
      OBVIOUS
    <3>5. Len(f[n]) # 0
      BY <3>2, <3>3, <3>4, Zenon
    <3> QED
      BY <2>1, <3>5
  <2> QED
    BY <2>2, <2>3
<1> HIDE DEF T
<1>9. \A n \in 0 .. N : n \in T
  BY <1>1, <1>7, <1>8, WalkInduction
<1>10. \A n \in 1 .. N : f[n] # <<>>
  <2> TAKE n \in 1 .. N
  <2>1. Len(f[n]) # 0
    BY <1>1, <1>9 DEF T
  <2> QED
    BY <2>1, BytesEmpty
<1>11. f[N] \in Bytes
  BY <1>1, <1>2
<1> QED
  BY <1>1, <1>10, <1>11

(* What was written, and anything behind it, is read as what was written. *)
LEMMA MessageReads ==
    ASSUME NEW t \in DOMAIN Coding!Schema, NEW m, Coding!IsMessage(t, m), NEW tail \in Bytes
    PROVE  LET bytes == Coding!encode(t, m) \o tail
           IN /\ Coding!encode(t, m) \in Bytes /\ bytes \in Bytes
              /\ Coding!accepts(t, bytes) /\ Coding!read(t, bytes).read = m
<1>1. PICK N, parts, f : Pieces(t, m, N, parts, f)
  BY MessageIsWritten
<1>2. /\ InParts(N, parts, f) /\ m \in Seq(FieldValue) /\ Len(m) = N
      /\ Coding!encode(t, m) = f[N] /\ N = Len(Coding!Schema[t])
  BY <1>1 DEF Pieces
<1>3. N \in Nat \ {0} /\ f[N] \in Bytes /\ f[N] # <<>>
  <2>1. N \in Nat \ {0} /\ f[N] \in Bytes /\ \A n \in 1 .. N : f[n] # <<>>
    BY <1>1, FirstPiece
  <2>2. N \in 1 .. N
    BY <2>1
  <2> QED
    BY <2>1, <2>2
<1> DEFINE bytes == f[N] \o tail
<1>4. bytes \in Bytes /\ bytes # <<>>
  <2>1. bytes \in Bytes /\ Len(bytes) = Len(f[N]) + Len(tail) /\ Len(f[N]) \in Nat /\ Len(tail) \in Nat
    BY <1>3, BytesJoined
  <2>2. Len(f[N]) # 0
    BY <1>3, EmptySeq DEF Bytes
  <2> HIDE DEF bytes
  <2>3. \A a, b \in Nat : a # 0 => a + b # 0
    OBVIOUS
  <2>4. Len(bytes) # 0
    BY <2>1, <2>2, <2>3, Zenon
  <2> QED
    BY <2>1, <2>4, BytesEmpty
<1>5. bytes = f[N] \o tail /\ tail \in Bytes
  OBVIOUS
<1> HIDE DEF bytes
<1>6. PICK h : MessageWalk(t, bytes, N, h)
  <2>1. PICK M, h : MessageWalk(t, bytes, M, h)
    BY <1>4, MessageWalks
  <2>2. M = N
    BY <1>2, <2>1 DEF MessageWalk
  <2> QED
    BY <2>1, <2>2
<1>7. Coding!read(t, bytes) = h[N]
  BY <1>6 DEF MessageWalk
<1>8. /\ Walk(FieldValue, N, h) /\ ReadsEach(N, h, parts, m)
      /\ h[0].ok /\ h[0].valid /\ h[0].read = <<>> /\ h[0].rest = bytes
  <2>1. Stepped(t, bytes, N, h)
    BY <1>4, <1>6, MessageSteps
  <2> QED
    BY <1>1, <2>1 DEF Stepped
<1>9. ToRead(FieldValue, N, m, h, f, tail)
  BY <1>2, <1>5, <1>8 DEF ToRead
<1>10. HasRead(N, m, h, tail)
  BY <1>2, <1>8, <1>9, WalkReads
<1>11. h[N].read = m /\ h[N].ok /\ h[N].valid
  BY <1>8, <1>10 DEF HasRead
<1>12. Coding!accepts(t, bytes) /\ Coding!read(t, bytes).read = m
  BY <1>4, <1>7, <1>11 DEF Coding!accepts
<1> QED
  BY <1>2, <1>3, <1>4, <1>12 DEF bytes

(* Less than what was written is not accepted, but for an announce. *)
LEMMA MessageIsCut ==
    ASSUME NEW t \in DOMAIN Coding!Schema, NEW m, Coding!IsMessage(t, m), t # "announce",
           NEW bytes \in Bytes, Cut(bytes, Coding!encode(t, m))
    PROVE  ~Coding!accepts(t, bytes)
<1>1. PICK N, parts, f : Pieces(t, m, N, parts, f)
  BY MessageIsWritten
<1>2. InParts(N, parts, f) /\ Coding!encode(t, m) = f[N] /\ N = Len(Coding!Schema[t])
  BY <1>1 DEF Pieces
<1>3. PICK h : MessageWalk(t, bytes, N, h)
  <2>1. PICK M, h : MessageWalk(t, bytes, M, h)
    BY MessageWalks
  <2>2. M = N
    BY <1>2, <2>1 DEF MessageWalk
  <2> QED
    BY <2>1, <2>2
<1>4. Coding!read(t, bytes) = h[N]
  BY <1>3 DEF MessageWalk
<1>5. /\ Walk(FieldValue, N, h) /\ ReadsEach(N, h, parts, m) /\ h[0].rest = bytes
      /\ \A n \in 1 .. N : Coding!Schema[t][n] # "late flag" => ReadsCut(h[n - 1], h[n], parts[n])
  <2>1. Stepped(t, bytes, N, h)
    BY <1>3, MessageSteps
  <2> QED
    BY <1>1, <2>1 DEF Stepped
<1>6. \A n \in 1 .. N : Coding!Schema[t][n] # "late flag"
  <2>1. Coding!Schema[t] \in Seq(WrittenKinds)
    BY SchemaKinds
  <2>2. \A n \in 1 .. N : Coding!Schema[t][n] \in WrittenKinds
    BY <1>2, <2>1, ElementOfSeq
  <2> QED
    BY <2>2 DEF WrittenKinds
<1>7. CutsEach(N, h, parts)
  BY <1>5, <1>6 DEF CutsEach
<1>8. Cut(h[0].rest, f[N])
  BY <1>2, <1>5
<1>9. ~h[N].ok
  BY <1>2, <1>5, <1>7, <1>8, WalkIsCut
<1> QED
  BY <1>4, <1>9 DEF Coding!accepts

(* The beginning of a walk is a walk. *)
Upto(g, first, M) == [n \in first .. M |-> g[n]]

LEMMA ShorterWalk ==
    ASSUME NEW V, NEW N, NEW parts, NEW values, NEW c, NEW f, NEW M \in Nat,
           Walk(V, N, c), InParts(N, parts, f), ReadsEach(N, c, parts, values), M <= N
    PROVE  /\ Walk(V, M, Upto(c, 0, M)) /\ InParts(M, Upto(parts, 1, M), Upto(f, 0, M))
           /\ ReadsEach(M, Upto(c, 0, M), Upto(parts, 1, M), Upto(values, 1, M))
<1>1. /\ N \in Nat /\ c \in [0 .. N -> Cursors(V)]
      /\ parts \in [1 .. N -> Bytes] /\ f \in [0 .. N -> Bytes] /\ JoinedUp(f, parts, N)
      /\ \A n \in 1 .. N : ReadsWhole(c[n - 1], c[n], parts[n], values[n])
  BY DEF Walk, InParts, ReadsEach
<1>2. /\ \A n \in 1 .. M : n \in 1 .. N /\ n - 1 \in 0 .. M
      /\ \A n \in 0 .. M : n \in 0 .. N
      /\ 0 \in 0 .. M
      /\ \A n \in 1 .. M : n \in 0 .. M
  BY <1>1
<1> DEFINE d == Upto(c, 0, M)
           p == Upto(parts, 1, M)
           g == Upto(f, 0, M)
           w == Upto(values, 1, M)
<1>3. /\ \A n \in 0 .. M : d[n] = c[n] /\ g[n] = f[n]
      /\ \A n \in 1 .. M : p[n] = parts[n] /\ w[n] = values[n]
  BY DEF Upto
<1>4. d \in [0 .. M -> Cursors(V)] /\ p \in [1 .. M -> Bytes] /\ g \in [0 .. M -> Bytes]
  BY <1>1, <1>2 DEF Upto
<1> HIDE DEF d, p, g, w
<1>5. JoinedUp(g, p, M)
  BY <1>1, <1>2, <1>3 DEF JoinedUp
<1>6. \A n \in 1 .. M : ReadsWhole(d[n - 1], d[n], p[n], w[n])
  BY <1>1, <1>2, <1>3
<1> QED
  BY <1>4, <1>5, <1>6 DEF Walk, InParts, ReadsEach, d, p, g, w

LEMMA AnnounceKinds ==
    ASSUME NEW t \in DOMAIN Coding!Schema, t = "announce", NEW N, N = Len(Coding!Schema[t])
    PROVE  N = 4 /\ Coding!Schema[t][4] = "late flag" /\ \A n \in 1 .. 3 : Coding!Schema[t][n] # "late flag"
<1>1. /\ Len(Coding!Schema[t]) = 4 /\ Coding!Schema[t][4] = "late flag"
      /\ Coding!Schema[t][1] # "late flag" /\ Coding!Schema[t][2] # "late flag"
      /\ Coding!Schema[t][3] # "late flag"
  BY SchemaKinds
<1>2. \A n \in 1 .. 3 : n = 1 \/ n = 2 \/ n = 3
  OBVIOUS
<1> QED
  BY <1>1, <1>2

LEMMA FunctionIsSeq ==
    ASSUME NEW V, NEW N \in Nat, NEW s \in [1 .. N -> V]
    PROVE  s \in Seq(V) /\ Len(s) = N
  OBVIOUS

LEMMA AnnounceSteps ==
    ASSUME NEW t \in DOMAIN Coding!Schema, t = "announce", NEW m, NEW parts, NEW f, Pieces(t, m, 4, parts, f),
           NEW bytes \in Bytes, NEW h, MessageWalk(t, bytes, 4, h)
    PROVE  /\ Cut(bytes, f[3]) => ~h[3].ok
           /\ bytes = f[3] \o <<>> => HasRead(3, Upto(m, 1, 3), Upto(h, 0, 3), <<>>) /\ h[0].valid
<1> DEFINE d == Upto(h, 0, 3)
           p == Upto(parts, 1, 3)
           g == Upto(f, 0, 3)
           w == Upto(m, 1, 3)
<1>1. InParts(4, parts, f) /\ m \in Seq(FieldValue) /\ Len(m) = 4 /\ 4 = Len(Coding!Schema[t])
  BY DEF Pieces
<1>2. Stepped(t, bytes, 4, h)
  BY MessageSteps
<1>3. /\ Walk(FieldValue, 4, h) /\ ReadsEach(4, h, parts, m)
      /\ h[0].ok /\ h[0].valid /\ h[0].read = <<>> /\ h[0].rest = bytes
      /\ \A n \in 1 .. 4 : Coding!Schema[t][n] # "late flag" => ReadsCut(h[n - 1], h[n], parts[n])
  BY <1>2 DEF Stepped
<1>4. 3 \in Nat /\ 3 <= 4
  OBVIOUS
<1>5. Walk(FieldValue, 3, d) /\ InParts(3, p, g) /\ ReadsEach(3, d, p, w)
  BY <1>1, <1>3, <1>4, ShorterWalk
<1>6. \A n \in 1 .. 3 : ReadsCut(h[n - 1], h[n], parts[n])
  <2>1. \A n \in 1 .. 3 : n \in 1 .. 4
    OBVIOUS
  <2> QED
    BY <1>1, <1>3, <2>1, AnnounceKinds
<1>7. /\ d[0] = h[0] /\ d[3] = h[3] /\ g[3] = f[3]
      /\ \A n \in 1 .. 3 : d[n - 1] = h[n - 1] /\ d[n] = h[n] /\ p[n] = parts[n]
  BY DEF Upto
<1>8. w \in Seq(FieldValue) /\ Len(w) = 3
  <2>1. m[1] \in FieldValue /\ m[2] \in FieldValue /\ m[3] \in FieldValue
    BY <1>1, ElementOfSeq
  <2>2. \A n \in 1 .. 3 : n = 1 \/ n = 2 \/ n = 3
    OBVIOUS
  <2>3. w \in [1 .. 3 -> FieldValue]
    BY <2>1, <2>2 DEF Upto
  <2> HIDE DEF w
  <2> QED
    BY <1>4, <2>3, FunctionIsSeq
<1> HIDE DEF d, p, g, w
<1>9. CutsEach(3, d, p)
  BY <1>6, <1>7 DEF CutsEach
<1>10. ASSUME Cut(bytes, f[3]) PROVE ~h[3].ok
  <2>1. Cut(d[0].rest, g[3])
    BY <1>3, <1>7, <1>10
  <2>2. ~d[3].ok
    BY <1>5, <1>9, <2>1, WalkIsCut
  <2> QED
    BY <1>7, <2>2
<1>11. ASSUME bytes = f[3] \o <<>> PROVE HasRead(3, w, d, <<>>)
  <2>1. ToRead(FieldValue, 3, w, d, g, <<>>)
    BY <1>3, <1>7, <1>8, <1>11, BytesEmpty DEF ToRead
  <2> QED
    BY <1>5, <2>1, WalkReads
<1> QED
  BY <1>3, <1>10, <1>11 DEF d, w

LEMMA LastReplaced ==
    ASSUME NEW V, NEW m \in Seq(V), Len(m) = 4, NEW v \in V
    PROVE  Append(Upto(m, 1, 3), v) = [m EXCEPT ![4] = v]
<1> DEFINE w == Upto(m, 1, 3)
           r == [m EXCEPT ![4] = v]
<1>1. m[1] \in V /\ m[2] \in V /\ m[3] \in V
  BY ElementOfSeq
<1>2. \A n \in 1 .. 3 : n = 1 \/ n = 2 \/ n = 3
  OBVIOUS
<1>3. w \in [1 .. 3 -> V] /\ w[1] = m[1] /\ w[2] = m[2] /\ w[3] = m[3]
  BY <1>1, <1>2 DEF Upto
<1> HIDE DEF w
<1>4. w \in Seq(V) /\ Len(w) = 3
  BY <1>3, FunctionIsSeq
<1>5. m \in [1 .. 4 -> V]
  <2>1. m \in [1 .. Len(m) -> V]
    BY LenProperties
  <2> QED
    BY <2>1
<1>6. r \in [1 .. 4 -> V] /\ \A j \in 1 .. 4 : r[j] = IF j = 4 THEN v ELSE m[j]
  BY <1>5
<1> HIDE DEF r
<1>7. r \in Seq(V) /\ Len(r) = 4
  <2>1. 4 \in Nat /\ r \in [1 .. 4 -> V]
    BY <1>6
  <2> QED
    BY <2>1, FunctionIsSeq
<1>8. w \in Seq(V)
  BY <1>4
<1>9. /\ Append(w, v) \in Seq(V) /\ Len(Append(w, v)) = Len(w) + 1
      /\ \A i \in 1 .. Len(w) : Append(w, v)[i] = w[i]
      /\ Append(w, v)[Len(w) + 1] = v
  BY <1>8, AppendProperties
<1>10. Len(Append(w, v)) = 4 /\ Len(r) = 4 /\ Len(w) + 1 = 4
  BY <1>4, <1>9, <1>7
<1>11. ASSUME NEW i \in 1 .. 4 PROVE Append(w, v)[i] = r[i]
  <2>1. CASE i = 4
    BY <1>6, <1>9, <1>10, <2>1
  <2>2. CASE i # 4
    <3>1. i = 1 \/ i = 2 \/ i = 3
      BY <2>2
    <3>2. i \in 1 .. Len(w)
      BY <1>4, <3>1
    <3>3. Append(w, v)[i] = w[i] /\ r[i] = m[i]
      BY <1>6, <1>9, <2>2, <3>2
    <3> QED
      BY <1>3, <3>1, <3>3
  <2> QED
    BY <2>1, <2>2
<1>12. Append(w, v) = r
  BY <1>9, <1>10, <1>11, <1>7, SeqEqual
<1> QED
  BY <1>12 DEF w, r

(* Of an announce, all but the last cell is that of a client that does not *)
(* know of being paused; less of it is not accepted.                       *)
LEMMA AnnounceIsCut ==
    ASSUME NEW t \in DOMAIN Coding!Schema, t = "announce", NEW m, Coding!IsMessage(t, m),
           NEW bytes \in Bytes, Cut(bytes, Coding!encode(t, m))
    PROVE  IF Len(bytes) = Len(Coding!encode(t, m)) - 1
           THEN Coding!accepts(t, bytes) /\ Coding!read(t, bytes).read = [m EXCEPT ![4] = FALSE]
           ELSE ~Coding!accepts(t, bytes)
<1>1. PICK parts, f : Pieces(t, m, 4, parts, f)
  <2>1. PICK N, parts, f : Pieces(t, m, N, parts, f)
    BY MessageIsWritten
  <2>2. N = 4
    BY <2>1, AnnounceKinds DEF Pieces
  <2> QED
    BY <2>1, <2>2
<1>2. PICK h : MessageWalk(t, bytes, 4, h)
  <2>1. PICK N, h : MessageWalk(t, bytes, N, h)
    BY MessageWalks
  <2>2. N = 4
    BY <2>1, AnnounceKinds DEF MessageWalk
  <2> QED
    BY <2>1, <2>2
<1> DEFINE kind == Coding!Schema[t][4]
<1>3. /\ 4 = Len(Coding!Schema[t]) /\ InParts(4, parts, f) /\ m \in Seq(FieldValue) /\ Len(m) = 4
      /\ f[3] \in Bytes /\ f[4] \in Bytes /\ Coding!encode(t, m) = f[4]
      /\ m[4] \in RightField(kind) /\ parts[4] = Coding!WriteField(kind, m[4])
  BY <1>1 DEF Pieces
<1>4. kind = "late flag"
  BY <1>3, AnnounceKinds
<1>5. h[3] \in Cursors(FieldValue) /\ h[4] = Coding!ReadField(h[3], kind) /\ Coding!read(t, bytes) = h[4]
  <2>1. /\ h \in [0 .. 4 -> Cursors(FieldValue)]
        /\ \A n \in 1 .. 4 : h[n] = Coding!ReadField(h[n - 1], Coding!Schema[t][n])
        /\ Coding!read(t, bytes) = h[4]
    BY <1>2 DEF MessageWalk
  <2>2. 3 \in 0 .. 4 /\ 4 \in 1 .. 4 /\ 4 - 1 = 3
    OBVIOUS
  <2>3. h[4] = Coding!ReadField(h[4 - 1], kind)
    BY <2>1, <2>2
  <2> QED
    BY <2>1, <2>2, <2>3
<1> HIDE DEF kind
<1>6. kind \in FlagKinds /\ kind \in SimpleKinds /\ kind \notin DOMAIN Coding!Lists
      /\ kind # "string" /\ kind \in {"flag", "late flag"}
  BY <1>4 DEF FlagKinds, SimpleKinds, Coding!Lists
<1>7. PICK b \in Nat : parts[4] = <<b>>
  <2>1. m[4] \in Right(kind) /\ parts[4] = Coding!WriteSimple(kind, m[4])
    BY <1>3, <1>6 DEF RightField, Coding!WriteField
  <2> QED
    BY <1>6, <2>1, FlagTakes
<1>8. f[4] = f[3] \o <<b>> /\ <<b>> \in Bytes
  <2>1. \A n \in 1 .. 4 : f[n] = f[n - 1] \o parts[n]
    BY <1>3 DEF InParts, JoinedUp
  <2>2. 4 \in 1 .. 4 /\ 4 - 1 = 3
    OBVIOUS
  <2>3. f[4] = f[4 - 1] \o parts[4]
    BY <2>1, <2>2
  <2> QED
    BY <1>7, <2>2, <2>3, CellPiece, BytesEmpty
<1>9. Len(f[4]) = Len(f[3]) + 1 /\ Len(f[3]) \in Nat
  <2>1. f[3] \in Bytes /\ <<b>> \in Bytes
    BY <1>3, <1>8
  <2>2. Len(f[3] \o <<b>>) = Len(f[3]) + Len(<<b>>) /\ Len(f[3]) \in Nat
    BY <2>1, BytesJoined
  <2>3. Len(<<b>>) = 1
    OBVIOUS
  <2> QED
    BY <1>8, <2>2, <2>3
<1>10. PICK lack \in Bytes : lack # <<>> /\ f[3] \o <<b>> = bytes \o lack
  BY <1>3, <1>8 DEF Cut
<1>11. Begins(f[3], bytes) \/ Cut(bytes, f[3])
  BY <1>3, <1>8, <1>10, Splits
<1>12. Len(lack) \in Nat /\ Len(lack) # 0
  BY <1>10, EmptySeq DEF Bytes
<1>13. h[4] = Coding!ReadSimple(h[3], kind)
  BY <1>5, <1>6 DEF Coding!ReadField
<1>14. CASE Begins(f[3], bytes)
  <2>1. PICK r \in Bytes : bytes = f[3] \o r
    BY <1>14 DEF Begins
  <2>2. Len(bytes) = Len(f[3]) + Len(r) /\ Len(r) \in Nat
    BY <1>3, <2>1, BytesJoined
  <2>3. Len(f[3]) + 1 = Len(bytes) + Len(lack)
    <3>1. Len(f[3] \o <<b>>) = Len(f[3]) + Len(<<b>>)
      BY <1>3, <1>8, BytesJoined
    <3>2. Len(bytes \o lack) = Len(bytes) + Len(lack)
      BY <1>10, BytesJoined
    <3> QED
      BY <1>10, <3>1, <3>2
  <2>4. \A x, y, z \in Nat : x + 1 = (x + y) + z /\ z # 0 => y = 0
    OBVIOUS
  <2>5. Len(r) = 0
    BY <1>9, <1>12, <2>2, <2>3, <2>4
  <2>6. r = <<>>
    BY <2>5, EmptySeq DEF Bytes
  <2>7. Len(bytes) = Len(Coding!encode(t, m)) - 1
    BY <1>3, <1>9, <2>2, <2>5
  <2>8. HasRead(3, Upto(m, 1, 3), Upto(h, 0, 3), <<>>) /\ h[0].valid
    BY <1>1, <1>2, <2>1, <2>6, AnnounceSteps
  <2>9. Upto(h, 0, 3)[3] = h[3] /\ Upto(h, 0, 3)[0] = h[0]
    BY DEF Upto
  <2>10. h[3].rest = <<>> /\ h[3].read = Upto(m, 1, 3) /\ h[3].ok /\ h[3].valid
    BY <2>8, <2>9 DEF HasRead
  <2>11. h[4] = Coding!Took(h[3], 0, FALSE, TRUE)
    <3>1. h[4] = Coding!ReadFlag(h[3], kind)
      BY <1>6, <1>13, <2>10 DEF Coding!ReadSimple
    <3> QED
      BY <1>4, <2>10, <3>1 DEF Coding!ReadFlag
  <2>12. PICK v \in BOOLEAN : v = FALSE
    OBVIOUS
  <2>13. h[4].ok /\ h[4].valid /\ h[4].read = [m EXCEPT ![4] = v]
    <3>1. v \in FieldValue
      BY DEF FieldValue, Simple
    <3>2. 0 \in Nat /\ 0 <= Len(h[3].rest) /\ TRUE \in BOOLEAN
      BY <2>10
    <3>3. IsTaken(FieldValue, h[3], Coding!Took(h[3], 0, v, TRUE), 0, v, TRUE)
      BY <1>5, <3>1, <3>2, TookFields
    <3>4. h[4].ok = TRUE /\ h[4].valid = (h[3].valid /\ TRUE) /\ h[4].read = Append(h[3].read, v)
      BY <2>11, <2>12, <3>3 DEF IsTaken
    <3>5. Append(Upto(m, 1, 3), v) = [m EXCEPT ![4] = v]
      BY <1>3, <3>1, LastReplaced
    <3> QED
      BY <2>10, <3>4, <3>5
  <2>14. bytes # <<>>
    <3>1. \A n \in 1 .. 4 : f[n] # <<>>
      BY <1>1, FirstPiece
    <3>2. 3 \in 1 .. 4
      OBVIOUS
    <3>3. bytes = f[3]
      BY <1>3, <2>1, <2>6, BytesJoined
    <3> QED
      BY <3>1, <3>2, <3>3
  <2> QED
    BY <1>5, <2>7, <2>12, <2>13, <2>14 DEF Coding!accepts
<1>15. CASE Cut(bytes, f[3])
  <2>1. ~h[3].ok
    BY <1>1, <1>2, <1>15, AnnounceSteps
  <2>2. h[4] = h[3]
    BY <1>13, <2>1 DEF Coding!ReadSimple
  <2>3. ~Coding!accepts(t, bytes)
    BY <1>5, <2>1, <2>2 DEF Coding!accepts
  <2>4. PICK g \in Bytes : g # <<>> /\ f[3] = bytes \o g
    BY <1>15 DEF Cut
  <2>5. Len(f[3]) = Len(bytes) + Len(g) /\ Len(bytes) \in Nat /\ Len(g) \in Nat
    BY <2>4, BytesJoined
  <2>6. Len(g) # 0
    BY <2>4, EmptySeq DEF Bytes
  <2>7. \A x, y \in Nat : y # 0 => x # ((x + y) + 1) - 1
    OBVIOUS
  <2>8. Len(bytes) # Len(f[4]) - 1
    BY <1>9, <2>5, <2>6, <2>7
  <2> QED
    BY <1>3, <2>3, <2>8
<1> QED
  BY <1>11, <1>14, <1>15

(* What the reader has is a message of its topic; what is on the wire was  *)
(* written from what was sent, less some of it, or with more behind it.    *)
CodecKinds ==
    /\ topic \in Topics /\ wire \in Bytes
    /\ damage \in {"none", "short", "altered", "longer"}
    /\ taken \in {"not yet", "accepted", "rejected"}
    /\ Coding!IsMessage(topic, out)
    /\ IF sent = <<>> THEN taken = "not yet" /\ damage = "none" ELSE sent \in Messages[topic]

CodecWire ==
    sent # <<>> =>
        /\ damage = "none" => wire = Coding!encode(topic, sent)
        /\ damage = "longer" => \E tail \in Bytes : wire = Coding!encode(topic, sent) \o tail
        /\ damage = "short" => Cut(wire, Coding!encode(topic, sent))

CodecTaken ==
    /\ taken = "accepted" => Coding!accepts(topic, wire) /\ out = Coding!read(topic, wire).read
    /\ taken = "rejected" => ~Coding!accepts(topic, wire)

CodecInv == CodecKinds /\ CodecWire /\ CodecTaken

LEMMA Topical ==
    \A t \in Topics : t \in DOMAIN Coding!Schema /\ \A m \in Messages[t] : Coding!IsMessage(t, m)
  BY CodecAssumption DEF Coding!CodecAssumption

LEMMA CellIsByte == ASSUME NEW cell \in Coding!Cell PROVE cell \in Nat
<1>1. Base \in Nat
  BY CodecAssumption DEF Coding!CodecAssumption
<1> QED
  BY <1>1 DEF Coding!Cell

LEMMA CutShort ==
    ASSUME NEW a \in Bytes, NEW n \in 0 .. Len(a) - 1
    PROVE  SubSeq(a, 1, n) \in Bytes /\ Cut(SubSeq(a, 1, n), a)
<1> DEFINE p == SubSeq(a, 1, n)
<1>1. Len(a) \in Nat /\ a \in Seq(Nat) /\ \A i \in 1 .. n : a[i] \in Nat
  BY DEF Bytes
<1>2. /\ p \in Seq(Nat) /\ Len(p) = IF 1 <= n THEN n - 1 + 1 ELSE 0
      /\ \A i \in 1 .. n - 1 + 1 : p[i] = a[1 + i - 1]
  BY <1>1, SubSeqProperties
<1> HIDE DEF p
<1>3. Len(p) = n /\ \A i \in 1 .. n : p[i] = a[i]
  BY <1>1, <1>2
<1>4. p \in Bytes /\ Len(p) <= Len(a) /\ \A i \in 1 .. Len(p) : a[i] = p[i]
  BY <1>1, <1>2, <1>3 DEF Bytes
<1>5. PICK s \in Bytes : a = p \o s /\ Len(s) = Len(a) - Len(p)
  BY <1>4, RestExists
<1>6. Len(s) # 0
  BY <1>1, <1>3, <1>5
<1>7. s # <<>>
  BY <1>6, BytesEmpty
<1> QED
  BY <1>4, <1>5, <1>7 DEF Cut, p

LEMMA CodecInit == Coding!Init => CodecInv
<1> SUFFICES ASSUME Coding!Init PROVE CodecInv
  OBVIOUS
<1> QED
  BY Topical, BytesEmpty DEF Coding!Init, CodecInv, CodecKinds, CodecWire, CodecTaken

LEMMA CodecNext == CodecInv /\ Coding!Next => CodecInv'
<1> SUFFICES ASSUME CodecInv, Coding!Next PROVE CodecInv'
  OBVIOUS
<1>0. /\ CodecKinds /\ CodecWire /\ CodecTaken /\ topic \in Topics /\ topic \in DOMAIN Coding!Schema
      /\ wire \in Bytes
  BY Topical DEF CodecInv, CodecKinds
<1>1. CASE Coding!serialize
  <2>1. /\ sent = <<>> /\ sent' \in Messages[topic] /\ wire' = Coding!encode(topic, sent')
        /\ topic' = topic /\ damage' = damage /\ out' = out /\ taken' = taken
    BY <1>1 DEF Coding!serialize
  <2>2. damage = "none" /\ taken = "not yet"
    BY <1>0, <2>1 DEF CodecKinds
  <2>3. wire' \in Bytes
    BY <1>0, <2>1, Topical, MessageReads, BytesEmpty
  <2> QED
    BY <1>0, <2>1, <2>2, <2>3 DEF CodecInv, CodecKinds, CodecWire, CodecTaken
<1>2. CASE Coding!cut_short
  <2>1. /\ sent # <<>> /\ taken = "not yet" /\ damage = "none" /\ damage' = "short"
        /\ topic' = topic /\ sent' = sent /\ out' = out /\ taken' = taken
    BY <1>2 DEF Coding!cut_short, Coding!OnItsWay
  <2>2. PICK n \in 0 .. Len(wire) - 1 : wire' = SubSeq(wire, 1, n)
    BY <1>2 DEF Coding!cut_short
  <2>3. wire' \in Bytes /\ Cut(wire', wire)
    BY <1>0, <2>2, CutShort
  <2>4. wire = Coding!encode(topic, sent)
    BY <1>0, <2>1 DEF CodecWire
  <2> QED
    BY <1>0, <2>1, <2>3, <2>4 DEF CodecInv, CodecKinds, CodecWire, CodecTaken
<1>3. CASE Coding!altered
  <2>1. /\ sent # <<>> /\ taken = "not yet" /\ damage = "none" /\ damage' = "altered"
        /\ topic' = topic /\ sent' = sent /\ out' = out /\ taken' = taken
    BY <1>3 DEF Coding!altered, Coding!OnItsWay
  <2>2. PICK i \in DOMAIN wire, cell \in Coding!Cell : wire' = [wire EXCEPT ![i] = cell]
    BY <1>3 DEF Coding!altered
  <2>3. wire' \in Bytes
    <3>1. cell \in Nat /\ wire \in Seq(Nat) /\ i \in DOMAIN wire
      BY <1>0, <2>2, CellIsByte DEF Bytes
    <3>2. [wire EXCEPT ![i] = cell] \in Seq(Nat)
      BY <3>1
    <3> QED
      BY <2>2, <3>2 DEF Bytes
  <2> QED
    BY <1>0, <2>1, <2>3 DEF CodecInv, CodecKinds, CodecWire, CodecTaken
<1>4. CASE Coding!lengthened
  <2>1. /\ sent # <<>> /\ taken = "not yet" /\ damage = "none" /\ damage' = "longer"
        /\ topic' = topic /\ sent' = sent /\ out' = out /\ taken' = taken
    BY <1>4 DEF Coding!lengthened, Coding!OnItsWay
  <2>2. PICK cell \in Coding!Cell : wire' = Append(wire, cell)
    BY <1>4 DEF Coding!lengthened
  <2>3. cell \in Nat /\ <<cell>> \in Bytes
    BY <2>2, CellIsByte, CellPiece, BytesEmpty
  <2>4. wire' = wire \o <<cell>>
    <3>1. wire \in Seq(Nat)
      BY <1>0 DEF Bytes
    <3> QED
      BY <2>2, <2>3, <3>1, AppendIsConcat
  <2>5. wire' \in Bytes
    BY <1>0, <2>3, <2>4, BytesJoined
  <2>6. wire = Coding!encode(topic, sent)
    BY <1>0, <2>1 DEF CodecWire
  <2> QED
    BY <1>0, <2>1, <2>3, <2>4, <2>5, <2>6 DEF CodecInv, CodecKinds, CodecWire, CodecTaken
<1>5. CASE Coding!deserialize
  <2>1. /\ sent # <<>> /\ taken = "not yet" /\ out' = Coding!decode(topic, wire, out)
        /\ taken' = IF Coding!accepts(topic, wire) THEN "accepted" ELSE "rejected"
        /\ topic' = topic /\ sent' = sent /\ wire' = wire /\ damage' = damage
    BY <1>5 DEF Coding!deserialize
  <2>2. CASE Coding!accepts(topic, wire)
    <3>1. out' = Coding!read(topic, wire).read /\ taken' = "accepted"
      BY <2>1, <2>2 DEF Coding!decode
    <3>2. Coding!IsMessage(topic, out')
      BY <1>0, <2>2, <3>1, MessageIsKept
    <3> QED
      BY <1>0, <2>1, <2>2, <3>1, <3>2 DEF CodecInv, CodecKinds, CodecWire, CodecTaken
  <2>3. CASE ~Coding!accepts(topic, wire)
    <3>1. out' = out /\ taken' = "rejected"
      BY <2>1, <2>3 DEF Coding!decode
    <3> QED
      BY <1>0, <2>1, <2>3, <3>1 DEF CodecInv, CodecKinds, CodecWire, CodecTaken
  <2> QED
    BY <2>2, <2>3
<1>6. CASE Coding!next_batch
  <2>1. /\ sent' = <<>> /\ wire' = <<>> /\ damage' = "none" /\ taken' = "not yet"
        /\ out' \in Messages[topic] /\ topic' = topic
    BY <1>6 DEF Coding!next_batch
  <2> QED
    BY <1>0, <2>1, Topical, BytesEmpty DEF CodecInv, CodecKinds, CodecWire, CodecTaken
<1> QED
  BY <1>1, <1>2, <1>3, <1>4, <1>5, <1>6 DEF Coding!Next

LEMMA CodecStays == CodecInv /\ UNCHANGED codec => CodecInv'
  BY DEF codec, CodecInv, CodecKinds, CodecWire, CodecTaken

LEMMA CodecShows ==
    CodecInv => Coding!TypeOK /\ Coding!RoundTrip /\ Coding!ShortIsRejected /\ Coding!OldAnnounceIsRead
<1> SUFFICES ASSUME CodecInv
             PROVE  Coding!TypeOK /\ Coding!RoundTrip /\ Coding!ShortIsRejected /\ Coding!OldAnnounceIsRead
  OBVIOUS
<1>1. CodecKinds /\ CodecWire /\ CodecTaken /\ topic \in DOMAIN Coding!Schema /\ wire \in Bytes
  BY Topical DEF CodecInv, CodecKinds
<1>2. sent # <<>> => Coding!IsMessage(topic, sent)
  BY Topical DEF CodecInv, CodecKinds
<1>3. taken # "not yet" => sent # <<>>
  BY <1>1 DEF CodecKinds
<1>4. taken # "not yet" => taken = "accepted" \/ taken = "rejected"
  BY <1>1 DEF CodecKinds
<1>5. Coding!TypeOK
  BY <1>1 DEF CodecKinds, Coding!TypeOK, Bytes
<1>6. Coding!RoundTrip
  <2> SUFFICES ASSUME taken # "not yet", damage \in {"none", "longer"}
               PROVE  taken = "accepted" /\ out = sent
    BY DEF Coding!RoundTrip
  <2>1. Coding!encode(topic, sent) \in Bytes
    BY <1>1, <1>2, <1>3, MessageReads, BytesEmpty
  <2>2. PICK tail \in Bytes : wire = Coding!encode(topic, sent) \o tail
    <3>1. CASE damage = "none"
      <4>1. wire = Coding!encode(topic, sent) /\ Coding!encode(topic, sent) \o <<>> = Coding!encode(topic, sent)
        BY <1>1, <1>3, <2>1, <3>1, BytesJoined DEF CodecWire
      <4> QED
        BY <4>1, BytesEmpty
    <3>2. CASE damage = "longer"
      BY <1>1, <1>3, <3>2 DEF CodecWire
    <3> QED
      BY <3>1, <3>2
  <2>3. Coding!accepts(topic, wire) /\ Coding!read(topic, wire).read = sent
    BY <1>1, <1>2, <1>3, <2>2, MessageReads
  <2> QED
    BY <1>1, <1>4, <2>3 DEF CodecTaken
<1>7. damage = "short" /\ taken # "not yet" => Cut(wire, Coding!encode(topic, sent)) /\ Coding!IsMessage(topic, sent)
  BY <1>1, <1>2, <1>3 DEF CodecWire
<1>8. Coding!ShortIsRejected
  <2> SUFFICES ASSUME taken = "accepted", damage = "short"
               PROVE  topic = "announce" /\ Len(wire) = Len(Coding!encode(topic, sent)) - 1
    BY DEF Coding!ShortIsRejected
  <2>1. Coding!accepts(topic, wire)
    BY <1>1 DEF CodecTaken
  <2>2. topic = "announce"
    BY <1>1, <1>7, <2>1, MessageIsCut
  <2> QED
    BY <1>1, <1>7, <2>1, <2>2, AnnounceIsCut
<1>9. Coding!OldAnnounceIsRead
  <2> SUFFICES ASSUME topic = "announce", damage = "short", taken # "not yet",
                      Len(wire) = Len(Coding!encode(topic, sent)) - 1
               PROVE  taken = "accepted" /\ out = [sent EXCEPT ![4] = FALSE]
    BY DEF Coding!OldAnnounceIsRead
  <2>1. Coding!accepts(topic, wire) /\ Coding!read(topic, wire).read = [sent EXCEPT ![4] = FALSE]
    BY <1>1, <1>7, AnnounceIsCut
  <2> QED
    BY <1>1, <1>4, <2>1 DEF CodecTaken
<1> QED
  BY <1>5, <1>6, <1>8, <1>9

LEMMA CodecRejects ==
    ASSUME Coding!Next \/ UNCHANGED codec PROVE taken' = "rejected" => out' = out
<1>1. CASE UNCHANGED codec
  BY <1>1 DEF codec
<1>2. CASE Coding!Next
  BY <1>2 DEF Coding!Next, Coding!serialize, Coding!cut_short, Coding!altered, Coding!lengthened,
       Coding!deserialize, Coding!next_batch, Coding!decode
<1> QED
  BY <1>1, <1>2

LEMMA CodecMoves == [Next]_vars => Coding!Next \/ UNCHANGED codec
  BY Zenon DEF Next, vars

LEMMA CodecInvariant == Spec => []CodecInv
<1>1. Init => CodecInv
  BY CodecInit DEF Init
<1>2. CodecInv /\ [Next]_vars => CodecInv'
  BY CodecMoves, CodecNext, CodecStays
<1> QED
  BY <1>1, <1>2, PTL DEF Spec

(* Whatever the messages, the topics and the cells are: what arrives as it *)
(* was written, with or without more behind it, is read as what was sent;  *)
(* what was cut short is rejected, but for an announce without its last    *)
(* flag, which is read as that of a client that is not paused; and what is *)
(* rejected leaves the sample as it was (codec.hpp, decode()).             *)
THEOREM MessagesAreWhole == Spec => MessagesArriveWhole
<1>1. CodecInv => (part = "codec" => /\ Coding!TypeOK
                                     /\ Coding!RoundTrip
                                     /\ Coding!ShortIsRejected
                                     /\ Coding!OldAnnounceIsRead)
  BY CodecShows
<1>2. [Next]_vars => [taken' = "rejected" => out' = out]_Coding!vars
  BY CodecMoves, CodecRejects
<1> QED
  BY <1>1, <1>2, CodecInvariant, PTL DEF Spec, MessagesArriveWhole, Coding!RejectedLeavesNothing
=============================================================================
