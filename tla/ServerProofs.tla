---------------------------- MODULE ServerProofs ----------------------------
(***************************************************************************)
(* Proofs about the parts of MCServer, for every value of their constants. *)
(* The parts share no state, so that a step is of one part, or leaves all  *)
(* of its variables alone: an inductive invariant is of one part.          *)
(***************************************************************************)
EXTENDS MCServer, FiniteSetTheorems, SequenceTheorems, WellFoundedInduction, TLAPS

-----------------------------------------------------------------------------
(* ServerConfig.  An edit is lost only over a restart, so that the         *)
(* invariant is about what a start would find: unless the operator was     *)
(* told, the memory is what was intended, and so is the file, if it is not *)
(* torn, which a start tells, or about to be written.                      *)

WouldBeLoaded(f) ==
    \/ step = "save" /\ saving = f
    \/ file[f] = Config!Torn
    \/ file[f] = Config!Holding(intended[f])
    \/ file[f] = Config!Absent /\ intended[f] = {}

ConfigShape ==
    /\ file = [f \in Config!Files |-> file[f]]
    /\ memory = [f \in Config!Files |-> memory[f]]
    /\ shown = [f \in Config!Files |-> shown[f]]
    /\ intended = [f \in Config!Files |-> intended[f]]
    /\ \A f \in Config!Files : f # saving => shown[f] = memory[f]

EditsAreSafe ==
    \A f \in Config!Files \ (told \cup excused) : memory[f] = intended[f] /\ WouldBeLoaded(f)

ConfigInv == Config!TypeOK /\ ConfigShape /\ EditsAreSafe

LEMMA NothingIsContents == \A f : {} \in Config!Contents(f)
<1>1. Config!Cardinality({}) = Cardinality({})
  BY DEF Config!Cardinality, Cardinality
<1> QED
  BY <1>1, FS_EmptySet DEF Config!Contents

LEMMA NoFileIsNone == "none" \notin Config!Files
  BY DEF Config!Files

(* What a start makes of a file that is there or not. *)
LEMMA LoadedFromFile ==
    ASSUME ConfigInv, NEW f \in Config!Files, NEW opened \in SUBSET Config!Files
    PROVE  /\ Config!loaded(f, opened) \in Config!Contents(f)
           /\ \A S : f \in opened /\ file[f] = Config!Holding(S) => Config!loaded(f, opened) = S
           /\ file[f] \in {Config!Absent, Config!Torn} => Config!loaded(f, opened) = {}
           /\ f \notin opened => Config!loaded(f, opened) = {}
<1>1. {} \in Config!Contents(f)
  BY NothingIsContents
<1> QED
  BY <1>1 DEF ConfigInv, Config!TypeOK, Config!loaded, Config!Holding, Config!Absent, Config!Torn

LEMMA ConfigInit == Init => ConfigInv
  BY NothingIsContents DEF Init, Config!Init, ConfigInv, ConfigShape, EditsAreSafe, Config!TypeOK,
               WouldBeLoaded, Config!Files

LEMMA ConfigStep == ConfigInv /\ [Next]_vars => ConfigInv'
<1> SUFFICES ASSUME ConfigInv, [Next]_vars PROVE ConfigInv'
  OBVIOUS
<1> USE DEF ConfigInv
<1>1. ASSUME NEW f \in Config!Files, NEW S \in Config!Contents(f), Config!edit(f, S)
      PROVE  ConfigInv'
  <2>1. Config!TypeOK'
    BY <1>1 DEF Config!TypeOK, ConfigShape, Config!edit
  <2>2. ConfigShape'
    BY <1>1, NoFileIsNone DEF Config!TypeOK, ConfigShape, Config!edit
  <2>3. EditsAreSafe'
    BY <1>1 DEF Config!TypeOK, ConfigShape, EditsAreSafe, WouldBeLoaded, Config!edit
  <2> QED BY <2>1, <2>2, <2>3
<1>2. CASE Config!open
  <2>1. Config!TypeOK'
    BY <1>2 DEF Config!TypeOK, ConfigShape, Config!open
  <2>2. ConfigShape'
    BY <1>2 DEF Config!TypeOK, ConfigShape, Config!open
  <2>3. EditsAreSafe'
    BY <1>2 DEF Config!TypeOK, ConfigShape, EditsAreSafe, WouldBeLoaded, Config!open
  <2> QED BY <2>1, <2>2, <2>3
<1>3. CASE Config!open_fails
  <2>1. Config!TypeOK' /\ ConfigShape'
    BY <1>3 DEF Config!open_fails, Config!TypeOK, ConfigShape
  <2>2. EditsAreSafe'
    BY <1>3 DEF Config!open_fails, EditsAreSafe, WouldBeLoaded
  <2> QED BY <2>1, <2>2
<1>4. CASE Config!write_and_close
  <2>1. Config!TypeOK'
    BY <1>4 DEF Config!TypeOK, ConfigShape, Config!write_and_close, Config!written
  <2>2. ConfigShape'
    BY <1>4 DEF Config!TypeOK, ConfigShape, Config!write_and_close, Config!written
  <2>3. EditsAreSafe'
    <3>1. \A f \in Config!Files : f # saving => file'[f] = file[f]
      BY <1>4 DEF Config!write_and_close, Config!TypeOK, ConfigShape
    <3>2. file'[saving] = Config!Holding(memory[saving])
      BY <1>4 DEF Config!write_and_close, Config!written, Config!TypeOK, ConfigShape
    <3> QED
      BY <1>4, <3>1, <3>2 DEF EditsAreSafe, WouldBeLoaded, Config!write_and_close, Config!TypeOK
  <2> QED BY <2>1, <2>2, <2>3
<1>5. CASE Config!write_is_short
  BY <1>5 DEF Config!write_is_short, Config!TypeOK, ConfigShape, EditsAreSafe, WouldBeLoaded
<1>6. CASE Config!close_fails
  BY <1>6 DEF Config!close_fails, Config!TypeOK, ConfigShape, EditsAreSafe, WouldBeLoaded
<1>7. CASE Config!announce
  BY <1>7 DEF Config!announce, Config!TypeOK, ConfigShape, EditsAreSafe, WouldBeLoaded
<1>8. ASSUME NEW opened \in SUBSET Config!Files, Config!start_again(opened)
      PROVE  ConfigInv'
  <2>1. Config!TypeOK'
    BY <1>8, LoadedFromFile DEF Config!start_again, Config!shown_at_start,
                                Config!errors_at_start, Config!TypeOK, ConfigShape
  <2>2. ConfigShape'
    BY <1>8 DEF Config!start_again, Config!shown_at_start, ConfigShape
  <2>3. EditsAreSafe'
    <3> SUFFICES ASSUME NEW f \in Config!Files, f \notin told', f \notin excused'
                 PROVE  /\ memory'[f] = intended'[f]
                        /\ \/ file'[f] = Config!Holding(intended'[f])
                           \/ file'[f] = Config!Absent /\ intended'[f] = {}
      BY DEF EditsAreSafe, WouldBeLoaded
    <3>1. /\ memory[f] = intended[f] /\ WouldBeLoaded(f) /\ ~(step = "save" /\ saving = f)
          /\ f \in opened => file[f] # Config!Torn
          /\ f \notin opened => file[f] = Config!Absent
      BY <1>8 DEF Config!start_again, Config!errors_at_start, EditsAreSafe
    <3>2. Config!Absent # Config!Holding(intended[f]) /\ Config!Absent # Config!Torn
      BY DEF Config!Holding, Config!Absent, Config!Torn
    <3>3. Config!loaded(f, opened) = intended[f] /\ file[f] # Config!Torn
      <4>1. CASE f \in opened
        BY <1>8, <3>1, <4>1, LoadedFromFile DEF Config!start_again, WouldBeLoaded
      <4>2. CASE f \notin opened
        BY <3>1, <3>2, <4>2, LoadedFromFile DEF WouldBeLoaded
      <4> QED BY <4>1, <4>2
    <3> QED
      BY <1>8, <3>1, <3>3 DEF Config!start_again, WouldBeLoaded
  <2> QED BY <2>1, <2>2, <2>3
<1>9. CASE UNCHANGED config
  BY <1>9 DEF config, Config!TypeOK, ConfigShape, EditsAreSafe, WouldBeLoaded
<1> QED
  BY <1>1, <1>2, <1>3, <1>4, <1>5, <1>6, <1>7, <1>8, <1>9 DEF Next, vars, Config!Next

LEMMA ConfigInvariant == Spec => []ConfigInv
  BY ConfigInit, ConfigStep, PTL DEF Spec

(* An edit of the configuration survives any number of restarts, torn      *)
(* files, refused writes and damaged neighbours, or an error was shown of  *)
(* its file; and between two handlers the tabs show what the server acts   *)
(* on: server_controller.cpp, the three save functions and load_config.    *)
THEOREM EditsAreKeptOrAnswered == Spec => []ConfigurationIsKept
<1>1. ConfigInv => ConfigurationIsKept
  BY NoFileIsNone DEF ConfigInv, ConfigShape, EditsAreSafe, ConfigurationIsKept, Config!TypeOK,
                      Config!ShownIsMemory, Config!AnEditIsKeptOrAnswered
<1> QED
  BY <1>1, ConfigInvariant, PTL

-----------------------------------------------------------------------------
(* RunDeletion.  A handler that waits for its box has yet to forget runs   *)
(* whose files it removed.  Of every run the invariant says what makes the *)
(* late answers harmless: a run that was deleted alone has left the list,  *)
(* one that waits has no file, and one whose file lags behind has failed   *)
(* or is about to be forgotten.                                            *)

Doomed(stack, r) ==
    \E i \in DOMAIN stack : stack[i].handler = "delete_before" /\ r \in stack[i].doomed

RunIsKept(r) ==
    /\ script_runs[r] # Deletion!Absent \/ disk[r] # Deletion!Absent \/ gone[r] = "alone"
          => r <= issued
    /\ gone[r] = "alone" => script_runs[r] = Deletion!Absent /\ disk[r] = Deletion!Absent
    /\ script_runs[r] = "waiting" => disk[r] = Deletion!Absent
    /\ r \notin failed /\ script_runs[r] \in Deletion!Finished
          => disk[r] = script_runs[r] \/ Doomed(boxes, r)

LeftIsDoomed(stack) == \A i \in DOMAIN stack : stack[i].left \subseteq stack[i].doomed

DeletionInv ==
    /\ Deletion!TypeOK
    /\ Deletion!SavedHaveFiles
    /\ LeftIsDoomed(boxes)
    /\ \A r \in Deletion!Runs : RunIsKept(r)

LEMMA RunsAreNumbers == Deletion!Runs \subseteq Nat
  BY MaxRunAssumption DEF Deletion!Runs, Deletion!MaxRunAssumption

LEMMA MinIsLeast ==
    ASSUME NEW S \in SUBSET Nat, S # {}
    PROVE  Deletion!Min(S) \in S /\ \A n \in S : Deletion!Min(S) <= n
<1>1. PICK m \in S : \A n \in S : ~(<<n, m>> \in OpToRel(<, Nat))
  BY WFMin, NatLessThanWellFounded
<1>2. ASSUME NEW n \in S, n < m PROVE FALSE
  <2>1. <<n, m>> \in OpToRel(<, Nat)
    BY <1>2 DEF OpToRel
  <2> QED BY <1>1, <2>1
<1>3. \A n \in S : m <= n
  BY <1>2
<1> QED
  BY <1>3 DEF Deletion!Min

(* A box is pushed on the stack, or taken off it. *)
LEMMA PushedBox ==
    ASSUME NEW stack \in Seq(Deletion!Box), NEW box \in Deletion!Box
    PROVE  /\ Append(stack, box) \in Seq(Deletion!Box)
           /\ \A r : Doomed(Append(stack, box), r)
                        <=> Doomed(stack, r) \/ (box.handler = "delete_before" /\ r \in box.doomed)
           /\ LeftIsDoomed(Append(stack, box))
                  <=> LeftIsDoomed(stack) /\ box.left \subseteq box.doomed
<1>1. /\ Append(stack, box) \in Seq(Deletion!Box)
      /\ DOMAIN Append(stack, box) = DOMAIN stack \cup {Len(stack) + 1}
      /\ \A i \in DOMAIN stack : Append(stack, box)[i] = stack[i]
      /\ Append(stack, box)[Len(stack) + 1] = box
  BY AppendProperties
<1> QED
  BY <1>1 DEF Doomed, LeftIsDoomed

LEMMA PoppedBox ==
    ASSUME NEW stack \in Seq(Deletion!Box), stack # <<>>
    PROVE  /\ Deletion!Last(stack) \in Deletion!Box
           /\ Deletion!Front(stack) \in Seq(Deletion!Box)
           /\ stack = Append(Deletion!Front(stack), Deletion!Last(stack))
  BY SubSeqProperties DEF Deletion!Front, Deletion!Last

LEMMA DeletionInit == Init => DeletionInv
  BY MaxRunAssumption
  DEF Init, Deletion!Init, DeletionInv, Deletion!TypeOK, Deletion!SavedHaveFiles, LeftIsDoomed,
      RunIsKept, Doomed, Deletion!OnDisk, Deletion!Finished, Deletion!Absent,
      Deletion!MaxRunAssumption

LEMMA DeletionMoves == [Next]_vars => Deletion!Next \/ UNCHANGED deletion
  BY Zenon DEF Next, vars

(* A target's state changes, and its record is saved, or not yet, or not.  *)
LEMMA RunBecomes ==
    ASSUME DeletionInv, NEW r \in Deletion!Runs,
           NEW ending \in Deletion!Finished \cup {"waiting"}, Deletion!Becomes(r, ending),
           ending = "waiting" => disk[r] = Deletion!Absent, gone[r] # "alone",
           issued' \in issued .. MaxRun, r <= issued', UNCHANGED gone
    PROVE  DeletionInv'
<1> USE DEF DeletionInv
<1> DEFINE pushed == [handler |-> "persist", left |-> {}, stuck |-> {}, doomed |-> {}]
<1>1. /\ boxes' \in Seq(Deletion!Box) /\ LeftIsDoomed(boxes')
      /\ \A q : Doomed(boxes', q) <=> Doomed(boxes, q)
  <2>1. boxes' \in {boxes, Append(boxes, pushed)}
    BY DEF Deletion!Becomes, Deletion!persist_run_if_finished, Deletion!Save, Deletion!Open,
           Deletion!NotSaved
  <2>2. pushed \in Deletion!Box
    BY DEF Deletion!Box
  <2> HIDE DEF pushed
  <2>3. pushed.handler = "persist" /\ pushed.left = {} /\ pushed.doomed = {}
    BY DEF pushed
  <2>4. boxes \in Seq(Deletion!Box)
    BY DEF Deletion!TypeOK
  <2>5. CASE boxes' = Append(boxes, pushed)
    BY <2>2, <2>3, <2>4, <2>5, PushedBox
  <2> QED BY <2>1, <2>4, <2>5
<1>2. /\ script_runs' = [script_runs EXCEPT ![r] = ending]
      /\ \/ UNCHANGED <<disk, saved_runs, failed>> /\ ending = "waiting"
         \/ /\ disk' = [disk EXCEPT ![r] = ending] /\ saved_runs' = saved_runs \cup {r}
            /\ failed' = failed \ {r} /\ ending \in Deletion!Finished
         \/ /\ UNCHANGED <<disk, saved_runs>> /\ failed' = failed \cup {r}
            /\ ending \in Deletion!Finished
  BY DEF Deletion!Becomes, Deletion!persist_run_if_finished, Deletion!Save, Deletion!NotSaved
<1>3. Deletion!Absent \notin Deletion!Finished \cup {"waiting"} /\ "waiting" \notin Deletion!Finished
  BY DEF Deletion!Absent, Deletion!Finished
<1>4. Deletion!TypeOK'
  BY <1>1, <1>2, MaxRunAssumption DEF Deletion!TypeOK, Deletion!MaxRunAssumption
<1>5. Deletion!SavedHaveFiles'
  BY <1>2, <1>3 DEF Deletion!SavedHaveFiles, Deletion!OnDisk, Deletion!TypeOK
<1>6. ASSUME NEW q \in Deletion!Runs PROVE RunIsKept(q)'
  <2>1. q \in Nat /\ r \in Nat /\ issued \in Nat /\ issued' \in Nat /\ issued <= issued'
    BY MaxRunAssumption DEF Deletion!TypeOK, Deletion!Runs, Deletion!MaxRunAssumption
  <2>2. Doomed(boxes, q)' <=> Doomed(boxes, q)
    BY <1>1 DEF Doomed
  <2>3. CASE q = r
    BY <1>2, <1>3, <2>1, <2>3 DEF RunIsKept, Deletion!TypeOK
  <2>4. CASE q # r
    BY <1>2, <2>1, <2>2, <2>4 DEF RunIsKept, Deletion!TypeOK
  <2> QED BY <2>3, <2>4
<1> QED
  BY <1>1, <1>4, <1>5, <1>6 DEF LeftIsDoomed

(* The loop over the runs that are left stops at a box that will forget    *)
(* what is doomed, or forgets it.                                          *)
LEMMA LoopKeeps ==
    ASSUME DeletionInv,
           NEW left \in SUBSET Deletion!Runs, NEW kept \in SUBSET saved_runs,
           NEW doomed \in SUBSET Deletion!Runs, left \subseteq doomed,
           NEW opened \in Seq(Deletion!Box), LeftIsDoomed(opened),
           \A r : Doomed(boxes, r) => r \in doomed \/ Doomed(opened, r),
           Deletion!DeleteLoop(left, kept, doomed, opened), UNCHANGED <<issued, failed>>
    PROVE  DeletionInv'
<1> USE DEF DeletionInv
<1>1. PICK refused \in SUBSET (left \cap Deletion!OnDisk) :
        LET stops == refused \cap kept
            done == {r \in left : \A s \in stops : r < s}
        IN /\ Deletion!Removed(done \ refused) /\ Deletion!Note(done \ refused, "before")
           /\ saved_runs' = kept \ done
           /\ IF stops = {}
              THEN Deletion!Forget(doomed) /\ boxes' = opened
              ELSE /\ boxes' = Append(opened,
                          [handler |-> "delete_before",
                           left |-> left \ (done \cup {Deletion!Min(stops)}),
                           stuck |-> {Deletion!Min(stops)}, doomed |-> doomed])
                   /\ UNCHANGED script_runs
  BY DEF Deletion!DeleteLoop
<1> DEFINE stops == refused \cap kept
           done == {r \in left : \A s \in stops : r < s}
           rest == [handler |-> "delete_before", left |-> left \ (done \cup {Deletion!Min(stops)}),
                    stuck |-> {Deletion!Min(stops)}, doomed |-> doomed]
<1>2. /\ disk' = [r \in Deletion!Runs |-> IF r \in done \ refused THEN Deletion!Absent ELSE disk[r]]
      /\ gone' = [r \in Deletion!Runs |-> IF r \in done \ refused THEN "before" ELSE gone[r]]
      /\ saved_runs' = kept \ done
  BY <1>1 DEF Deletion!Removed, Deletion!Note
<1>3. \/ /\ script_runs' = [r \in Deletion!Runs |-> IF r \in doomed THEN Deletion!Absent
                                                                      ELSE script_runs[r]]
         /\ boxes' = opened
      \/ /\ stops # {} /\ boxes' = Append(opened, rest) /\ UNCHANGED script_runs
  BY <1>1 DEF Deletion!Forget
<1>4. stops # {} => rest \in Deletion!Box
  <2> SUFFICES ASSUME stops # {} PROVE rest \in Deletion!Box
    OBVIOUS
  <2>1. stops \in SUBSET Deletion!Runs
    OBVIOUS
  <2>2. Deletion!Min(stops) \in Deletion!Runs
    BY <2>1, RunsAreNumbers, MinIsLeast
  <2> QED
    BY <2>2 DEF Deletion!Box
<1>5. /\ boxes' \in Seq(Deletion!Box) /\ LeftIsDoomed(boxes')
      /\ \/ boxes' = opened
         \/ \A r : Doomed(boxes', r) <=> Doomed(opened, r) \/ r \in doomed
  <2>1. CASE boxes' = opened
    BY <2>1
  <2>2. CASE stops # {} /\ boxes' = Append(opened, rest)
    <3>1. rest \in Deletion!Box
      BY <1>4, <2>2
    <3>2. rest.handler = "delete_before" /\ rest.left \subseteq rest.doomed /\ rest.doomed = doomed
      OBVIOUS
    <3> HIDE DEF rest
    <3> QED
      BY <2>2, <3>1, <3>2, PushedBox
  <2> QED BY <1>3, <2>1, <2>2
<1> HIDE DEF stops, done, rest
<1>6. done \subseteq left
  BY DEF done
<1>7. Deletion!TypeOK'
  BY <1>2, <1>3, <1>5 DEF Deletion!TypeOK
<1>8. Deletion!SavedHaveFiles'
  BY <1>2 DEF Deletion!SavedHaveFiles, Deletion!OnDisk
<1>9. ASSUME NEW q \in Deletion!Runs PROVE RunIsKept(q)'
  <2>1. script_runs'[q] = script_runs[q]
          \/ (q \in doomed /\ script_runs'[q] = Deletion!Absent)
    BY <1>3 DEF Deletion!TypeOK
  <2>2. Deletion!Absent \notin Deletion!Finished \cup {"waiting"}
    BY DEF Deletion!Absent, Deletion!Finished
  <2>3. CASE q \in done \ refused
    <3>1. disk'[q] = Deletion!Absent /\ gone'[q] = "before"
      BY <1>2, <2>3
    <3>2. script_runs'[q] = Deletion!Absent \/ Doomed(boxes', q)
      BY <1>3, <1>5, <1>6, <2>3
    <3> QED
      BY <2>1, <2>2, <3>1, <3>2 DEF RunIsKept, Doomed
  <2>4. CASE q \notin done \ refused
    <3>1. disk'[q] = disk[q] /\ gone'[q] = gone[q]
      BY <1>2, <2>4
    <3>2. script_runs'[q] = Deletion!Absent \/ (Doomed(boxes, q) => Doomed(boxes', q))
      BY <1>3, <1>5
    <3> QED
      BY <2>1, <2>2, <3>1, <3>2 DEF RunIsKept, Doomed
  <2> QED BY <2>3, <2>4
<1> QED
  BY <1>5, <1>7, <1>8, <1>9 DEF LeftIsDoomed

LEMMA DeletionStep == DeletionInv /\ [Next]_vars => DeletionInv'
<1> SUFFICES ASSUME DeletionInv, [Next]_vars PROVE DeletionInv'
  OBVIOUS
<1>0. Deletion!Absent \notin Deletion!Finished \cup {"waiting"}
  BY DEF Deletion!Absent, Deletion!Finished
<1>1. CASE Deletion!start_script_run
  <2>1. PICK ending \in {"waiting", "refused"} : Deletion!Becomes(issued', ending)
    BY <1>1 DEF Deletion!start_script_run
  <2>2. /\ issued' = issued + 1 /\ issued' \in Deletion!Runs /\ issued' \in issued .. MaxRun
        /\ ~(issued' <= issued)
    BY <1>1, MaxRunAssumption DEF DeletionInv, Deletion!TypeOK, Deletion!start_script_run,
                                  Deletion!Runs, Deletion!MaxRunAssumption
  <2>3. disk[issued'] = Deletion!Absent /\ gone[issued'] # "alone"
    BY <2>2 DEF DeletionInv, RunIsKept
  <2>4. ending \in Deletion!Finished \cup {"waiting"} /\ UNCHANGED gone
    BY <1>1 DEF Deletion!Finished, Deletion!start_script_run
  <2>5. issued' <= issued'
    BY <2>2
  <2> QED
    BY <2>1, <2>2, <2>3, <2>4, <2>5, RunBecomes
<1>2. ASSUME NEW r \in Deletion!Runs, Deletion!on_script_result(r) \/ Deletion!on_run_deadline(r)
      PROVE  DeletionInv'
  <2>1. PICK ending \in {"answered", "unanswered"} : Deletion!Becomes(r, ending)
    BY <1>2 DEF Deletion!on_script_result, Deletion!on_run_deadline
  <2>2. script_runs[r] # Deletion!Absent /\ issued' = issued /\ UNCHANGED gone
    BY <1>0, <1>2 DEF Deletion!on_script_result, Deletion!on_run_deadline, Deletion!Finished
  <2>3. gone[r] # "alone" /\ r <= issued
    BY <2>2 DEF DeletionInv, RunIsKept
  <2>4. issued' \in issued .. MaxRun
    BY <2>2, MaxRunAssumption DEF DeletionInv, Deletion!TypeOK, Deletion!MaxRunAssumption
  <2>5. ending \in Deletion!Finished \cup {"waiting"} /\ ending # "waiting"
    BY DEF Deletion!Finished
  <2> QED
    BY <2>1, <2>2, <2>3, <2>4, <2>5, RunBecomes
<1>3. ASSUME NEW r \in Deletion!Runs, Deletion!delete_script_run(r)
      PROVE  DeletionInv'
  <2>1. CASE /\ Deletion!Removed({r}) /\ Deletion!Note({r}, "alone")
             /\ Deletion!Forget({r}) /\ saved_runs' = saved_runs \ {r} /\ UNCHANGED boxes
    <3>1. Deletion!TypeOK' /\ Deletion!SavedHaveFiles' /\ LeftIsDoomed(boxes')
      BY <1>3, <2>1 DEF DeletionInv, Deletion!TypeOK, Deletion!SavedHaveFiles, Deletion!OnDisk,
         Deletion!Removed, Deletion!Note, Deletion!Forget, Deletion!delete_script_run
    <3>2. ASSUME NEW q \in Deletion!Runs PROVE RunIsKept(q)'
      <4>1. script_runs[r] # Deletion!Absent /\ UNCHANGED <<issued, failed>>
        BY <1>3 DEF Deletion!delete_script_run
      <4> QED
        BY <1>0, <2>1, <4>1 DEF DeletionInv, Deletion!TypeOK, RunIsKept, Doomed,
           Deletion!Removed, Deletion!Note, Deletion!Forget
    <3> QED
      BY <3>1, <3>2 DEF DeletionInv, LeftIsDoomed
  <2>2. CASE /\ boxes' = Deletion!Open("delete_one", {}, {r}, {r})
             /\ UNCHANGED <<script_runs, saved_runs, disk, gone>>
    <3> DEFINE box == [handler |-> "delete_one", left |-> {}, stuck |-> {r}, doomed |-> {r}]
    <3>1. /\ box \in Deletion!Box /\ box.handler = "delete_one" /\ box.left = {}
          /\ boxes' = Append(boxes, box) /\ boxes \in Seq(Deletion!Box)
      BY <2>2 DEF Deletion!Box, Deletion!Open, DeletionInv, Deletion!TypeOK
    <3> HIDE DEF box
    <3>2. /\ boxes' \in Seq(Deletion!Box) /\ LeftIsDoomed(boxes')
          /\ \A q : Doomed(boxes', q) <=> Doomed(boxes, q)
      BY <3>1, PushedBox DEF DeletionInv
    <3>3. UNCHANGED <<issued, failed>>
      BY <1>3 DEF Deletion!delete_script_run
    <3> QED
      BY <2>2, <3>2, <3>3 DEF DeletionInv, Deletion!TypeOK, Deletion!SavedHaveFiles,
         Deletion!OnDisk, RunIsKept, Doomed, LeftIsDoomed
  <2> QED
    BY <1>3, <2>1, <2>2 DEF Deletion!delete_script_run
<1>4. ASSUME NEW cutoff, Deletion!delete_script_runs_before(cutoff)
      PROVE  DeletionInv'
  <2> DEFINE doomed == {r \in Deletion!Runs : r < cutoff /\ script_runs[r] # Deletion!Absent}
  <2>1. /\ boxes = <<>> /\ Deletion!DeleteLoop(doomed, saved_runs, doomed, <<>>)
        /\ UNCHANGED <<issued, failed>>
    BY <1>4 DEF Deletion!delete_script_runs_before
  <2>2. doomed \in SUBSET Deletion!Runs
    OBVIOUS
  <2> HIDE DEF doomed
  <2>3. <<>> \in Seq(Deletion!Box) /\ LeftIsDoomed(<<>>) /\ saved_runs \in SUBSET saved_runs
    BY DEF LeftIsDoomed
  <2> QED
    BY <2>1, <2>2, <2>3, LoopKeeps
<1>5. CASE Deletion!close_box
  <2> DEFINE box == Deletion!Last(boxes)
             outer == Deletion!Front(boxes)
  <2>1. /\ box \in Deletion!Box /\ outer \in Seq(Deletion!Box) /\ boxes = Append(outer, box)
    BY <1>5, PoppedBox DEF Deletion!close_box, DeletionInv, Deletion!TypeOK
  <2>2. /\ LeftIsDoomed(outer) /\ box.left \subseteq box.doomed
        /\ \A r : Doomed(boxes, r) <=>
                     Doomed(outer, r) \/ (box.handler = "delete_before" /\ r \in box.doomed)
    <3> HIDE DEF box, outer
    <3> QED BY <2>1, PushedBox DEF DeletionInv
  <2>3. /\ box.left \in SUBSET Deletion!Runs /\ box.doomed \in SUBSET Deletion!Runs
        /\ UNCHANGED <<issued, failed>>
    BY <1>5, <2>1 DEF Deletion!Box, Deletion!close_box
  <2>4. \/ /\ box.handler = "persist" /\ boxes' = outer
           /\ UNCHANGED <<script_runs, saved_runs, disk, gone>>
        \/ /\ box.handler = "delete_one" /\ Deletion!Forget(box.doomed)
           /\ saved_runs' = saved_runs \ box.stuck /\ boxes' = outer /\ UNCHANGED <<disk, gone>>
        \/ /\ box.handler = "delete_before"
           /\ Deletion!DeleteLoop(box.left, saved_runs \ box.stuck, box.doomed, outer)
    BY <1>5 DEF Deletion!close_box
  <2> HIDE DEF box, outer
  <2>5. CASE box.handler = "persist" /\ boxes' = outer /\ UNCHANGED <<script_runs, saved_runs, disk, gone>>
    BY <2>1, <2>2, <2>3, <2>5 DEF DeletionInv, Deletion!TypeOK, Deletion!SavedHaveFiles,
         Deletion!OnDisk, RunIsKept, Doomed, LeftIsDoomed
  <2>6. CASE /\ box.handler = "delete_one" /\ Deletion!Forget(box.doomed)
             /\ saved_runs' = saved_runs \ box.stuck /\ boxes' = outer /\ UNCHANGED <<disk, gone>>
    <3>1. Deletion!TypeOK' /\ Deletion!SavedHaveFiles' /\ LeftIsDoomed(boxes')
      BY <2>1, <2>2, <2>3, <2>6 DEF DeletionInv, Deletion!TypeOK, Deletion!SavedHaveFiles,
           Deletion!OnDisk, Deletion!Forget
    <3>2. ASSUME NEW q \in Deletion!Runs PROVE RunIsKept(q)'
      <4>1. Doomed(boxes, q) <=> Doomed(boxes', q)
        BY <2>2, <2>6
      <4> QED
        BY <1>0, <2>3, <2>6, <4>1 DEF DeletionInv, RunIsKept, Doomed, Deletion!Forget
    <3> QED
      BY <3>1, <3>2 DEF DeletionInv, LeftIsDoomed
  <2>7. CASE /\ box.handler = "delete_before"
             /\ Deletion!DeleteLoop(box.left, saved_runs \ box.stuck, box.doomed, outer)
    <3>1. saved_runs \ box.stuck \in SUBSET saved_runs
      OBVIOUS
    <3> QED
      BY <2>1, <2>2, <2>3, <2>7, <3>1, LoopKeeps
  <2> QED BY <2>4, <2>5, <2>6, <2>7
<1>6. CASE Deletion!restart
  <2>1. /\ script_runs' = disk /\ saved_runs' = Deletion!OnDisk /\ boxes' = <<>> /\ failed' = {}
        /\ UNCHANGED <<issued, disk, gone>>
    BY <1>6 DEF Deletion!restart
  <2>2. Deletion!TypeOK' /\ Deletion!SavedHaveFiles'
    BY <2>1 DEF DeletionInv, Deletion!TypeOK, Deletion!SavedHaveFiles, Deletion!OnDisk
  <2>3. LeftIsDoomed(boxes')
    BY <2>1 DEF LeftIsDoomed
  <2>4. ASSUME NEW q \in Deletion!Runs PROVE RunIsKept(q)'
    <3>1. RunIsKept(q) /\ disk[q] \in {Deletion!Absent} \cup Deletion!Finished
      BY DEF DeletionInv, Deletion!TypeOK
    <3>2. /\ script_runs'[q] = disk[q] /\ disk'[q] = disk[q] /\ gone'[q] = gone[q]
          /\ issued' = issued
      BY <2>1
    <3>3. disk[q] # "waiting"
      BY <3>1 DEF Deletion!Absent, Deletion!Finished
    <3> QED
      BY <3>1, <3>2, <3>3 DEF RunIsKept
  <2> QED
    BY <2>2, <2>3, <2>4 DEF DeletionInv
<1>7. CASE UNCHANGED deletion
  BY <1>7 DEF deletion, DeletionInv, Deletion!TypeOK, Deletion!SavedHaveFiles, Deletion!OnDisk,
              RunIsKept, Doomed, LeftIsDoomed
<1>8. Deletion!Next \/ UNCHANGED deletion
  BY DeletionMoves
<1> QED
  BY <1>1, <1>2, <1>3, <1>4, <1>5, <1>6, <1>7, <1>8 DEF Deletion!Next

LEMMA DeletionInvariant == Spec => []DeletionInv
  BY DeletionInit, DeletionStep, PTL DEF Spec

(* The file of an answered run is replaced by an answer or removed.        *)
LEMMA AnswerIsKept ==
    ASSUME DeletionInv, [Next]_vars, NEW r \in Deletion!Runs, disk[r] = "answered"
    PROVE  disk'[r] \in {"answered", Deletion!Absent}
<1>0. Deletion!Absent # "answered" /\ disk \in [Deletion!Runs -> Deletion!Finished \cup {Deletion!Absent}]
  BY DEF Deletion!Absent, DeletionInv, Deletion!TypeOK
<1>1. ASSUME NEW q \in Deletion!Runs, NEW ending, Deletion!Becomes(q, ending),
             q = r => ending = "answered"
      PROVE  disk'[r] = disk[r]
  BY <1>0, <1>1 DEF Deletion!Becomes, Deletion!persist_run_if_finished, Deletion!Save, Deletion!NotSaved
<1>2. CASE Deletion!start_script_run
  <2>1. PICK ending \in {"waiting", "refused"} : Deletion!Becomes(issued', ending)
    BY <1>2 DEF Deletion!start_script_run
  <2>2. issued' \in Deletion!Runs /\ ~(issued' <= issued)
    BY <1>2, MaxRunAssumption DEF DeletionInv, Deletion!TypeOK, Deletion!start_script_run,
                                  Deletion!Runs, Deletion!MaxRunAssumption
  <2>3. issued' # r
    BY <1>0, <2>2 DEF DeletionInv, RunIsKept
  <2> QED BY <1>1, <2>1, <2>2, <2>3
<1>3. ASSUME NEW q \in Deletion!Runs, Deletion!on_script_result(q) PROVE disk'[r] = disk[r]
  BY <1>1, <1>3 DEF Deletion!on_script_result
<1>4. ASSUME NEW q \in Deletion!Runs, Deletion!on_run_deadline(q) PROVE disk'[r] = disk[r]
  <2>1. q # r
    BY <1>0, <1>4 DEF DeletionInv, RunIsKept, Deletion!on_run_deadline
  <2> QED BY <1>1, <1>4, <2>1 DEF Deletion!on_run_deadline
<1>5. ASSUME NEW removed, Deletion!Removed(removed) PROVE disk'[r] \in {disk[r], Deletion!Absent}
  BY <1>5 DEF Deletion!Removed
<1>6. ASSUME NEW left, NEW kept, NEW doomed, NEW opened, Deletion!DeleteLoop(left, kept, doomed, opened)
      PROVE  disk'[r] \in {disk[r], Deletion!Absent}
  BY <1>5, <1>6 DEF Deletion!DeleteLoop
<1>7. ASSUME NEW q \in Deletion!Runs, Deletion!delete_script_run(q)
      PROVE  disk'[r] \in {disk[r], Deletion!Absent}
  BY <1>5, <1>7 DEF Deletion!delete_script_run
<1>8. ASSUME NEW cutoff, Deletion!delete_script_runs_before(cutoff)
      PROVE  disk'[r] \in {disk[r], Deletion!Absent}
  BY <1>6, <1>8 DEF Deletion!delete_script_runs_before
<1>9. CASE Deletion!close_box
  BY <1>6, <1>9 DEF Deletion!close_box
<1>10. CASE Deletion!restart \/ UNCHANGED deletion
  BY <1>10 DEF Deletion!restart, deletion
<1>11. Deletion!Next \/ UNCHANGED deletion
  BY DeletionMoves
<1> QED
  BY <1>0, <1>2, <1>3, <1>4, <1>7, <1>8, <1>9, <1>10, <1>11 DEF Deletion!Next

THEOREM AnswersSurvive == Spec => DeletionsAndAnswersHold
<1>1. DeletionInv => (part = "deletion" => /\ Deletion!TypeOK
                                           /\ Deletion!SavedHaveFiles
                                           /\ Deletion!DeletedAloneIsGone
                                           /\ Deletion!RecordsKeepUp)
  BY DEF DeletionInv, RunIsKept, Doomed, Deletion!DeletedAloneIsGone, Deletion!RecordsKeepUp
<1>2. DeletionInv /\ [Next]_vars =>
        [\A r \in Deletion!Runs :
            disk[r] = "answered" => disk'[r] \in {"answered", Deletion!Absent}]_(Deletion!vars)
  BY AnswerIsKept
<1> QED
  BY <1>1, <1>2, DeletionInvariant, PTL DEF Spec, DeletionsAndAnswersHold, Deletion!AnswersKept

-----------------------------------------------------------------------------
(* RunStore.  A record keeps whole seconds, and days are whole seconds.    *)

LEMMA Division ==
    ASSUME NEW a \in Nat, NEW b \in Nat \ {0}
    PROVE  /\ a \div b \in Nat
           /\ (a \div b) * b <= a
           /\ a < ((a \div b) + 1) * b
  OBVIOUS

LEMMA QuotientIsUnique ==
    ASSUME NEW a \in Nat, NEW b \in Nat \ {0}, NEW q \in Nat, q * b <= a, a < (q + 1) * b
    PROVE  a \div b = q
<1> DEFINE p == a \div b
<1>1. p \in Nat /\ p * b <= a /\ a < (p + 1) * b
  BY Division
<1> HIDE DEF p
<1>2. ~(p + 1 <= q)
  BY <1>1
<1>3. ~(q + 1 <= p)
  BY <1>1
<1> QED
  BY <1>1, <1>2, <1>3 DEF p

LEMMA WholeSecondsKeepTheDay ==
    ASSUME NEW t \in Nat
    PROVE  Store!DayOf((t \div Second) * Second) = Store!DayOf(t)
<1> DEFINE s == t \div Second
           length == Second * Day
           d == t \div length
<1>1. Second \in Nat \ {0} /\ Day \in Nat \ {0}
  BY TimeAssumption DEF Store!TimeAssumption
<1>2. length \in Nat \ {0} /\ length = Day * Second
  BY <1>1
<1>3. s \in Nat /\ s * Second <= t /\ t < (s + 1) * Second
  BY <1>1, Division
<1> HIDE DEF length
<1>4. d \in Nat /\ d * length <= t /\ t < (d + 1) * length
  BY <1>2, Division
<1> HIDE DEF s, d
<1>5. (d * Day) * Second < (s + 1) * Second
  BY <1>1, <1>2, <1>3, <1>4
<1>6. d * Day < s + 1
  BY <1>1, <1>3, <1>4, <1>5
<1>7. d * length <= s * Second /\ s * Second < (d + 1) * length
  BY <1>1, <1>2, <1>3, <1>4, <1>6
<1>8. s * Second \in Nat
  BY <1>1, <1>3
<1>9. (s * Second) \div length = d
  BY <1>2, <1>4, <1>7, <1>8, QuotientIsUnique
<1> QED
  BY <1>9 DEF s, d, length, Store!DayOf

(* A file that nobody damaged holds the record of the run that was last    *)
(* saved to it, and nothing else; a save is under way from its first step  *)
(* until it is renamed, refused or cut off.                                *)

FileIsRecord(r) ==
    \/ dir[r] = Store!NoFile /\ stored[r] = Store!NoRun
    \/ dir[r] = Store!Damaged
    \/ /\ stored[r] \in Store!Run /\ stored[r].run_id = r
       /\ dir[r] = Store!File(Store!run_to_json(stored[r]))

StoreInv ==
    /\ temporary \subseteq StoredRuns
    /\ storing \in Store!Run \cup {Store!NoRun}
    /\ store_step \in {"idle", "opened", "written", "ended"}
    /\ store_step = "idle" <=> storing = Store!NoRun
    /\ stored \in [StoredRuns -> Store!Run \cup {Store!NoRun}]
    /\ DOMAIN dir = StoredRuns /\ dir = [r \in StoredRuns |-> dir[r]]
    /\ \A r \in StoredRuns : FileIsRecord(r)
    /\ errors \subseteq StoredRuns

LEMMA StoreMoves == [Next]_vars => Store!Next \/ UNCHANGED store
  BY Zenon DEF Next, vars

LEMMA NoRunIsNoRun == Store!NoRun \notin Store!Run
<1>1. ASSUME NEW run \in Store!Run PROVE run.run_id # -1
  BY RunsAssumption DEF Store!Run, Store!RunsAssumption
<1>2. Store!NoRun.run_id = -1
  BY DEF Store!NoRun
<1> QED BY <1>1, <1>2

LEMMA KindsOfFiles ==
    /\ Store!NoFile.is = "absent" /\ Store!Damaged.is = "damaged"
    /\ \A d : Store!File(d).is = "document" /\ Store!File(d).holds = d
  BY DEF Store!NoFile, Store!Damaged, Store!File

(* The record of a run, and the run that is read back from it. *)
LEMMA RecordOfRun ==
    ASSUME NEW run \in Store!Run
    PROVE  /\ Store!run_to_json(run) \in Store!Document
           /\ Store!run_to_json(run).run_id = run.run_id
           /\ Store!run_from_json(Store!run_to_json(run)).run_id = run.run_id
           /\ Store!run_from_json(Store!run_to_json(run)).version = run.version
           /\ Store!run_from_json(Store!run_to_json(run)).issued_at
                = (run.issued_at \div Second) * Second
<1>1. run.issued_at \in Nat /\ Second \in Nat \ {0}
  BY TimeAssumption DEF Store!Run, Store!TimeAssumption
<1>2. run.issued_at \div Second \in Nat
  BY <1>1, Division
<1>3. Store!run_to_json(run) = [run_id |-> run.run_id, version |-> run.version,
                                issued_at |-> run.issued_at \div Second]
  BY DEF Store!Run, Store!run_to_json
<1> QED
  BY <1>2, <1>3 DEF Store!Run, Store!Document, Store!run_from_json

LEMMA StoreInit == Init => StoreInv
  BY DEF Init, Store!Init, StoreInv, FileIsRecord

LEMMA StoreStep == StoreInv /\ [Next]_vars => StoreInv'
<1> SUFFICES ASSUME StoreInv, [Next]_vars PROVE StoreInv'
  OBVIOUS
<1> USE DEF StoreInv
<1>1. ASSUME NEW run \in Store!Run, Store!open(run) PROVE StoreInv'
  <2>1. run.run_id \in StoredRuns /\ run # Store!NoRun
    BY NoRunIsNoRun DEF Store!Run
  <2> QED
    BY <1>1, <2>1 DEF Store!open, FileIsRecord
<1>2. CASE Store!write \/ Store!dump_throws \/ Store!save_fails
  BY <1>2 DEF Store!write, Store!dump_throws, Store!save_fails, FileIsRecord
<1>3. CASE Store!commit
  <2> DEFINE id == storing.run_id
  <2>1. storing \in Store!Run /\ storing # Store!NoRun /\ id \in StoredRuns
    BY <1>3, NoRunIsNoRun DEF Store!commit, Store!Run
  <2>2. /\ dir' = [dir EXCEPT ![id] = Store!File(Store!run_to_json(storing))]
        /\ stored' = [stored EXCEPT ![id] = storing]
    BY <1>3 DEF Store!commit, Store!run_file_path
  <2>3. ASSUME NEW r \in StoredRuns PROVE FileIsRecord(r)'
    BY <2>1, <2>2 DEF FileIsRecord, Store!run_to_json
  <2>4. DOMAIN dir' = StoredRuns /\ dir' = [r \in StoredRuns |-> dir'[r]]
    BY <2>2
  <2> QED
    BY <1>3, <2>1, <2>2, <2>3, <2>4 DEF Store!commit
<1>4. ASSUME NEW r \in StoredRuns, Store!delete_run(r) PROVE StoreInv'
  BY <1>4 DEF Store!delete_run, FileIsRecord
<1>5. ASSUME NEW r \in StoredRuns, Store!damage(r) PROVE StoreInv'
  BY <1>5 DEF Store!damage, FileIsRecord
<1>6. CASE Store!restart
  BY <1>6 DEF Store!restart, FileIsRecord
<1>7. CASE UNCHANGED store
  BY <1>7 DEF store, FileIsRecord
<1> QED
  BY <1>1, <1>2, <1>3, <1>4, <1>5, <1>6, <1>7, StoreMoves DEF Store!Next

LEMMA StoreInvariant == Spec => []StoreInv
  BY StoreInit, StoreStep, PTL DEF Spec

LEMMA StoreInvImplies == StoreInv => Store!TypeOK /\ Store!DayIsKept
<1> SUFFICES ASSUME StoreInv PROVE Store!TypeOK /\ Store!DayIsKept
  OBVIOUS
<1>1. ASSUME NEW r \in StoredRuns, dir[r].is = "document"
      PROVE  /\ stored[r] \in Store!Run /\ stored[r].run_id = r
             /\ dir[r].holds = Store!run_to_json(stored[r])
  BY <1>1, KindsOfFiles DEF StoreInv, FileIsRecord
<1>2. ASSUME NEW r \in StoredRuns
      PROVE  \/ dir[r] \in {Store!NoFile, Store!Damaged}
             \/ /\ dir[r].is = "document" /\ dir[r].holds \in Store!Document
                /\ dir[r].holds.run_id = r
  <2>1. dir[r] \in {Store!NoFile, Store!Damaged} \/ dir[r].is = "document"
    BY KindsOfFiles DEF StoreInv, FileIsRecord
  <2> QED
    BY <1>1, <2>1, RecordOfRun
<1>3. ASSUME NEW r \in StoredRuns, dir[r].is = "document"
      PROVE  Store!DayOf(Store!run_from_json(dir[r].holds).issued_at)
               = Store!DayOf(stored[r].issued_at)
  <2>1. stored[r].issued_at \in Nat
    BY <1>1, <1>3, TimeAssumption DEF Store!Run, Store!TimeAssumption
  <2>2. Store!run_from_json(dir[r].holds).issued_at = (stored[r].issued_at \div Second) * Second
    BY <1>1, <1>3, RecordOfRun
  <2> QED
    BY <2>1, <2>2, WholeSecondsKeepTheDay
<1> QED
  BY <1>2, <1>3 DEF StoreInv, Store!TypeOK, Store!DayIsKept

(* What a start loads: the record of every file that is one, and no other. *)
LEMMA LoadedIsSaved ==
    ASSUME StoreInv, Store!restart, NEW r \in StoredRuns
    PROVE  IF dir[r] = Store!Damaged THEN r \in errors'
           ELSE IF stored[r] = Store!NoRun THEN Store!Loaded(r)' = {}
           ELSE \E run \in runs' : /\ run.run_id = r /\ run.version = stored[r].version
                                   /\ Store!Loaded(r)' = {run}
<1> DEFINE kept == {q \in StoredRuns : dir[q].is = "document"}
           loaded_from(q) == Store!run_from_json(dir[q].holds)
<1>1. /\ runs' = {loaded_from(q) : q \in kept}
      /\ errors' = {q \in StoredRuns : dir[q].is = "damaged"}
  BY DEF Store!restart, Store!load_runs
<1>2. ASSUME NEW q \in kept
      PROVE  loaded_from(q).run_id = q /\ loaded_from(q).version = stored[q].version
  <2>1. stored[q] \in Store!Run /\ stored[q].run_id = q /\ dir[q].holds = Store!run_to_json(stored[q])
    BY KindsOfFiles DEF StoreInv, FileIsRecord
  <2> QED
    BY <2>1, RecordOfRun
<1> HIDE DEF loaded_from
<1>3. Store!Loaded(r)' = {loaded_from(q) : q \in kept \cap {r}}
  BY <1>1, <1>2 DEF Store!Loaded
<1>4. CASE dir[r] = Store!Damaged
  BY <1>1, <1>4, KindsOfFiles
<1>5. CASE dir[r] # Store!Damaged /\ stored[r] = Store!NoRun
  <2>1. r \notin kept
    BY <1>5, NoRunIsNoRun, KindsOfFiles DEF StoreInv, FileIsRecord
  <2> QED
    BY <1>3, <1>5, <2>1
<1>6. CASE dir[r] # Store!Damaged /\ stored[r] # Store!NoRun
  <2>1. r \in kept
    BY <1>6, KindsOfFiles DEF StoreInv, FileIsRecord
  <2> QED
    BY <1>1, <1>2, <1>3, <1>6, <2>1
<1> QED
  BY <1>4, <1>5, <1>6

(* Nothing damages a file but a disturbance from outside. *)
LEMMA OnlyDamageDamages ==
    ASSUME StoreInv, [Next]_vars, NEW r \in StoredRuns,
           dir[r] # Store!Damaged, dir'[r] = Store!Damaged
    PROVE  store_step = "idle" /\ storing' = Store!NoRun
<1>1. CASE \E q \in StoredRuns : Store!damage(q)
  BY <1>1 DEF StoreInv, Store!damage
<1>2. CASE Store!commit
  BY <1>2, KindsOfFiles DEF StoreInv, Store!commit
<1>3. CASE \E q \in StoredRuns : Store!delete_run(q)
  BY <1>3, KindsOfFiles DEF StoreInv, Store!delete_run
<1>4. CASE \/ \E run \in Store!Run : Store!open(run)
           \/ Store!write \/ Store!dump_throws \/ Store!save_fails \/ Store!restart \/ UNCHANGED store
  BY <1>4 DEF Store!open, Store!write, Store!dump_throws, Store!save_fails, Store!restart, store
<1> QED
  BY <1>1, <1>2, <1>3, <1>4, StoreMoves DEF Store!Next

(* What save_run() wrote is what load_runs() reads at the next start, for  *)
(* every file that nobody damaged, wherever a save was refused or cut off. *)
THEOREM RunsAreStored == Spec => RecordsSurvive
<1>1. StoreInv => (part = "store" => Store!TypeOK /\ Store!DayIsKept)
  BY StoreInvImplies
<1>2. StoreInv =>
        [Store!restart => \A r \in StoredRuns :
            IF dir[r] = Store!Damaged THEN r \in errors'
            ELSE IF stored[r] = Store!NoRun THEN Store!Loaded(r)' = {}
            ELSE \E run \in runs' : /\ run.run_id = r /\ run.version = stored[r].version
                                    /\ Store!Loaded(r)' = {run}]_(Store!vars)
  BY LoadedIsSaved
<1>3. StoreInv /\ [Next]_vars =>
        [\A r \in StoredRuns : dir[r] # Store!Damaged /\ dir'[r] = Store!Damaged
            => store_step = "idle" /\ storing' = Store!NoRun]_(Store!vars)
  BY OnlyDamageDamages
<1> QED
  BY <1>1, <1>2, <1>3, StoreInvariant, PTL
  DEF Spec, RecordsSurvive, Store!LoadsWhatWasSaved, Store!SavingDamagesNothing

-----------------------------------------------------------------------------
(* ScriptComposer.  Between two slots the preview is of the script that is *)
(* selected, and it is what the operator has read unless a changed script  *)
(* waits to be accepted; the ticks are those that the operator set, as far *)
(* as their hosts are still listed.                                        *)

ComposerInv ==
    /\ fleet \subseteq Hosts /\ host_rows = fleet
    /\ ticked \subseteq host_rows /\ chosen = ticked
    /\ share_changes \in 0 .. MaxChanges
    /\ scripts \subseteq Scripts /\ script \in scripts \cup {Composer!None}
    /\ previewed \in Bodies \cup {Composer!None}
    /\ previewed = Composer!None <=> script = Composer!None
    /\ pending \in BOOLEAN
    /\ pending = TRUE => script # Composer!None
    /\ pending = FALSE => read = previewed
    /\ run_button = (ticked # {} /\ (page = "editor" \/ script # Composer!None) /\ ~pending)
    /\ label = Composer!Cardinality(ticked)
    /\ message \in {Composer!None, "unconfigured", "unreachable", "truncated", "empty"}
    /\ there \subseteq Scripts
    /\ Composer!MessageIsTrue

LEMMA ComposerMoves == [Next]_vars => Composer!Next \/ UNCHANGED composer
  BY Zenon DEF Next, vars

LEMMA ComposerInit == Init => ComposerInv
<1>1. Composer!Cardinality({}) = 0
  <2>1. Composer!Cardinality({}) = Cardinality({})
    BY DEF Cardinality, Composer!Cardinality
  <2> QED BY <2>1, FS_EmptySet
<1> SUFFICES ASSUME Init PROVE ComposerInv
  OBVIOUS
<1>2. /\ fleet \in SUBSET Hosts /\ share_changes = 0 /\ host_rows = fleet /\ ticked = {}
      /\ chosen = {} /\ scripts = {} /\ message = "unconfigured" /\ there = {}
      /\ unread = FALSE
      /\ page = "library" /\ script = Composer!None /\ previewed = Composer!None
      /\ read = Composer!None /\ pending = FALSE /\ run_button = FALSE /\ label = 0
  BY DEF Init, Composer!Init
<1>3. Composer!MessageIsTrue
  BY <1>2 DEF Composer!MessageIsTrue, Composer!None
<1>4. run_button = (ticked # {} /\ (page = "editor" \/ script # Composer!None) /\ ~pending)
  BY <1>2
<1>5. share_changes \in 0 .. MaxChanges
  BY <1>2, ComposerAssumption DEF Composer!ComposerAssumption
<1> QED
  BY <1>1, <1>2, <1>3, <1>4, <1>5 DEF ComposerInv

(* What a walk of the share says of it. *)
LEMMA WalkIsTold ==
    ASSUME Composer!reload_library
    PROVE  /\ scripts' \subseteq Scripts /\ there' \subseteq Scripts
           /\ message' \in {Composer!None, "unreachable", "truncated", "empty"}
           /\ Composer!MessageIsTrue'
<1>1. CASE ~reachable
  BY <1>1 DEF Composer!reload_library, Composer!MessageIsTrue, Composer!None
<1>2. CASE reachable
  <2>1. PICK found \in SUBSET Composer!InShare, folders \in BOOLEAN, walk \in Composer!Walks :
          /\ Composer!Listing(found, folders, walk)
          /\ scripts' = found /\ message' = Composer!MessageFor(found, folders, walk)
          /\ there' = Composer!InShare /\ unread' = (walk = "unread")
    BY <1>2 DEF Composer!reload_library
  <2>2. Composer!InShare \subseteq Scripts
    BY DEF Composer!InShare
  <2>3. \A s \in Scripts : Depth[s] \in Nat /\ kMaxDepth \in Nat
    BY ComposerAssumption DEF Composer!ComposerAssumption
  <2>4. CASE walk # "whole"
    BY <2>1, <2>2, <2>4 DEF Composer!Walks, Composer!MessageFor, Composer!MessageIsTrue, Composer!None
  <2>5. CASE walk = "whole"
    <3>1. found = {s \in Composer!InShare : Depth[s] <= kMaxDepth}
      BY <2>1, <2>5 DEF Composer!Listing
    <3>2. message' = IF found = {} /\ ~folders THEN "empty" ELSE Composer!None
      BY <2>1, <2>5 DEF Composer!MessageFor
    <3>3. CASE folders \/ found # {}
      BY <2>1, <2>2, <3>1, <3>2, <3>3 DEF Composer!MessageIsTrue, Composer!None
    <3>4. CASE ~folders /\ found = {}
      <4>1. \A s \in Composer!InShare : ~(Depth[s] > 0)
        BY <2>1, <2>5, <3>4 DEF Composer!Listing
      <4>2. \A s \in Composer!InShare : Depth[s] <= kMaxDepth
        BY <2>2, <2>3, <4>1
      <4>3. Composer!InShare = {}
        BY <3>1, <3>4, <4>2
      <4>4. scripts' = {} /\ there' = {}
        BY <2>1, <3>4, <4>3
      <4>5. scripts' \subseteq there' /\ {s \in there' : Depth[s] <= kMaxDepth} \subseteq scripts'
        BY <4>4
      <4>6. message' = "empty"
        BY <3>2, <3>4
      <4>7. Composer!MessageIsTrue'
        BY <4>4, <4>5, <4>6 DEF Composer!MessageIsTrue
      <4> QED BY <2>1, <2>2, <3>4, <4>4, <4>6, <4>7
    <3> QED BY <3>3, <3>4
  <2> QED BY <2>4, <2>5
<1> QED BY <1>1, <1>2

LEMMA ComposerStep == ComposerInv /\ [Next]_vars => ComposerInv'
<1> SUFFICES ASSUME ComposerInv, [Next]_vars PROVE ComposerInv'
  OBVIOUS
<1>0. Composer!None \notin Scripts /\ Composer!None \notin Bodies /\ MaxChanges \in Nat
  BY ComposerAssumption DEF Composer!ComposerAssumption
<1>1. CASE Composer!ShareWritten
  BY <1>0, <1>1 DEF ComposerInv, Composer!ShareWritten, Composer!Changing, Composer!list, Composer!tree,
     Composer!body, Composer!MessageIsTrue
<1>2. CASE Composer!rebuild_host_list
  BY <1>0, <1>2 DEF ComposerInv, Composer!rebuild_host_list, Composer!Changing, Composer!TickedAgain,
     Composer!tree, Composer!body, Composer!update_target_count, Composer!may_run,
     Composer!MessageIsTrue
<1>3. ASSUME NEW h \in Hosts, Composer!Tick(h) PROVE ComposerInv'
  BY <1>3 DEF ComposerInv, Composer!Tick, Composer!world, Composer!tree, Composer!body,
     Composer!update_target_count, Composer!may_run, Composer!MessageIsTrue
<1>4. ASSUME NEW all \in BOOLEAN, Composer!TickAll(all) PROVE ComposerInv'
  BY <1>4 DEF ComposerInv, Composer!TickAll, Composer!world, Composer!tree, Composer!body,
     Composer!update_target_count, Composer!may_run, Composer!MessageIsTrue
<1>5. ASSUME NEW other, Composer!currentChanged(other) PROVE ComposerInv'
  BY <1>5 DEF ComposerInv, Composer!currentChanged, Composer!world, Composer!list, Composer!tree,
     Composer!update_target_count, Composer!may_run, Composer!MessageIsTrue
<1>6. CASE Composer!Edit
  BY <1>6 DEF ComposerInv, Composer!Edit, Composer!world, Composer!list, Composer!tree,
     Composer!MessageIsTrue
<1>7. ASSUME NEW s, Composer!on_script_selection_changed(s) PROVE ComposerInv'
  BY <1>0, <1>7 DEF ComposerInv, Composer!on_script_selection_changed, Composer!Readable,
     Composer!clear_changed_script_block, Composer!world, Composer!list, Composer!tree,
     Composer!update_target_count, Composer!may_run, Composer!MessageIsTrue
<1>8. CASE Composer!reload_library
  <2>1. /\ UNCHANGED <<fleet, host_rows, ticked, chosen, share_changes, page>>
        /\ script' = Composer!None /\ previewed' = Composer!None /\ read' = Composer!None
        /\ pending' = FALSE
        /\ run_button' = (ticked' # {} /\ (page' = "editor" \/ script' # Composer!None) /\ ~pending')
        /\ label' = Composer!Cardinality(ticked')
    BY <1>8 DEF Composer!reload_library, Composer!clear_changed_script_block, Composer!world,
       Composer!list, Composer!update_target_count, Composer!may_run
  <2> QED
    BY <1>8, <2>1, WalkIsTold DEF ComposerInv
<1>9. CASE Composer!accept_changed
  BY <1>9 DEF ComposerInv, Composer!accept_changed, Composer!clear_changed_script_block,
     Composer!world, Composer!list, Composer!tree, Composer!update_target_count, Composer!may_run,
     Composer!MessageIsTrue
<1>10. CASE Composer!run_custom \/ Composer!run_script
  <2>1. PICK name, what : Composer!start_script_run(name, what)
    BY <1>10 DEF Composer!run_custom, Composer!run_script
  <2> QED
    BY <2>1 DEF ComposerInv, Composer!start_script_run, Composer!world, Composer!list,
       Composer!tree, Composer!body, Composer!MessageIsTrue
<1>11. CASE Composer!run_blocked
  BY <1>0, <1>11 DEF ComposerInv, Composer!run_blocked, Composer!Readable, Composer!world,
     Composer!list, Composer!tree, Composer!update_target_count, Composer!may_run,
     Composer!MessageIsTrue
<1>12. CASE UNCHANGED composer
  BY <1>12 DEF ComposerInv, composer, Composer!MessageIsTrue
<1> QED
  BY <1>1, <1>2, <1>3, <1>4, <1>5, <1>6, <1>7, <1>8, <1>9, <1>10, <1>11, <1>12, ComposerMoves
  DEF Composer!Next

LEMMA ComposerInvariant == Spec => []ComposerInv
  BY ComposerInit, ComposerStep, PTL DEF Spec

(* Only the three ways to press Run send anything, and one of them does    *)
(* not.                                                                    *)
LEMMA SentAsRead ==
    ASSUME ComposerInv, [Next]_vars, sent' # sent
    PROVE  /\ sent'.hosts = chosen /\ sent'.hosts \subseteq fleet
           /\ page = "library" => /\ sent'.script_body = read /\ sent'.script_body = previewed
                                  /\ sent'.script_name = script
           /\ page # "library" => sent'.script_body = editor
<1>1. Composer!run_custom \/ Composer!run_script
  BY ComposerMoves DEF Composer!Next, Composer!ShareWritten, Composer!rebuild_host_list,
     Composer!Tick, Composer!TickAll, Composer!currentChanged, Composer!Edit,
     Composer!on_script_selection_changed, Composer!reload_library, Composer!accept_changed,
     Composer!run_blocked, composer
<1>2. CASE Composer!run_custom
  <2>1. page = "editor"
    BY <1>2 DEF Composer!run_custom
  <2>2. sent'.script_body = editor /\ sent'.hosts = ticked
    BY <1>2 DEF Composer!run_custom, Composer!start_script_run
  <2> QED
    BY <2>1, <2>2 DEF ComposerInv
<1>3. CASE Composer!run_script
  <2>1. page = "library" /\ ~pending /\ share[script] = previewed
    BY <1>3 DEF Composer!run_script
  <2>2. sent'.script_name = script /\ sent'.script_body = share[script] /\ sent'.hosts = ticked
    BY <1>3 DEF Composer!run_script, Composer!start_script_run
  <2> QED
    BY <2>1, <2>2 DEF ComposerInv
<1> QED
  BY <1>1, <1>2, <1>3

(* What runs is what the operator read, where it was ticked; and what the  *)
(* list says of a share that was read without a failure is so.             *)
THEOREM ConfirmedRunsRun == Spec => RunsAsConfirmed
<1>1. ComposerInv => (part = "composer" =>
        Composer!TypeOK /\ Composer!RunButtonIsTrue /\ Composer!MessageIsTrue)
  BY DEF ComposerInv, Composer!TypeOK, Composer!RunButtonIsTrue
<1>2. ComposerInv /\ [Next]_vars =>
        [sent' # sent =>
           LET said == sent'.script_body
           IN IF page = "library"
              THEN said = read /\ said = previewed /\ sent'.script_name = script
              ELSE said = editor]_(Composer!vars)
  BY SentAsRead
<1>3. ComposerInv /\ [Next]_vars =>
        [sent' # sent => sent'.hosts = chosen /\ sent'.hosts \subseteq fleet]_(Composer!vars)
  BY SentAsRead
<1> QED
  BY <1>1, <1>2, <1>3, ComposerInvariant, PTL
  DEF Spec, RunsAsConfirmed, Composer!RunsWhatWasRead, Composer!RunsWhereItWasTicked

-----------------------------------------------------------------------------
(* RunView.  Every slot leaves the widgets as the controller is, and the   *)
(* row that is highlighted is of the run on screen, so that rebuilding the *)
(* list around one run that goes leaves nothing of it.                     *)

RunsAreListed ==
    /\ listed \in Seq(ViewedRuns) /\ past \subseteq ViewedRuns
    /\ \A i, j \in DOMAIN listed : listed[i] = listed[j] => i = j
    /\ \A i \in DOMAIN listed : listed[i] \notin past
    /\ state = [r \in ViewedRuns |-> state[r]]
    /\ \A i \in DOMAIN listed :
          state[listed[i]] \in [DOMAIN HostsOf[listed[i]] -> View!TargetStates]

OnScreen ==
    /\ displayed \in View!ToSet(listed) \cup {View!None}
    /\ current = displayed
    /\ target \in 0 .. Len(target_rows)
    /\ View!ViewIsCurrent

ViewInv == RunsAreListed /\ OnScreen /\ View!HistoryIsCurrent

LEMMA ViewMoves == [Next]_vars => View!Next \/ UNCHANGED run_view
  BY Zenon DEF Next, vars

LEMMA HostsAreListed ==
    /\ View!None \notin ViewedRuns
    /\ \A r \in ViewedRuns : Len(HostsOf[r]) \in Nat \ {0} /\ DOMAIN HostsOf[r] = 1 .. Len(HostsOf[r])
<1> SUFFICES ASSUME NEW r \in ViewedRuns
             PROVE  Len(HostsOf[r]) \in Nat \ {0} /\ DOMAIN HostsOf[r] = 1 .. Len(HostsOf[r])
  BY ViewAssumption DEF View!ViewAssumption
<1>1. HostsOf[r] # <<>> /\ HostsOf[r] \in Seq(View!ToSet(HostsOf[r]))
  BY ViewAssumption DEF View!ViewAssumption
<1> QED
  BY <1>1

LEMMA ViewInit == Init => ViewInv
<1> SUFFICES ASSUME Init PROVE ViewInv
  OBVIOUS
<1>1. View!Init
  BY DEF Init
<1>2. RunsAreListed
  BY <1>1 DEF View!Init, RunsAreListed
<1>3. OnScreen
  BY <1>1 DEF View!Init, OnScreen, View!ViewIsCurrent
<1>4. View!HistoryIsCurrent
  BY <1>1 DEF View!Init, View!HistoryIsCurrent, View!Reverse
<1> QED
  BY <1>2, <1>3, <1>4 DEF ViewInv

(* What the slots do, whatever the controller did before them. *)
LEMMA HistoryIsRebuilt ==
    ASSUME listed' \in Seq(ViewedRuns), NEW r, View!rebuild_from(r)
    PROVE  View!HistoryIsCurrent'
<1>1. /\ View!Reverse(listed') = [i \in 1 .. Len(listed') |-> listed'[(Len(listed') - i) + 1]]
      /\ Len(listed') \in Nat
  BY DEF View!Reverse
<1> DEFINE newest == View!Reverse(listed')
<1>2. history' = [i \in 1 .. Len(listed') |-> <<newest[i], View!summarise(state'[newest[i]])>>]
  BY DEF View!rebuild_from, View!history_row_text
<1>3. newest = [i \in 1 .. Len(listed') |-> newest[i]]
  BY <1>1
<1> HIDE DEF newest
<1>4. /\ [i \in DOMAIN history' |-> history'[i][1]] = newest
      /\ \A i \in DOMAIN history' : history'[i][2] = View!summarise(state'[history'[i][1]])
  BY <1>2, <1>3
<1> QED
  BY <1>4 DEF newest, View!HistoryIsCurrent

LEMMA HistoryIsUpdated ==
    ASSUME View!HistoryIsCurrent, NEW r, View!update_run_history_row(r), UNCHANGED listed,
           listed \in Seq(ViewedRuns), \A s \in ViewedRuns \ {r} : state'[s] = state[s]
    PROVE  View!HistoryIsCurrent'
<1>1. history' = [i \in DOMAIN history |->
                    IF history[i][1] = r THEN <<r, View!summarise(state'[r])>> ELSE history[i]]
  BY DEF View!update_run_history_row, View!history_row_text
<1>2. /\ [i \in DOMAIN history |-> history[i][1]] = View!Reverse(listed)
      /\ \A i \in DOMAIN history : history[i][2] = View!summarise(state[history[i][1]])
  BY DEF View!HistoryIsCurrent
<1>3. \A i \in DOMAIN history : history[i][1] \in ViewedRuns
  <2> DEFINE newest == View!Reverse(listed)
  <2>1. newest = [i \in 1 .. Len(listed) |-> listed[(Len(listed) - i) + 1]] /\ Len(listed) \in Nat
    BY DEF View!Reverse
  <2>2. \A i \in DOMAIN newest : newest[i] \in ViewedRuns
    BY <2>1
  <2> HIDE DEF newest
  <2>3. DOMAIN history = DOMAIN newest /\ \A i \in DOMAIN history : history[i][1] = newest[i]
    BY <1>2 DEF newest
  <2> QED
    BY <2>2, <2>3
<1>4. /\ [i \in DOMAIN history' |-> history'[i][1]] = [i \in DOMAIN history |-> history[i][1]]
      /\ \A i \in DOMAIN history' : history'[i][2] = View!summarise(state'[history'[i][1]])
  BY <1>1, <1>2, <1>3
<1>5. View!Reverse(listed)' = View!Reverse(listed)
  OBVIOUS
<1> QED
  BY <1>2, <1>4, <1>5 DEF View!HistoryIsCurrent

LEMMA ScreenIsRefreshed ==
    ASSUME listed' \in Seq(ViewedRuns), displayed' \in View!ToSet(listed') \cup {View!None},
           target \in Nat, View!refresh_run_view
    PROVE  View!ViewIsCurrent' /\ target' \in 0 .. Len(target_rows')
<1>1. View!ToSet(listed') \subseteq ViewedRuns
  BY DEF View!ToSet
<1>2. CASE displayed' = View!None
  <2>1. View!displayed_run = View!None
    BY <1>2 DEF View!displayed_run
  <2>2. /\ target_rows' = [row_of \in 1 .. 0 |-> View!Target(View!None, row_of)]
        /\ tally' = "no_run_yet" /\ target' \in View!Left(target, 0)
    BY <2>1 DEF View!refresh_run_view, View!refresh_from
  <2>3. target_rows' = <<>> /\ target' = 0
    BY <2>2 DEF View!Left
  <2> QED
    BY <1>2, <2>2, <2>3 DEF View!ViewIsCurrent
<1>3. CASE displayed' # View!None
  <2>1. /\ displayed' \in View!ToSet(listed') /\ displayed' \in ViewedRuns
        /\ View!displayed_run = displayed'
    BY <1>1, <1>3 DEF View!displayed_run
  <2> DEFINE count == Len(HostsOf[displayed'])
             now == [i \in DOMAIN HostsOf[displayed'] |->
                        [host |-> HostsOf[displayed'][i], state |-> state'[displayed'][i]]]
  <2>2. count \in Nat /\ DOMAIN HostsOf[displayed'] = 1 .. count
    BY <2>1, HostsAreListed
  <2>3. /\ target_rows' = [row_of \in 1 .. count |-> View!Target(displayed', row_of)]
        /\ tally' = View!summarise(state'[displayed']) /\ target' \in View!Left(target, count)
        /\ View!update_run_output
    BY <1>3, <2>1 DEF View!refresh_run_view, View!refresh_from, View!history_row_text
  <2>4. target_rows' = now
    BY <2>2, <2>3 DEF View!Target
  <2>5. target' \in 0 .. count /\ Len(target_rows') = count
    BY <2>2, <2>3 DEF View!Left
  <2>6. output' = IF target' = 0 THEN "select_a_host" ELSE View!output_for(View!Target(displayed', target'))
    BY <1>3, <2>1, <2>3 DEF View!update_run_output
  <2>7. target' # 0 => now[target'] = View!Target(displayed', target')
    BY <2>2, <2>5 DEF View!Target
  <2>8. output' = IF target' = 0 THEN "select_a_host" ELSE View!output_for(now[target'])
    BY <2>6, <2>7
  <2> HIDE DEF now
  <2>9. View!ViewIsCurrent' <=>
          /\ displayed' \in View!ToSet(listed')
          /\ /\ target_rows' = now /\ tally' = View!summarise(state'[displayed'])
             /\ output' = IF target' = 0 THEN "select_a_host" ELSE View!output_for(now[target'])
    BY <1>3 DEF View!ViewIsCurrent, now
  <2> QED
    BY <2>1, <2>3, <2>4, <2>5, <2>8, <2>9
<1> QED
  BY <1>2, <1>3

(* The file of a past session, or the operator's Run. *)
LEMMA RunsAreLoaded ==
    ASSUME ViewInv, View!load_config
    PROVE  ViewInv'
<1>0. RunsAreListed /\ OnScreen
  BY DEF ViewInv
<1>1. /\ listed = <<>> /\ past = {} /\ View!rebuild_run_history
      /\ UNCHANGED <<past, displayed, target_rows, tally, target, output, picked>>
  BY DEF View!load_config, View!view
<1>2. PICK loadable \in View!SeqOf(ViewedRuns, View!Cardinality(ViewedRuns)) :
        /\ loadable # <<>> /\ View!IsInjective(loadable)
        /\ listed' = loadable
        /\ \E ended \in {"Completed", "NoResponse"} :
             state' = [r \in ViewedRuns |-> IF r \in View!ToSet(loadable)
                                            THEN [i \in DOMAIN HostsOf[r] |-> ended] ELSE <<>>]
  BY DEF View!load_config
<1>3. PICK ended \in {"Completed", "NoResponse"} :
        state' = [r \in ViewedRuns |-> IF r \in View!ToSet(loadable)
                                       THEN [i \in DOMAIN HostsOf[r] |-> ended] ELSE <<>>]
  BY <1>2
<1>4. View!Cardinality(ViewedRuns) \in Nat
  <2>1. View!Cardinality(ViewedRuns) = Cardinality(ViewedRuns)
    BY DEF View!Cardinality, Cardinality
  <2>2. IsFiniteSet(ViewedRuns)
    BY ViewAssumption DEF View!ViewAssumption, View!IsFiniteSet, IsFiniteSet
  <2> QED
    BY <2>1, <2>2, FS_CardinalityType
<1>5. PICK m \in 0 .. View!Cardinality(ViewedRuns) : loadable \in [1 .. m -> ViewedRuns]
  BY DEF View!SeqOf
<1>6. /\ listed' \in Seq(ViewedRuns) /\ m \in Nat
      /\ \A i \in DOMAIN listed' : listed'[i] \in View!ToSet(loadable) /\ listed'[i] \in ViewedRuns
  BY <1>2, <1>4, <1>5 DEF View!ToSet
<1>7. \A i, j \in DOMAIN listed' : listed'[i] = listed'[j] => i = j
  BY <1>2 DEF View!IsInjective
<1>8. RunsAreListed'
  BY <1>0, <1>1, <1>3, <1>6, <1>7 DEF RunsAreListed, View!TargetStates
<1>9. displayed = View!None /\ current' = View!None
  <2>1. displayed = View!None
    BY <1>0, <1>1 DEF OnScreen, View!ToSet
  <2> QED
    BY <1>1, <2>1 DEF View!rebuild_run_history, View!rebuild_from
<1>10. OnScreen'
  BY <1>0, <1>1, <1>9 DEF OnScreen, View!ViewIsCurrent
<1>11. View!HistoryIsCurrent'
  BY <1>1, <1>6, HistoryIsRebuilt DEF View!rebuild_run_history
<1> QED
  BY <1>8, <1>10, <1>11 DEF ViewInv

LEMMA RunIsShown ==
    ASSUME ViewInv, NEW r \in ViewedRuns, View!on_run_clicked(r)
    PROVE  ViewInv'
<1>0. RunsAreListed /\ OnScreen
  BY DEF ViewInv
<1>1. /\ r \notin View!ToSet(listed) /\ r \notin past /\ listed' = Append(listed, r) /\ past' = past
      /\ View!rebuild_from(r) /\ displayed' = r /\ target' = 1
      /\ target_rows' = [row_of \in DOMAIN HostsOf[r] |-> View!Target(r, row_of)]
      /\ tally' = View!summarise(state'[r]) /\ View!update_run_output
  BY DEF View!on_run_clicked, View!start_script_run, View!New, View!history_row_text
<1>2. PICK sending \in [DOMAIN HostsOf[r] -> {"Dispatched", "Refused"}] :
        state' = [state EXCEPT ![r] = sending]
  BY DEF View!on_run_clicked, View!start_script_run
<1>3. /\ listed' \in Seq(ViewedRuns) /\ Len(listed') = Len(listed) + 1 /\ Len(listed) \in Nat
      /\ \A i \in 1 .. Len(listed) : listed'[i] = listed[i] /\ listed[i] # r
      /\ listed'[Len(listed) + 1] = r
  BY <1>0, <1>1 DEF RunsAreListed, View!ToSet
<1>4. /\ \A i, j \in DOMAIN listed' : listed'[i] = listed'[j] => i = j
      /\ \A i \in DOMAIN listed' : listed'[i] = r \/ (i \in DOMAIN listed /\ listed'[i] = listed[i])
  BY <1>0, <1>3, SMTT(20) DEF RunsAreListed
<1>5. state'[r] = sending /\ \A s \in ViewedRuns \ {r} : state'[s] = state[s]
  BY <1>0, <1>2 DEF RunsAreListed
<1>6. sending \in [DOMAIN HostsOf[r] -> View!TargetStates]
  BY <1>2 DEF View!TargetStates
<1>7. state' = [s \in ViewedRuns |-> state'[s]]
  BY <1>0, <1>2 DEF RunsAreListed
<1>8. RunsAreListed'
  <2>1. \A i \in DOMAIN listed' :
           state'[listed'[i]] \in [DOMAIN HostsOf[listed'[i]] -> View!TargetStates]
    <3> SUFFICES ASSUME NEW i \in DOMAIN listed'
                 PROVE  state'[listed'[i]] \in [DOMAIN HostsOf[listed'[i]] -> View!TargetStates]
      OBVIOUS
    <3>1. CASE listed'[i] = r
      BY <1>5, <1>6, <3>1
    <3>2. CASE listed'[i] # r
      <4>1. i \in DOMAIN listed /\ listed'[i] = listed[i] /\ listed'[i] \in ViewedRuns
        BY <1>3, <1>4, <3>2
      <4>2. state[listed[i]] \in [DOMAIN HostsOf[listed[i]] -> View!TargetStates]
        BY <1>0, <4>1 DEF RunsAreListed
      <4> QED
        BY <1>5, <3>2, <4>1, <4>2
    <3> QED
      BY <3>1, <3>2
  <2>2. \A i \in DOMAIN listed' : listed'[i] \notin past'
    BY <1>0, <1>1, <1>4 DEF RunsAreListed
  <2> QED
    BY <1>0, <1>1, <1>3, <1>4, <1>7, <2>1, <2>2 DEF RunsAreListed
<1>9. r \in View!ToSet(listed') /\ r # View!None
  BY <1>3, HostsAreListed DEF View!ToSet
<1>10. current' = r
  BY <1>1, <1>9 DEF View!rebuild_from
<1>11. Len(HostsOf[r]) \in Nat \ {0} /\ DOMAIN HostsOf[r] = 1 .. Len(HostsOf[r])
  BY HostsAreListed
<1>12. View!ViewIsCurrent'
  <2> DEFINE now == [i \in DOMAIN HostsOf[r] |-> [host |-> HostsOf[r][i], state |-> state'[r][i]]]
  <2>1. target_rows' = now /\ now[1] = View!Target(r, 1)
    BY <1>1, <1>11 DEF View!Target
  <2>2. View!displayed_run = r
    BY <1>1, <1>9 DEF View!displayed_run
  <2>3. output' = View!output_for(now[1])
    BY <1>1, <1>9, <2>1, <2>2 DEF View!update_run_output
  <2> HIDE DEF now
  <2>4. View!ViewIsCurrent' <=>
          /\ r \in View!ToSet(listed')
          /\ /\ target_rows' = now /\ tally' = View!summarise(state'[r])
             /\ output' = IF target' = 0 THEN "select_a_host" ELSE View!output_for(now[target'])
    BY <1>1, <1>9 DEF View!ViewIsCurrent, now
  <2> QED
    BY <1>1, <1>9, <2>1, <2>3, <2>4
<1>13. OnScreen'
  <2>1. target' \in 0 .. Len(target_rows')
    BY <1>1, <1>11
  <2> QED
    BY <1>1, <1>9, <1>10, <1>12, <2>1 DEF OnScreen
<1>14. View!HistoryIsCurrent'
  BY <1>1, <1>3, HistoryIsRebuilt
<1> QED
  BY <1>8, <1>13, <1>14 DEF ViewInv

(* A result or the deadline. *)
LEMMA RunIsAnswered ==
    ASSUME ViewInv, NEW r \in ViewedRuns, View!on_script_result(r) \/ View!on_run_deadline(r)
    PROVE  ViewInv'
<1>0. RunsAreListed /\ OnScreen /\ View!HistoryIsCurrent
  BY DEF ViewInv
<1>1. /\ UNCHANGED <<listed, past, current, displayed>> /\ View!on_script_run_changed(r)
      /\ r \in View!ToSet(listed)
  BY DEF View!on_script_result, View!on_run_deadline
<1>2. state[r] \in [DOMAIN HostsOf[r] -> View!TargetStates]
  BY <1>0, <1>1 DEF RunsAreListed, View!ToSet
<1>3. \E answered \in [DOMAIN HostsOf[r] -> View!TargetStates] :
         state' = [state EXCEPT ![r] = answered]
  <2>1. CASE View!on_script_result(r)
    <3>1. PICK i \in DOMAIN HostsOf[r] : state' = [state EXCEPT ![r][i] = "Completed"]
      BY <2>1 DEF View!on_script_result
    <3> DEFINE answered == [state[r] EXCEPT ![i] = "Completed"]
    <3>2. answered \in [DOMAIN HostsOf[r] -> View!TargetStates]
      BY <1>2 DEF View!TargetStates
    <3> QED
      BY <3>1, <3>2
  <2>2. CASE View!on_run_deadline(r)
    <3> DEFINE answered == [i \in DOMAIN HostsOf[r] |->
                               IF state[r][i] = "Dispatched" THEN "NoResponse" ELSE state[r][i]]
    <3>1. state' = [state EXCEPT ![r] = answered]
      BY <2>2 DEF View!on_run_deadline
    <3>2. answered \in [DOMAIN HostsOf[r] -> View!TargetStates]
      BY <1>2 DEF View!TargetStates
    <3> QED
      BY <3>1, <3>2
  <2> QED
    BY <2>1, <2>2
<1>4. /\ state' = [s \in ViewedRuns |-> state'[s]]
      /\ \A s \in ViewedRuns \ {r} : state'[s] = state[s]
      /\ state'[r] \in [DOMAIN HostsOf[r] -> View!TargetStates]
  <2>1. PICK answered \in [DOMAIN HostsOf[r] -> View!TargetStates] :
           state' = [state EXCEPT ![r] = answered]
    BY <1>3
  <2>2. state = [s \in ViewedRuns |-> state[s]]
    BY <1>0 DEF RunsAreListed
  <2>3. state' = [s \in ViewedRuns |-> IF s = r THEN answered ELSE state[s]]
    BY <2>1, <2>2
  <2> QED
    BY <2>3
<1>5. RunsAreListed'
  <2>1. \A i \in DOMAIN listed :
           state'[listed[i]] \in [DOMAIN HostsOf[listed[i]] -> View!TargetStates]
    <3> SUFFICES ASSUME NEW i \in DOMAIN listed
                 PROVE  state'[listed[i]] \in [DOMAIN HostsOf[listed[i]] -> View!TargetStates]
      OBVIOUS
    <3>1. listed[i] \in ViewedRuns
      BY <1>0 DEF RunsAreListed
    <3>2. state[listed[i]] \in [DOMAIN HostsOf[listed[i]] -> View!TargetStates]
      BY <1>0 DEF RunsAreListed
    <3>3. CASE listed[i] = r
      BY <1>4, <3>3
    <3>4. CASE listed[i] # r
      BY <1>4, <3>1, <3>2, <3>4
    <3> QED
      BY <3>3, <3>4
  <2> QED
    BY <1>0, <1>1, <1>4, <2>1 DEF RunsAreListed
<1>6. View!HistoryIsCurrent'
  BY <1>0, <1>1, <1>4, HistoryIsUpdated DEF View!on_script_run_changed, RunsAreListed
<1>7. CASE r = displayed
  <2>1. View!refresh_run_view /\ target \in Nat /\ displayed' \in View!ToSet(listed') \cup {View!None}
    BY <1>0, <1>1, <1>7 DEF View!on_script_run_changed, OnScreen
  <2>2. View!ViewIsCurrent' /\ target' \in 0 .. Len(target_rows')
    BY <1>5, <2>1, ScreenIsRefreshed DEF RunsAreListed
  <2> QED
    BY <1>0, <1>1, <1>5, <1>6, <2>1, <2>2 DEF ViewInv, OnScreen
<1>8. CASE r # displayed
  <2>1. UNCHANGED <<target_rows, tally, target, output, picked>>
    BY <1>1, <1>8 DEF View!on_script_run_changed, View!view
  <2>2. displayed \in ViewedRuns \/ displayed = View!None
    BY <1>0 DEF OnScreen, RunsAreListed, View!ToSet
  <2>3. View!ViewIsCurrent'
    BY <1>0, <1>1, <1>4, <1>8, <2>1, <2>2 DEF OnScreen, View!ViewIsCurrent
  <2> QED
    BY <1>0, <1>1, <1>5, <1>6, <2>1, <2>3 DEF ViewInv, OnScreen
<1> QED
  BY <1>7, <1>8

(* The operator picks a run, or a host of it. *)
LEMMA RunIsPicked ==
    ASSUME ViewInv, NEW r \in ViewedRuns, View!currentItemChanged(r)
    PROVE  ViewInv'
<1>0. RunsAreListed /\ OnScreen /\ View!HistoryIsCurrent
  BY DEF ViewInv
<1>1. /\ UNCHANGED <<listed, state, past, history>> /\ current' = r /\ displayed' = r
      /\ View!refresh_run_view
  BY DEF View!currentItemChanged, View!controller
<1>2. RunsAreListed' /\ View!HistoryIsCurrent'
  BY <1>0, <1>1 DEF RunsAreListed, View!HistoryIsCurrent
<1>3. r \in View!ToSet(listed)
  <2>1. PICK i \in DOMAIN history : history[i][1] = r
    BY DEF View!currentItemChanged
  <2> DEFINE newest == View!Reverse(listed)
  <2>2. /\ newest = [k \in 1 .. Len(listed) |-> listed[(Len(listed) - k) + 1]]
        /\ Len(listed) \in Nat /\ DOMAIN listed = 1 .. Len(listed)
    BY <1>0 DEF View!Reverse, RunsAreListed
  <2>3. [k \in DOMAIN history |-> history[k][1]] = newest
    BY <1>0 DEF View!HistoryIsCurrent
  <2> HIDE DEF newest
  <2>4. i \in 1 .. Len(listed) /\ newest[i] = r
    BY <2>1, <2>2, <2>3
  <2>5. (Len(listed) - i) + 1 \in DOMAIN listed /\ listed[(Len(listed) - i) + 1] = r
    BY <2>2, <2>4
  <2> QED
    BY <2>5 DEF View!ToSet
<1>4. target \in Nat /\ displayed' \in View!ToSet(listed') \cup {View!None}
  BY <1>0, <1>1, <1>3 DEF OnScreen
<1>5. View!ViewIsCurrent' /\ target' \in 0 .. Len(target_rows')
  BY <1>1, <1>2, <1>4, ScreenIsRefreshed DEF RunsAreListed
<1> QED
  BY <1>1, <1>2, <1>4, <1>5 DEF ViewInv, OnScreen

LEMMA HostIsPicked ==
    ASSUME ViewInv, NEW of_host \in DOMAIN target_rows, View!itemSelectionChanged(of_host)
    PROVE  ViewInv'
<1>0. RunsAreListed /\ OnScreen /\ View!HistoryIsCurrent /\ View!ViewIsCurrent
  BY DEF ViewInv, OnScreen
<1>1. /\ UNCHANGED <<listed, state, past, history, current, displayed, target_rows, tally>>
      /\ target' = of_host /\ View!update_run_output
  BY DEF View!itemSelectionChanged, View!controller
<1>2. RunsAreListed' /\ View!HistoryIsCurrent'
  BY <1>0, <1>1 DEF RunsAreListed, View!HistoryIsCurrent
<1>3. displayed # View!None /\ displayed \in View!ToSet(listed) /\ displayed \in ViewedRuns
  <2>1. displayed # View!None
    BY <1>0 DEF View!ViewIsCurrent
  <2> QED
    BY <1>0, <2>1 DEF OnScreen, RunsAreListed, View!ToSet
<1>4. /\ Len(HostsOf[displayed]) \in Nat /\ DOMAIN HostsOf[displayed] = 1 .. Len(HostsOf[displayed])
  BY <1>3, HostsAreListed
<1> DEFINE now == [i \in DOMAIN HostsOf[displayed] |->
                      [host |-> HostsOf[displayed][i], state |-> state[displayed][i]]]
<1>5. target_rows = now /\ tally = View!summarise(state[displayed])
  BY <1>0, <1>3 DEF View!ViewIsCurrent
<1>6. of_host \in 1 .. Len(target_rows) /\ now[of_host] = View!Target(displayed, of_host) /\ of_host # 0
  BY <1>1, <1>4, <1>5 DEF View!Target
<1>7. View!displayed_run = displayed
  BY <1>1, <1>3 DEF View!displayed_run
<1>8. output' = View!output_for(now[of_host])
  BY <1>1, <1>3, <1>6, <1>7 DEF View!update_run_output
<1>9. now' = now
  BY <1>1
<1>10. View!ViewIsCurrent'
  <2> HIDE DEF now
  <2>1. View!ViewIsCurrent' <=>
          /\ displayed' \in View!ToSet(listed')
          /\ /\ target_rows' = now' /\ tally' = View!summarise(state'[displayed'])
             /\ output' = IF target' = 0 THEN "select_a_host" ELSE View!output_for(now'[target'])
    BY <1>1, <1>3 DEF View!ViewIsCurrent, now
  <2> QED
    BY <1>1, <1>3, <1>5, <1>6, <1>8, <1>9, <2>1
<1> QED
  BY <1>0, <1>1, <1>2, <1>6, <1>10 DEF ViewInv, OnScreen

(* Where the rows that are left stood before. *)
Stood(first, last, i) == IF i < first THEN i ELSE i + (last + 1 - first)

LEMMA Shifts ==
    ASSUME NEW first \in Int, NEW last \in Int, NEW len \in Int, NEW i \in Int,
           1 <= first, first <= last + 1, last <= len, 1 <= i, i <= (first - 1) + (len - last)
    PROVE  /\ Stood(first, last, i) \in 1 .. len /\ Stood(first, last, i) \notin first .. last
           /\ i <= first - 1 => i \in 1 .. first - 1 /\ Stood(first, last, i) = i
           /\ ~(i <= first - 1) => /\ i - (first - 1) \in 1 .. len - last
                                   /\ last + (i - (first - 1)) = Stood(first, last, i)
  BY DEF Stood

LEMMA TailOf ==
    ASSUME NEW S, NEW s \in Seq(S), NEW last \in 0 .. Len(s)
    PROVE  /\ SubSeq(s, last + 1, Len(s)) \in Seq(S)
           /\ Len(SubSeq(s, last + 1, Len(s))) = Len(s) - last
           /\ \A i \in 1 .. Len(s) - last : SubSeq(s, last + 1, Len(s))[i] = s[last + i]
<1> DEFINE t == SubSeq(s, last + 1, Len(s))
<1>1. Len(s) \in Nat /\ last + 1 \in Int /\ \A i \in last + 1 .. Len(s) : s[i] \in S
  OBVIOUS
<1>2. /\ t \in Seq(S)
      /\ Len(t) = IF last + 1 <= Len(s) THEN Len(s) - (last + 1) + 1 ELSE 0
      /\ \A i \in 1 .. Len(s) - (last + 1) + 1 : t[i] = s[(last + 1) + i - 1]
  BY <1>1, SubSeqProperties
<1> HIDE DEF t
<1>3. Len(t) = Len(s) - last
  BY <1>1, <1>2
<1>4. ASSUME NEW i \in 1 .. Len(s) - last PROVE t[i] = s[last + i]
  <2>1. i \in 1 .. Len(s) - (last + 1) + 1 /\ (last + 1) + i - 1 = last + i
    BY <1>1
  <2>2. t[i] = s[(last + 1) + i - 1]
    BY <1>2, <2>1
  <2> QED
    BY <2>1, <2>2
<1> QED
  BY <1>2, <1>3, <1>4 DEF t

LEMMA CutOut ==
    ASSUME NEW S, NEW s \in Seq(S), NEW first \in 1 .. Len(s) + 1, NEW last \in 0 .. Len(s),
           first <= last + 1
    PROVE  LET t == SubSeq(s, 1, first - 1) \o SubSeq(s, last + 1, Len(s))
           IN /\ t \in Seq(S) /\ Len(t) = (first - 1) + (Len(s) - last)
              /\ \A i \in 1 .. Len(t) : t[i] = s[Stood(first, last, i)]
<1> DEFINE before == SubSeq(s, 1, first - 1)
           after == SubSeq(s, last + 1, Len(s))
           t == before \o after
<1>1. /\ before \in Seq(S) /\ Len(before) = first - 1
      /\ \A i \in 1 .. first - 1 : before[i] = s[i]
  OBVIOUS
<1>2. /\ after \in Seq(S) /\ Len(after) = Len(s) - last
      /\ \A i \in 1 .. Len(s) - last : after[i] = s[last + i]
  BY TailOf
<1> HIDE DEF before, after
<1>3. t = before \o after
  OBVIOUS
<1> HIDE DEF t
<1>4. /\ t \in Seq(S) /\ Len(t) = Len(before) + Len(after)
      /\ \A i \in 1 .. Len(before) + Len(after) :
            t[i] = IF i <= Len(before) THEN before[i] ELSE after[i - Len(before)]
  <2>1. before \in Seq(S) /\ after \in Seq(S)
    BY <1>1, <1>2
  <2> HIDE <1>1, <1>2
  <2> QED
    BY <1>3, <2>1, ConcatProperties
<1>5. ASSUME NEW i \in 1 .. Len(t) PROVE t[i] = s[Stood(first, last, i)]
  <2>1. /\ i <= first - 1 => i \in 1 .. first - 1 /\ Stood(first, last, i) = i
        /\ ~(i <= first - 1) => /\ i - (first - 1) \in 1 .. Len(s) - last
                                /\ last + (i - (first - 1)) = Stood(first, last, i)
    <3>1. /\ first \in Int /\ last \in Int /\ Len(s) \in Int /\ i \in Int
          /\ 1 <= first /\ last <= Len(s) /\ 1 <= i /\ i <= (first - 1) + (Len(s) - last)
      BY <1>1, <1>2, <1>4
    <3> QED
      BY <3>1 DEF Stood
  <2>2. t[i] = IF i <= first - 1 THEN before[i] ELSE after[i - (first - 1)]
    BY <1>1, <1>4
  <2> QED
    BY <1>1, <1>2, <2>1, <2>2
<1> QED
  BY <1>1, <1>2, <1>4, <1>5 DEF t, before, after

(* What is left when the rows from the first to the last of a stretch go.  *)
LEMMA Erased ==
    ASSUME RunsAreListed, NEW first \in 1 .. Len(listed) + 1, NEW last \in 0 .. Len(listed),
           first <= last + 1, View!Erase(first, last)
    PROVE  /\ RunsAreListed'
           /\ \A r : r \in View!ToSet(listed') <=>
                       r \in View!ToSet(listed) /\ \A i \in first .. last : listed[i] # r
           /\ \A r \in View!ToSet(listed') : state'[r] = state[r]
           /\ past' = past \cup {listed[i] : i \in first .. last}
<1> DEFINE doomed == {listed[i] : i \in first .. last}
           moved(i) == Stood(first, last, i)
<1>1. /\ listed' = SubSeq(listed, 1, first - 1) \o SubSeq(listed, last + 1, Len(listed))
      /\ state' = [r \in ViewedRuns |-> IF r \in doomed THEN <<>> ELSE state[r]]
      /\ past' = past \cup doomed
  BY DEF View!Erase
<1>2. /\ listed \in Seq(ViewedRuns) /\ Len(listed) \in Nat /\ DOMAIN listed = 1 .. Len(listed)
      /\ \A i, j \in DOMAIN listed : listed[i] = listed[j] => i = j
      /\ \A i \in DOMAIN listed : listed[i] \notin past
      /\ \A i \in DOMAIN listed :
            state[listed[i]] \in [DOMAIN HostsOf[listed[i]] -> View!TargetStates]
  BY DEF RunsAreListed
<1>3. /\ listed' \in Seq(ViewedRuns) /\ Len(listed') = (first - 1) + (Len(listed) - last)
      /\ \A i \in 1 .. Len(listed') : listed'[i] = listed[moved(i)]
  <2>1. listed \in Seq(ViewedRuns)
    BY <1>2
  <2>2. /\ listed' \in Seq(ViewedRuns) /\ Len(listed') = (first - 1) + (Len(listed) - last)
        /\ \A i \in 1 .. Len(listed') : listed'[i] = listed[Stood(first, last, i)]
    BY <1>1, <2>1, CutOut, Zenon
  <2> QED
    BY <2>2
<1>5. DOMAIN listed' = 1 .. (first - 1) + (Len(listed) - last)
  BY <1>3
<1>6. \A i \in DOMAIN listed' :
         moved(i) \in DOMAIN listed /\ moved(i) \notin first .. last /\ listed'[i] = listed[moved(i)]
  <2> SUFFICES ASSUME NEW i \in DOMAIN listed'
               PROVE  moved(i) \in 1 .. Len(listed) /\ moved(i) \notin first .. last
    BY <1>2, <1>3, <1>5
  <2>1. /\ first \in Int /\ last \in Int /\ Len(listed) \in Int /\ i \in Int
        /\ 1 <= first /\ last <= Len(listed)
        /\ 1 <= i /\ i <= (first - 1) + (Len(listed) - last)
    BY <1>2, <1>5
  <2> QED
    BY <2>1, Shifts
<1>7. \A i, j \in DOMAIN listed' : moved(i) = moved(j) => i = j
  BY <1>2, <1>5 DEF Stood
<1>8. \A j \in DOMAIN listed : j \notin first .. last => \E i \in DOMAIN listed' : moved(i) = j
  <2> SUFFICES ASSUME NEW j \in DOMAIN listed, j \notin first .. last
               PROVE  \E i \in DOMAIN listed' : moved(i) = j
    OBVIOUS
  <2>1. CASE j < first
    BY <1>2, <1>5, <2>1 DEF Stood
  <2>2. CASE j > last
    <3>1. j - (last + 1 - first) \in DOMAIN listed' /\ moved(j - (last + 1 - first)) = j
      BY <1>2, <1>5, <2>2 DEF Stood
    <3> QED
      BY <3>1
  <2> QED
    BY <1>2, <2>1, <2>2
<1> HIDE DEF moved
<1>9. /\ \A i \in DOMAIN listed' : listed'[i] \notin doomed
      /\ \A i \in DOMAIN listed' : \A k \in first .. last : listed[k] # listed'[i]
  BY <1>2, <1>6
<1>10. \A r : r \in View!ToSet(listed') <=>
                r \in View!ToSet(listed) /\ \A i \in first .. last : listed[i] # r
  <2> SUFFICES ASSUME NEW r
               PROVE  (\E i \in DOMAIN listed' : listed'[i] = r) <=>
                        /\ \E j \in DOMAIN listed : listed[j] = r
                        /\ \A i \in first .. last : listed[i] # r
    BY DEF View!ToSet
  <2> QED
    BY <1>6, <1>8, <1>9
<1>11. \A r \in View!ToSet(listed') : r \in ViewedRuns /\ r \notin doomed
  BY <1>3, <1>9 DEF View!ToSet
<1>12. \A r \in View!ToSet(listed') : state'[r] = state[r]
  BY <1>1, <1>11
<1>13. doomed \subseteq ViewedRuns
  BY <1>2
<1>14. RunsAreListed'
  <2>1. \A i, j \in DOMAIN listed' : listed'[i] = listed'[j] => i = j
    BY <1>2, <1>6, <1>7
  <2>2. \A i \in DOMAIN listed' : listed'[i] \notin past'
    BY <1>1, <1>2, <1>6, <1>9
  <2>3. \A i \in DOMAIN listed' :
           state'[listed'[i]] \in [DOMAIN HostsOf[listed'[i]] -> View!TargetStates]
    <3> SUFFICES ASSUME NEW i \in DOMAIN listed'
                 PROVE  state'[listed'[i]] \in [DOMAIN HostsOf[listed'[i]] -> View!TargetStates]
      OBVIOUS
    <3>1. state'[listed'[i]] = state[listed'[i]]
      BY <1>12 DEF View!ToSet
    <3>2. state[listed[moved(i)]] \in [DOMAIN HostsOf[listed[moved(i)]] -> View!TargetStates]
      BY <1>2, <1>6
    <3> QED
      BY <1>6, <3>1, <3>2
  <2>4. past' \subseteq ViewedRuns
    BY <1>1, <1>13 DEF RunsAreListed
  <2>5. state' = [r \in ViewedRuns |-> state'[r]]
    BY <1>1
  <2>6. listed' \in Seq(ViewedRuns)
    BY <1>3
  <2> QED
    BY <2>1, <2>2, <2>3, <2>4, <2>5, <2>6 DEF RunsAreListed
<1> QED
  BY <1>1, <1>10, <1>12, <1>14

(* A deletion ends with the list rebuilt, and with the screen cleared if   *)
(* the run that is on it went.                                             *)
LEMMA RunsGo ==
    ASSUME ViewInv, NEW first \in 1 .. Len(listed) + 1, NEW last \in 0 .. Len(listed),
           first <= last + 1, View!Erase(first, last), View!rebuild_run_history,
           IF displayed # View!None /\ displayed \notin View!ToSet(listed')
           THEN displayed' = View!None /\ View!refresh_run_view
           ELSE UNCHANGED <<displayed, target_rows, tally, target, output>>
    PROVE  ViewInv'
<1>0. RunsAreListed /\ OnScreen
  BY DEF ViewInv
<1>1. /\ RunsAreListed'
      /\ \A r \in View!ToSet(listed') : state'[r] = state[r]
  BY <1>0, Erased
<1>2. listed' \in Seq(ViewedRuns) /\ View!ToSet(listed') \subseteq ViewedRuns
  BY <1>1 DEF RunsAreListed, View!ToSet
<1>3. View!HistoryIsCurrent'
  BY <1>2, HistoryIsRebuilt DEF View!rebuild_run_history
<1>4. current' = IF displayed \in View!ToSet(listed') THEN displayed ELSE View!None
  BY DEF View!rebuild_run_history, View!rebuild_from
<1>5. CASE displayed # View!None /\ displayed \notin View!ToSet(listed')
  <2>1. /\ displayed' = View!None /\ View!refresh_run_view /\ target \in Nat
        /\ current' = displayed'
    BY <1>0, <1>4, <1>5 DEF OnScreen
  <2>2. View!ViewIsCurrent' /\ target' \in 0 .. Len(target_rows')
    BY <1>2, <2>1, ScreenIsRefreshed
  <2> QED
    BY <1>1, <1>3, <2>1, <2>2 DEF ViewInv, OnScreen
<1>6. CASE ~(displayed # View!None /\ displayed \notin View!ToSet(listed'))
  <2>1. UNCHANGED <<displayed, target_rows, tally, target, output>>
    BY <1>6
  <2>2. displayed = View!None \/ (displayed \in View!ToSet(listed') /\ state'[displayed] = state[displayed])
    BY <1>1, <1>6
  <2>3. View!None \notin View!ToSet(listed')
    BY <1>2, HostsAreListed
  <2>4. current' = displayed'
    BY <1>4, <2>1, <2>2, <2>3
  <2>5. View!ViewIsCurrent'
    BY <1>0, <2>1, <2>2 DEF OnScreen, View!ViewIsCurrent
  <2> QED
    BY <1>0, <1>1, <1>3, <2>1, <2>2, <2>4, <2>5 DEF ViewInv, OnScreen
<1> QED
  BY <1>5, <1>6

LEMMA OneRunGoes ==
    ASSUME ViewInv, View!delete_run_button
    PROVE  ViewInv' /\ past' = past \cup {displayed}
<1>0. RunsAreListed /\ OnScreen
  BY DEF ViewInv
<1>1. PICK i \in DOMAIN listed : listed[i] = current /\ View!Erase(i, i)
  BY DEF View!delete_run_button, View!EraseRun
<1>2. /\ i \in 1 .. Len(listed) + 1 /\ i \in 0 .. Len(listed) /\ i <= i + 1 /\ i \in i .. i
  BY <1>0 DEF RunsAreListed
<1>3. displayed = current /\ current # View!None
  BY <1>0 DEF OnScreen, View!delete_run_button
<1>4. /\ \A r : r \in View!ToSet(listed') <=>
                  r \in View!ToSet(listed) /\ \A k \in i .. i : listed[k] # r
      /\ past' = past \cup {listed[k] : k \in i .. i}
  BY <1>0, <1>1, <1>2, Erased
<1>5. displayed \notin View!ToSet(listed')
  BY <1>1, <1>2, <1>3, <1>4
<1>6. View!rebuild_run_history /\ displayed' = View!None /\ View!refresh_run_view
  BY <1>3 DEF View!delete_run_button
<1>7. ViewInv'
  BY <1>1, <1>2, <1>3, <1>5, <1>6, RunsGo
<1>8. i .. i = {i}
  BY <1>2
<1> QED
  BY <1>1, <1>3, <1>4, <1>7, <1>8

LEMMA OldRunsGo ==
    ASSUME ViewInv, NEW count \in 0 .. Len(listed), View!delete_older_button(count)
    PROVE  ViewInv'
<1>1. /\ View!Erase(1, count) /\ View!rebuild_run_history
      /\ IF displayed # View!None /\ displayed \notin View!ToSet(listed')
         THEN displayed' = View!None /\ View!refresh_run_view
         ELSE UNCHANGED <<displayed, target_rows, tally, target, output>>
  BY DEF View!delete_older_button, View!view
<1>2. 1 \in 1 .. Len(listed) + 1 /\ 1 <= count + 1
  BY DEF ViewInv, RunsAreListed
<1> QED
  BY <1>1, <1>2, RunsGo

LEMMA ViewStep == ViewInv /\ [Next]_vars => ViewInv'
<1> SUFFICES ASSUME ViewInv, [Next]_vars PROVE ViewInv'
  OBVIOUS
<1>1. CASE View!Next
  BY <1>1, RunsAreLoaded, RunIsShown, RunIsAnswered, RunIsPicked, HostIsPicked, OneRunGoes, OldRunsGo
  DEF View!Next
<1>2. CASE UNCHANGED run_view
  BY <1>2 DEF run_view, ViewInv, RunsAreListed, OnScreen, View!ViewIsCurrent, View!HistoryIsCurrent
<1> QED
  BY <1>1, <1>2, ViewMoves

LEMMA ViewInvariant == Spec => []ViewInv
  BY ViewInit, ViewStep, PTL DEF Spec

(* In whatever order runs are started, answered, given up, picked and      *)
(* deleted: the widgets say what the controller holds, and Delete is of    *)
(* the run that is read (scripts_tab.cpp).                                 *)
THEOREM WidgetsAreCurrent == Spec => RunsAreShown
<1>1. ASSUME ViewInv PROVE View!TypeOK
  <2>1. RunsAreListed /\ OnScreen
    BY <1>1 DEF ViewInv
  <2>2. View!ToSet(listed) \subseteq ViewedRuns /\ past \subseteq ViewedRuns \ View!ToSet(listed)
    BY <2>1 DEF RunsAreListed, View!ToSet
  <2>3. \A r \in View!ToSet(listed) : state[r] \in [DOMAIN HostsOf[r] -> View!TargetStates]
    BY <2>1 DEF RunsAreListed, View!ToSet
  <2> QED
    BY <2>1, <2>2, <2>3 DEF OnScreen, View!TypeOK
<1>2. ViewInv => (part = "run_view" => View!TypeOK /\ View!HistoryIsCurrent /\ View!ViewIsCurrent)
  BY <1>1 DEF ViewInv, OnScreen
<1>3. ViewInv => [View!delete_run_button => past' = past \cup {displayed}]_View!vars
  BY OneRunGoes
<1> QED
  BY <1>2, <1>3, ViewInvariant, PTL DEF RunsAreShown, View!DeletesWhatIsShown

-----------------------------------------------------------------------------
(* RuleDialog.  A payload is looked at field by field, so that one         *)
(* argument serves all kinds of rules: the words of a field are its own,   *)
(* so that what is written of it reads as it was, and what a box shows of  *)
(* a value is read as the value, if the box can show it.  The invariant is *)
(* that the text is what was published, and that an edit shows the rule it *)
(* was opened on save for what was touched.                                *)

(* What a field of a payload holds, and the rules there can be. *)
Held(kind, f) ==
    IF Dialog!IsEnum(f)
    THEN DOMAIN Dialog!WireNames(kind, f) \cup {x \in {Unset} : f = "expected_state"}
    ELSE Dialog!Values(f)

PayloadOf(kind, p) ==
    /\ p = [f \in Dialog!FieldsOf(kind) |-> p[f]]
    /\ \A f \in Dialog!FieldsOf(kind) : p[f] \in Held(kind, f)

AnyRule == UNION {Dialog!RulesOf(kind) : kind \in Dialog!Kinds}

LEMMA FieldsByKind ==
    /\ Dialog!FieldsOf("process") = {"executable"}
    /\ Dialog!FieldsOf("service") = {"service_name", "expected_state"}
    /\ Dialog!FieldsOf("registry") = {"hive", "key_path", "value_name", "match", "expected_value"}
    /\ Dialog!FieldsOf("adapter_count") = {"comparison", "count"}
    /\ Dialog!FieldsOf("adapter_state") = {"adapter_name", "expected"}
    /\ Dialog!FieldsOf("dds_topic") = {"domain_id", "topic_name"}
    /\ Dialog!FieldsOf("dds_value") =
          {"domain_id", "topic_name", "path", "match", "expected_value"}
    /\ \A kind \in Dialog!Kinds :
          Dialog!Required[kind] = Dialog!FieldsOf(kind) \ {"expected_state"}
  BY DEF Dialog!FieldsOf, Dialog!Required, Dialog!Kinds

LEMMA PayloadsByField ==
    ASSUME NEW kind \in Dialog!Kinds, NEW p
    PROVE  p \in Dialog!Payloads(kind) <=> PayloadOf(kind, p)
<1> USE FieldsByKind DEF PayloadOf, Held, Dialog!Payloads, Dialog!IsEnum, Dialog!Values,
        Dialog!WireNames, Dialog!hive_name, Dialog!link_state_name
<1>1. CASE kind = "process" BY <1>1
<1>2. CASE kind = "service" BY <1>2, ZenonT(30)
<1>3. CASE kind = "registry" BY <1>3, ZenonT(30)
<1>4. CASE kind = "adapter_count" BY <1>4, ZenonT(30)
<1>5. CASE kind = "adapter_state" BY <1>5, ZenonT(30)
<1>6. CASE kind = "dds_topic" BY <1>6, ZenonT(30)
<1>7. CASE kind = "dds_value"
  <2>1. Dialog!Payloads(kind) = [domain_id : Domains, topic_name : Texts, path : Texts,
                                 match : Dialog!DdsMatches, expected_value : Texts]
    BY <1>7
  <2>2. /\ Held(kind, "domain_id") = Domains /\ Held(kind, "topic_name") = Texts
        /\ Held(kind, "path") = Texts /\ Held(kind, "expected_value") = Texts
        /\ Held(kind, "match") = Dialog!DdsMatches
    BY <1>7
  <2>3. PayloadOf(kind, p) <=>
            /\ p = [f \in {"domain_id", "topic_name", "path", "match", "expected_value"} |-> p[f]]
            /\ p["domain_id"] \in Domains /\ p["topic_name"] \in Texts /\ p["path"] \in Texts
            /\ p["match"] \in Dialog!DdsMatches /\ p["expected_value"] \in Texts
    <3> HIDE DEF Held
    <3> QED
      BY <1>7, <2>2
  <2> HIDE DEF PayloadOf, Held, Dialog!Payloads
  <2> QED
    BY <2>1, <2>3
<1> HIDE FieldsByKind DEF PayloadOf, Held, Dialog!Payloads, Dialog!IsEnum, Dialog!Values,
         Dialog!WireNames, Dialog!hive_name, Dialog!link_state_name
<1> QED
  BY <1>1, <1>2, <1>3, <1>4, <1>5, <1>6, <1>7 DEF Dialog!Kinds

LEMMA WordsAreOwn ==
    ASSUME NEW kind \in Dialog!Kinds, NEW f \in Dialog!FieldsOf(kind), Dialog!IsEnum(f)
    PROVE  LET W == Dialog!WireNames(kind, f)
           IN  /\ Unset \notin DOMAIN W
               /\ \A a, b \in DOMAIN W : W[a] = W[b] => a = b
<1> DEFINE W == Dialog!WireNames(kind, f)
<1>1. Unset \notin DOMAIN W
  BY DialogAssumption DEF Dialog!DialogAssumption, Dialog!Enumerators
<1>2. \A a, b \in DOMAIN W : W[a] = W[b] => a = b
  BY DEF Dialog!WireNames, Dialog!hive_name, Dialog!link_state_name, Dialog!IsEnum
<1> QED
  BY <1>1, <1>2

(* No two words of a combo are alike. *)
LEMMA WordsDiffer ==
    /\ DOMAIN Dialog!ComparisonChoice = {"AtLeast", "Exactly", "AtMost"}
    /\ DOMAIN Dialog!MatchChoice = Dialog!DdsMatches
    /\ DOMAIN Dialog!LinkChoice = Dialog!Links \ {"Unknown"}
    /\ Dialog!LinkChoice["Disconnected"] = "Disconnected"
    /\ \A F \in {Dialog!ComparisonChoice, Dialog!MatchChoice, Dialog!LinkChoice} :
          \A a, b \in DOMAIN F : F[a] = F[b] => a = b
<1>1. DOMAIN Dialog!ComparisonChoice = {"AtLeast", "Exactly", "AtMost"}
  BY DEF Dialog!ComparisonChoice
<1>2. DOMAIN Dialog!MatchChoice = Dialog!DdsMatches
  BY DEF Dialog!MatchChoice, Dialog!DdsMatches
<1>3. /\ DOMAIN Dialog!LinkChoice = Dialog!Links \ {"Unknown"}
      /\ Dialog!LinkChoice["Disconnected"] = "Disconnected"
  BY DEF Dialog!LinkChoice, Dialog!Links
<1>4. \A a, b \in DOMAIN Dialog!ComparisonChoice :
         Dialog!ComparisonChoice[a] = Dialog!ComparisonChoice[b] => a = b
  <2>1. /\ Dialog!ComparisonChoice["AtLeast"] = "at least"
        /\ Dialog!ComparisonChoice["Exactly"] = "exactly"
        /\ Dialog!ComparisonChoice["AtMost"] = "at most"
    BY DEF Dialog!ComparisonChoice
  <2> QED
    BY <1>1, <2>1
<1>5. \A a, b \in DOMAIN Dialog!MatchChoice :
         Dialog!MatchChoice[a] = Dialog!MatchChoice[b] => a = b
  <2>1. /\ Dialog!MatchChoice["Equals"] = "equal to" /\ Dialog!MatchChoice["Contains"] = "containing"
        /\ Dialog!MatchChoice["AtLeast"] = "at least" /\ Dialog!MatchChoice["AtMost"] = "at most"
    BY DEF Dialog!MatchChoice
  <2> QED
    BY <1>2, <2>1 DEF Dialog!DdsMatches
<1>6. \A a, b \in DOMAIN Dialog!LinkChoice :
         Dialog!LinkChoice[a] = Dialog!LinkChoice[b] => a = b
  <2>1. /\ Dialog!LinkChoice["Connected"] = "Up" /\ Dialog!LinkChoice["NoMedia"] = "No link"
        /\ Dialog!LinkChoice["Disconnected"] = "Disconnected"
        /\ Dialog!LinkChoice["Connecting"] = "Connecting"
        /\ Dialog!LinkChoice["Disabled"] = "Disabled" /\ Dialog!LinkChoice["Faulted"] = "Faulted"
    BY DEF Dialog!LinkChoice
  <2> QED
    BY <1>3, <2>1 DEF Dialog!Links
<1> QED
  BY <1>1, <1>2, <1>3, <1>4, <1>5, <1>6

LEMMA ChoicesAreOwn ==
    ASSUME NEW kind \in Dialog!Kinds, NEW f \in Dialog!Required[kind], Dialog!IsEnum(f),
           NEW C, C = Dialog!Choices(kind, f), NEW W, W = Dialog!WireNames(kind, f)
    PROVE  /\ DOMAIN C \subseteq DOMAIN W
           /\ DOMAIN W \ {"Unknown"} \subseteq DOMAIN C
           /\ \A a, b \in DOMAIN C : C[a] = C[b] => a = b
           /\ f # "expected" => DOMAIN C = DOMAIN W
           /\ f = "expected" => "Disconnected" \in DOMAIN C /\ C["Disconnected"] = "Disconnected"
<1>1. f # "expected_state" /\ f \in Dialog!FieldsOf(kind)
  BY FieldsByKind
<1>2. CASE f = "hive"
  <2>1. C = W
    BY <1>2 DEF Dialog!WireNames, Dialog!Choices
  <2> QED
    BY <1>1, <1>2, <2>1, WordsAreOwn
<1>3. CASE f = "expected"
  <2>1. C = Dialog!LinkChoice /\ W = Dialog!link_state_name
    BY <1>3 DEF Dialog!WireNames, Dialog!Choices
  <2>2. DOMAIN W = Dialog!Links
    BY <2>1 DEF Dialog!link_state_name
  <2>3. "Disconnected" \in Dialog!Links \ {"Unknown"}
    BY DEF Dialog!Links
  <2> QED
    BY <1>3, <2>1, <2>2, <2>3, WordsDiffer
<1>4. CASE f = "comparison"
  <2>1. C = Dialog!ComparisonChoice /\ W = [c \in {"AtLeast", "Exactly", "AtMost"} |-> c]
    BY <1>4 DEF Dialog!WireNames, Dialog!Choices
  <2>2. DOMAIN W = {"AtLeast", "Exactly", "AtMost"}
    BY <2>1
  <2> QED
    BY <1>4, <2>1, <2>2, WordsDiffer
<1>5. CASE f = "match" /\ kind = "dds_value"
  <2>1. C = Dialog!MatchChoice /\ W = [m \in Dialog!DdsMatches |-> m]
    BY <1>5 DEF Dialog!WireNames, Dialog!Choices
  <2>2. DOMAIN W = Dialog!DdsMatches
    BY <2>1
  <2> QED
    BY <1>5, <2>1, <2>2, WordsDiffer
<1>6. CASE f = "match" /\ kind # "dds_value"
  <2>1. C = W
    BY <1>6 DEF Dialog!WireNames, Dialog!Choices
  <2> QED
    BY <1>1, <1>6, <2>1, WordsAreOwn
<1> QED
  BY <1>1, <1>2, <1>3, <1>4, <1>5, <1>6 DEF Dialog!IsEnum

(* No word is a value of another type. *)
LEMMA WordsAreTyped ==
    ASSUME NEW kind \in Dialog!Kinds, NEW f \in Dialog!FieldsOf(kind), Dialog!IsEnum(f),
           NEW e \in DOMAIN Dialog!WireNames(kind, f)
    PROVE  Dialog!WireNames(kind, f)[e] # Mistyped
  BY DialogAssumption DEF Dialog!DialogAssumption, Dialog!Written

(* A number that a rule holds survives being written and cast. *)
LEMMA NumberReadsAsWritten ==
    ASSUME NEW f, Dialog!IsNumber(f), NEW v \in Dialog!Values(f)
    PROVE  /\ Dialog!number_of(f, Dialog!numeral(v)) = v
           /\ v # Unset /\ Dialog!numeral(v) # Mistyped
<1>1. /\ Half \in Nat \ {0} /\ Counts \subseteq -Half .. Half - 1 /\ Domains \subseteq 0 .. 2 * Half - 1
      /\ Unset \notin Counts /\ Unset \notin Domains
      /\ \A n \in Counts \cup Domains : Mistyped # Dialog!numeral(n)
  BY DialogAssumption DEF Dialog!DialogAssumption
<1>2. \A x \in 0 .. 2 * Half - 1 : x % (2 * Half) = x
  BY <1>1, SMT
<1>3. Dialog!numeral(v).whole = v
  BY DEF Dialog!numeral
<1>4. CASE f = "domain_id"
  <2>1. v \in Domains
    BY <1>4 DEF Dialog!Values
  <2> QED BY <1>1, <1>2, <1>3, <1>4, <2>1 DEF Dialog!number_of
<1>5. CASE f = "count"
  <2>1. v \in Counts
    BY <1>5 DEF Dialog!Values
  <2>2. v \in Int /\ v + Half \in 0 .. 2 * Half - 1
    BY <1>1, <2>1
  <2>3. (v + Half) % (2 * Half) = v + Half
    BY <1>2, <2>2
  <2>4. Dialog!number_of(f, Dialog!numeral(v)) = (v + Half) - Half
    BY <1>3, <1>5, <2>3 DEF Dialog!number_of
  <2> QED BY <1>1, <2>1, <2>2, <2>4
<1> QED BY <1>4, <1>5 DEF Dialog!IsNumber

(* A number that fits its field is not changed by the cast. *)
LEMMA FittingNumber ==
    ASSUME NEW f, Dialog!IsNumber(f), NEW n, Dialog!Numeral(f, n), Dialog!Fits(f, n)
    PROVE  Dialog!numeral(Dialog!number_of(f, n)) = n
<1>1. Half \in Nat \ {0}
  BY DialogAssumption DEF Dialog!DialogAssumption
<1>2. \A x \in 0 .. 2 * Half - 1 : x % (2 * Half) = x
  BY <1>1, SMT
<1>3. n = [whole |-> n.whole, exact |-> TRUE] /\ n.whole \in Int
  BY DEF Dialog!Numeral, Dialog!Fits
<1>4. Dialog!number_of(f, n) = n.whole
  <2>1. CASE f = "domain_id"
    BY <1>2, <2>1 DEF Dialog!number_of, Dialog!Fits
  <2>2. CASE f # "domain_id"
    <3>1. n.whole \in -Half .. Half - 1
      BY <2>2 DEF Dialog!Fits
    <3>2. n.whole + Half \in 0 .. 2 * Half - 1
      BY <1>1, <1>3, <3>1
    <3>3. (n.whole + Half) % (2 * Half) = n.whole + Half
      BY <1>2, <3>2
    <3>4. Dialog!number_of(f, n) = (n.whole + Half) - Half
      BY <2>2, <3>3 DEF Dialog!number_of
    <3> QED BY <1>1, <1>3, <3>4
  <2> QED BY <2>1, <2>2
<1> QED BY <1>3, <1>4 DEF Dialog!numeral

(* The inverse of a table of words gives the enumerator back. *)
LEMMA WordIsFound ==
    ASSUME NEW F, \A a, b \in DOMAIN F : F[a] = F[b] => a = b, NEW e \in DOMAIN F
    PROVE  (CHOOSE c \in DOMAIN F : F[c] = F[e]) = e
  OBVIOUS

(* Payloads and documents, field by field. *)
LEMMA HeldIsSet ==
    ASSUME NEW kind \in Dialog!Kinds, NEW f \in Dialog!FieldsOf(kind), NEW x \in Held(kind, f)
    PROVE  /\ f # "expected_state" => x # Unset
           /\ Dialog!IsEnum(f) /\ x # Unset => x \in DOMAIN Dialog!WireNames(kind, f)
<1>1. Dialog!IsEnum(f) => Unset \notin DOMAIN Dialog!WireNames(kind, f)
  BY WordsAreOwn
<1>2. ~Dialog!IsEnum(f) => Held(kind, f) \in {Counts, Domains, Texts}
  BY DEF Held, Dialog!Values
<1> QED
  BY <1>1, <1>2, DialogAssumption DEF Held, Dialog!DialogAssumption

LEMMA RulesByField ==
    ASSUME NEW r
    PROVE  r \in AnyRule <=>
              /\ r = [kind |-> r.kind, description |-> r.description,
                      expectation |-> r.expectation, payload |-> r.payload, version |-> r.version]
              /\ r.kind \in Dialog!Kinds /\ r.description \in Texts
              /\ r.expectation \in {"MustBePresent", "MustBeAbsent"}
              /\ r.version \in Constraints \cup {Unset}
              /\ PayloadOf(r.kind, r.payload)
<1>1. r \in AnyRule <=> \E kind \in Dialog!Kinds : r \in Dialog!RulesOf(kind)
  BY DEF AnyRule
<1>2. \A kind : r \in Dialog!RulesOf(kind) <=>
              /\ r = [kind |-> r.kind, description |-> r.description,
                      expectation |-> r.expectation, payload |-> r.payload, version |-> r.version]
              /\ r.kind = kind /\ r.description \in Texts
              /\ r.expectation \in {"MustBePresent", "MustBeAbsent"}
              /\ r.version \in Constraints \cup {Unset}
              /\ r.payload \in Dialog!Payloads(kind)
  BY DEF Dialog!RulesOf
<1>3. r.kind \in Dialog!Kinds =>
        (r.payload \in Dialog!Payloads(r.kind) <=> PayloadOf(r.kind, r.payload))
  BY PayloadsByField
<1> QED
  BY <1>1, <1>2, <1>3

(* What is written of a rule reads as the rule. *)
LEMMA RuleReadsAsWritten ==
    ASSUME NEW r \in AnyRule
    PROVE  Dialog!is_rule(Dialog!to_json(r)) /\ Dialog!from_json(Dialog!to_json(r)) = r
<1> DEFINE doc == Dialog!to_json(r)
           kind == r.kind
           p == r.payload
           fields == Dialog!FieldsOf(kind)
           written == {f \in fields : p[f] # Unset}
           W(f) == Dialog!WireNames(kind, f)
           said(f) == IF Dialog!IsEnum(f) THEN W(f)[p[f]]
                      ELSE IF Dialog!IsNumber(f) THEN Dialog!numeral(p[f]) ELSE p[f]
<1>1. /\ r = [kind |-> r.kind, description |-> r.description,
              expectation |-> r.expectation, payload |-> r.payload, version |-> r.version]
      /\ kind \in Dialog!Kinds /\ r.expectation \in {"MustBePresent", "MustBeAbsent"}
      /\ r.description \in Texts /\ r.version \in Constraints \cup {Unset}
      /\ p = [f \in fields |-> p[f]] /\ \A f \in fields : p[f] \in Held(kind, f)
  BY RulesByField DEF PayloadOf
<1>2. /\ doc.type = kind /\ doc.description = r.description /\ doc.expectation = r.expectation
      /\ doc.version = r.version
      /\ doc.payload = [f \in {g \in DOMAIN p : p[g] # Unset} |-> said(f)]
  BY DEF Dialog!to_json
<1>3. {g \in DOMAIN p : p[g] # Unset} = written
  <2>1. DOMAIN p = fields
    BY <1>1
  <2> QED
    BY <2>1
<1>4. DOMAIN doc.payload = written /\ \A f \in written : doc.payload[f] = said(f)
  BY <1>2, <1>3
<1>5. \A f \in written : Dialog!IsEnum(f) => p[f] \in DOMAIN W(f) /\ doc.payload[f] = W(f)[p[f]]
  BY <1>1, <1>4, HeldIsSet
<1>6. \A f \in written : Dialog!IsEnum(f) =>
         (CHOOSE c \in DOMAIN W(f) : W(f)[c] = doc.payload[f]) = p[f]
  BY <1>1, <1>5, WordsAreOwn, WordIsFound
<1>7. Dialog!Required[kind] \subseteq written
  BY <1>1, HeldIsSet, FieldsByKind
<1>11. \A f \in written : ~Dialog!IsEnum(f) => p[f] \in Dialog!Values(f)
  BY <1>1 DEF Held
<1>12. \A f \in written : Dialog!IsNumber(f) =>
          /\ ~Dialog!IsEnum(f) /\ doc.payload[f] = Dialog!numeral(p[f])
          /\ Dialog!number_of(f, doc.payload[f]) = p[f] /\ doc.payload[f] # Mistyped
  <2>1. \A f : Dialog!IsNumber(f) => ~Dialog!IsEnum(f)
    BY DEF Dialog!IsNumber, Dialog!IsEnum
  <2> QED BY <1>4, <1>11, <2>1, NumberReadsAsWritten
<1>13. \A f \in written : ~Dialog!IsEnum(f) /\ ~Dialog!IsNumber(f) =>
          doc.payload[f] = p[f] /\ doc.payload[f] \in Texts
  <2>1. \A f : ~Dialog!IsNumber(f) => Dialog!Values(f) = Texts
    BY DEF Dialog!IsNumber, Dialog!Values
  <2> QED BY <1>4, <1>11, <2>1
<1>14. Mistyped \notin Texts /\ Mistyped \notin Constraints \cup {Unset}
  BY DialogAssumption DEF Dialog!DialogAssumption
<1>15. \A f \in written : doc.payload[f] # Mistyped
  <2>1. \A f \in written : Dialog!IsEnum(f) => doc.payload[f] # Mistyped
    BY <1>1, <1>5, WordsAreTyped
  <2> QED BY <1>12, <1>13, <1>14, <2>1
<1> HIDE DEF doc, p, W, said
<1>8. Dialog!is_rule(doc)
  <2>1. \A f \in written : Dialog!IsEnum(f) => Dialog!Written(kind, f, doc.payload[f])
    BY <1>5 DEF Dialog!Written, W
  <2>2. Dialog!WellTyped(doc)
    BY <1>1, <1>2, <1>4, <1>7, <1>14, <1>15 DEF Dialog!WellTyped
  <2> QED
    BY <1>2, <1>4, <2>1, <2>2 DEF Dialog!is_rule
<1>9. Dialog!from_json(doc).payload = p
  <2> DEFINE back(f) ==
            IF f \notin DOMAIN doc.payload THEN Unset
            ELSE IF Dialog!IsNumber(f) THEN Dialog!number_of(f, doc.payload[f])
            ELSE IF ~Dialog!IsEnum(f) THEN doc.payload[f]
            ELSE IF \E e \in DOMAIN W(f) : W(f)[e] = doc.payload[f]
                 THEN CHOOSE e \in DOMAIN W(f) : W(f)[e] = doc.payload[f]
                 ELSE CHOOSE e \in DOMAIN W(f) : TRUE
  <2>1. Dialog!from_json(doc).payload = [f \in fields |-> back(f)]
    BY <1>2 DEF Dialog!from_json, W
  <2>2. ASSUME NEW f \in fields PROVE back(f) = p[f]
    <3>1. CASE f \notin written
      BY <1>4, <3>1
    <3>2. CASE f \in written /\ ~Dialog!IsEnum(f)
      BY <1>4, <1>12, <1>13, <3>2
    <3>3. CASE f \in written /\ Dialog!IsEnum(f)
      BY <1>4, <1>5, <1>6, <1>12, <3>3
    <3> QED
      BY <3>1, <3>2, <3>3
  <2> HIDE DEF back
  <2> QED
    BY <1>1, <2>1, <2>2
<1>10. Dialog!from_json(doc) = [kind |-> doc.type, description |-> doc.description,
          expectation |-> doc.expectation, version |-> doc.version,
          payload |-> Dialog!from_json(doc).payload]
  BY DEF Dialog!from_json
<1> QED
  BY <1>1, <1>2, <1>8, <1>9, <1>10 DEF doc, p

(* A document that is a rule says what the rule is written as. *)
LEMMA DocumentIsARule ==
    ASSUME NEW doc, Dialog!Document(doc), Dialog!is_rule(doc)
    PROVE  /\ Dialog!from_json(doc) \in AnyRule
           /\ Dialog!Says(doc, Dialog!to_json(Dialog!from_json(doc)))
<1> DEFINE r == Dialog!from_json(doc)
           kind == doc.type
           d == doc.payload
           p == r.payload
           fields == Dialog!FieldsOf(kind)
           W(f) == Dialog!WireNames(kind, f)
           back(f) == IF f \notin DOMAIN d THEN Unset
                      ELSE IF Dialog!IsNumber(f) THEN Dialog!number_of(f, d[f])
                      ELSE IF ~Dialog!IsEnum(f) THEN d[f]
                      ELSE IF \E e \in DOMAIN W(f) : W(f)[e] = d[f]
                           THEN CHOOSE e \in DOMAIN W(f) : W(f)[e] = d[f]
                           ELSE CHOOSE e \in DOMAIN W(f) : TRUE
<1>1. /\ doc.description \in Texts /\ doc.version \in Constraints \cup {Unset}
      /\ kind \in Dialog!Kinds /\ doc.expectation \in {"MustBePresent", "MustBeAbsent"}
      /\ DOMAIN d \subseteq fields /\ Dialog!Required[kind] \subseteq DOMAIN d
      /\ \A f \in DOMAIN d : ~Dialog!IsEnum(f) =>
             IF Dialog!IsNumber(f) THEN Dialog!Numeral(f, d[f]) ELSE d[f] \in Texts
      /\ \A f \in DOMAIN d : Dialog!IsEnum(f) => \E e \in DOMAIN W(f) : W(f)[e] = d[f]
  BY DEF Dialog!Document, Dialog!is_rule, Dialog!WellTyped, Dialog!Written
<1>2. r = [kind |-> kind, description |-> doc.description, expectation |-> doc.expectation,
           version |-> doc.version, payload |-> [f \in fields |-> back(f)]]
  BY DEF Dialog!from_json
<1>3. p = [f \in fields |-> back(f)] /\ \A f \in fields : p[f] = back(f)
  BY <1>2
<1>12. \A f : Dialog!IsNumber(f) => ~Dialog!IsEnum(f)
  BY DEF Dialog!IsNumber, Dialog!IsEnum
<1>4. \A f \in DOMAIN d : Dialog!IsEnum(f) => p[f] \in DOMAIN W(f) /\ W(f)[p[f]] = d[f]
  BY <1>1, <1>3, <1>12
<1>5. \A f \in DOMAIN d : ~Dialog!IsEnum(f) =>
         p[f] = IF Dialog!IsNumber(f) THEN Dialog!number_of(f, d[f]) ELSE d[f]
  BY <1>1, <1>3
<1>13. \A f \in DOMAIN d : ~Dialog!IsEnum(f) => p[f] \in Dialog!Values(f)
  <2>1. \A f : ~Dialog!IsNumber(f) => Dialog!Values(f) = Texts
    BY DEF Dialog!IsNumber, Dialog!Values
  <2> QED BY <1>1, <1>5, <2>1 DEF Dialog!Numeral
<1>6. \A f \in fields : f \notin DOMAIN d => p[f] = Unset /\ f = "expected_state"
  BY <1>1, <1>3, FieldsByKind
<1> HIDE DEF p, back, W, d
<1>7. \A f \in fields : p[f] \in Held(kind, f)
  <2> SUFFICES ASSUME NEW f \in fields PROVE p[f] \in Held(kind, f)
    OBVIOUS
  <2>1. CASE f \notin DOMAIN d
    BY <1>6, <2>1 DEF Held, Dialog!IsEnum
  <2>2. CASE f \in DOMAIN d
    BY <1>1, <1>4, <1>13, <2>2 DEF Held, W
  <2> QED
    BY <2>1, <2>2
<1>8. r \in AnyRule
  <2>1. p = [f \in fields |-> p[f]]
    BY <1>3
  <2>2. PayloadOf(kind, p)
    BY <1>7, <2>1 DEF PayloadOf
  <2> QED
    BY <1>1, <1>2, <2>2, RulesByField DEF p
<1>9. {g \in fields : p[g] # Unset} = DOMAIN d
  <2>1. \A f \in DOMAIN d : f \in fields /\ p[f] # Unset
    <3> SUFFICES ASSUME NEW f \in DOMAIN d PROVE f \in fields /\ p[f] # Unset
      OBVIOUS
    <3>1. f \in fields
      BY <1>1
    <3>2. Dialog!IsEnum(f) => Unset \notin DOMAIN W(f)
      BY <1>1, <3>1, WordsAreOwn DEF W
    <3>3. ~Dialog!IsEnum(f) => Unset \notin Dialog!Values(f)
      BY DialogAssumption DEF Dialog!DialogAssumption, Dialog!Values
    <3> QED
      BY <1>4, <1>13, <3>1, <3>2, <3>3
  <2> QED
    BY <1>6, <2>1
<1>10. /\ DOMAIN Dialog!to_json(r).payload = DOMAIN d
       /\ \A f \in DOMAIN d : Dialog!to_json(r).payload[f] =
             IF Dialog!IsEnum(f) THEN d[f]
             ELSE IF Dialog!IsNumber(f) THEN Dialog!numeral(Dialog!number_of(f, d[f])) ELSE d[f]
  <2>1. DOMAIN p = fields
    BY <1>3
  <2>2. Dialog!to_json(r).payload =
          [f \in {g \in DOMAIN p : p[g] # Unset} |->
             IF Dialog!IsEnum(f) THEN W(f)[p[f]]
             ELSE IF Dialog!IsNumber(f) THEN Dialog!numeral(p[f]) ELSE p[f]]
    BY <1>2 DEF Dialog!to_json, p, W
  <2> QED
    BY <1>4, <1>5, <1>9, <2>1, <2>2
<1>11. /\ Dialog!to_json(r).type = kind /\ Dialog!to_json(r).description = doc.description
       /\ Dialog!to_json(r).expectation = doc.expectation /\ Dialog!to_json(r).version = doc.version
  BY <1>2 DEF Dialog!to_json
<1>14. \A f \in DOMAIN d : Dialog!IsNumber(f) /\ Dialog!Fits(f, d[f]) =>
          Dialog!numeral(Dialog!number_of(f, d[f])) = d[f]
  BY <1>1, <1>12, FittingNumber
<1>15. Dialog!Says(doc, Dialog!to_json(r))
  BY <1>10, <1>11, <1>14 DEF Dialog!Says, d
<1> QED
  BY <1>8, <1>15

(* The form: whatever is done to it, each box holds what it offers. *)
BoxesShape(box) ==
    /\ box = [k \in Dialog!Kinds |-> box[k]]
    /\ \A k \in Dialog!Kinds :
          /\ box[k] = [g \in Dialog!Required[k] |-> box[k][g]]
          /\ \A g \in Dialog!Required[k] : box[k][g] \in Dialog!Offered(k, g)

FormShape(f) ==
    /\ f = [page |-> f.page, description |-> f.description, absent |-> f.absent, box |-> f.box]
    /\ f.page \in Dialog!Kinds /\ f.description \in Texts /\ f.absent \in BOOLEAN
    /\ BoxesShape(f.box)

LEMMA OfferedWords ==
    ASSUME NEW kind \in Dialog!Kinds, NEW f \in Dialog!Required[kind]
    PROVE  /\ Dialog!IsEnum(f) => Dialog!Offered(kind, f) =
                 {Dialog!Choices(kind, f)[c] : c \in DOMAIN Dialog!Choices(kind, f)}
           /\ f = "domain_id" => Dialog!Offered(kind, f) = {n \in Domains : n <= 232}
           /\ f = "count" => Dialog!Offered(kind, f) = {n \in Counts : 0 <= n /\ n <= 64}
           /\ ~Dialog!IsEnum(f) /\ f \notin {"domain_id", "count"} => Dialog!Offered(kind, f) = Texts
  BY DEF Dialog!Offered, Dialog!IsEnum

LEMMA FieldSets ==
    /\ Dialog!NoText \in Texts /\ Trimmed \in [Texts -> Texts] /\ DraftRules \in Nat
    /\ Counts \subseteq Int /\ 0 \in Counts /\ 1 \in Counts /\ 64 \in Counts
    /\ Domains \subseteq Nat /\ 0 \in Domains /\ 232 \in Domains
  BY DialogAssumption DEF Dialog!DialogAssumption

LEMMA FirstIsOffered ==
    ASSUME NEW kind \in Dialog!Kinds, NEW f \in Dialog!Required[kind]
    PROVE  Dialog!first(kind, f) \in Dialog!Offered(kind, f)
<1>1. CASE f = "expected"
  <2>1. "Connected" \in DOMAIN Dialog!LinkChoice /\ Dialog!LinkChoice["Connected"] = "Up"
    BY DEF Dialog!LinkChoice
  <2> QED
    BY <1>1, <2>1, OfferedWords DEF Dialog!first, Dialog!Choices, Dialog!IsEnum
<1>2. CASE f = "comparison"
  <2>1. "AtLeast" \in DOMAIN Dialog!ComparisonChoice /\ Dialog!ComparisonChoice["AtLeast"] = "at least"
    BY DEF Dialog!ComparisonChoice
  <2>2. Dialog!Choices(kind, f) = Dialog!ComparisonChoice
    BY <1>2 DEF Dialog!Choices
  <2>3. Dialog!first(kind, f) = "at least"
    BY <1>2 DEF Dialog!first
  <2>4. Dialog!Offered(kind, f) =
           {Dialog!Choices(kind, f)[c] : c \in DOMAIN Dialog!Choices(kind, f)}
    BY <1>2, OfferedWords DEF Dialog!IsEnum
  <2> QED
    BY <2>1, <2>2, <2>3, <2>4
<1>3. CASE f = "match" /\ kind = "dds_value"
  <2>1. "Equals" \in DOMAIN Dialog!MatchChoice /\ Dialog!MatchChoice["Equals"] = "equal to"
    BY DEF Dialog!MatchChoice
  <2>2. Dialog!Choices(kind, f) = Dialog!MatchChoice
    BY <1>3 DEF Dialog!Choices
  <2>3. Dialog!first(kind, f) = "equal to"
    BY <1>3 DEF Dialog!first
  <2>4. Dialog!Offered(kind, f) =
           {Dialog!Choices(kind, f)[c] : c \in DOMAIN Dialog!Choices(kind, f)}
    BY <1>3, OfferedWords DEF Dialog!IsEnum
  <2> QED
    BY <2>1, <2>2, <2>3, <2>4
<1>4. CASE f = "match" /\ kind # "dds_value"
  <2>1. Dialog!Choices(kind, f) = [m \in {"Exists", "Equals", "Contains"} |-> m]
    BY <1>4 DEF Dialog!Choices, Dialog!WireNames
  <2> QED
    BY <1>4, <2>1, OfferedWords DEF Dialog!first, Dialog!IsEnum
<1>5. CASE f = "hive"
  <2>1. Dialog!Choices(kind, f) = Dialog!hive_name
    BY <1>5 DEF Dialog!Choices, Dialog!WireNames
  <2>2. "LocalMachine" \in DOMAIN Dialog!hive_name /\ Dialog!hive_name["LocalMachine"] = "HKLM"
    BY DEF Dialog!hive_name
  <2> QED
    BY <1>5, <2>1, <2>2, OfferedWords DEF Dialog!first, Dialog!IsEnum
<1>6. CASE f = "count"
  BY <1>6, FieldSets, OfferedWords DEF Dialog!first, Dialog!IsEnum
<1>7. CASE f = "domain_id"
  BY <1>7, FieldSets, OfferedWords DEF Dialog!first, Dialog!IsEnum
<1>8. CASE ~Dialog!IsEnum(f) /\ f \notin {"count", "domain_id"}
  <2>1. Dialog!first(kind, f) = Dialog!NoText
    BY <1>8 DEF Dialog!first, Dialog!IsEnum
  <2> QED
    BY <1>8, <2>1, FieldSets, OfferedWords
<1>9. f # "expected_state"
  BY FieldsByKind
<1> QED
  BY <1>1, <1>2, <1>3, <1>4, <1>5, <1>6, <1>7, <1>8, <1>9 DEF Dialog!IsEnum

LEMMA ChoiceIsOffered ==
    ASSUME NEW kind \in Dialog!Kinds, NEW f \in Dialog!Required[kind], NEW x \in Held(kind, f)
    PROVE  Dialog!choice_for(kind, f, x) \in Dialog!Offered(kind, f)
<1> DEFINE C == Dialog!Choices(kind, f)
<1>0. f \in Dialog!FieldsOf(kind) /\ f # "expected_state"
  BY FieldsByKind
<1>1. CASE Dialog!IsEnum(f)
  <2>1. x \in DOMAIN Dialog!WireNames(kind, f)
    BY <1>0, <1>1, HeldIsSet
  <2>2. x \notin DOMAIN C => f = "expected"
    BY <1>1, <2>1, ChoicesAreOwn
  <2>3. f = "expected" => "Disconnected" \in DOMAIN C /\ C["Disconnected"] = "Disconnected"
    BY <1>1, ChoicesAreOwn
  <2>4. Dialog!choice_for(kind, f, x) = IF x \in DOMAIN C THEN C[x] ELSE "Disconnected"
    BY <1>1 DEF Dialog!choice_for
  <2>5. Dialog!Offered(kind, f) = {C[c] : c \in DOMAIN C}
    BY <1>1, OfferedWords
  <2> HIDE DEF C
  <2> QED
    BY <2>2, <2>3, <2>4, <2>5
<1>2. CASE f = "count"
  <2>1. /\ x \in Counts /\ ~Dialog!IsEnum(f)
        /\ Dialog!Offered(kind, f) = {n \in Counts : 0 <= n /\ n <= 64}
    BY <1>2, OfferedWords DEF Held, Dialog!Values, Dialog!IsEnum
  <2>2. Dialog!choice_for(kind, f, x) = IF x < 0 THEN 0 ELSE IF x > 64 THEN 64 ELSE x
    BY <1>2, <2>1 DEF Dialog!choice_for
  <2>3. x \in Int /\ 0 \in Counts /\ 64 \in Counts
    BY <2>1, FieldSets
  <2>4. CASE x < 0
    BY <2>1, <2>2, <2>3, <2>4
  <2>5. CASE x > 64
    BY <2>1, <2>2, <2>3, <2>5
  <2>6. CASE 0 <= x /\ x <= 64
    BY <2>1, <2>2, <2>3, <2>6
  <2> QED
    BY <2>3, <2>4, <2>5, <2>6
<1>3. CASE f = "domain_id"
  <2>1. x \in Domains /\ Dialog!Offered(kind, f) = {n \in Domains : n <= 232} /\ ~Dialog!IsEnum(f)
    BY <1>3, OfferedWords DEF Held, Dialog!Values, Dialog!IsEnum
  <2>2. Dialog!choice_for(kind, f, x) = IF x > 232 THEN 232 ELSE x
    BY <1>3, <2>1 DEF Dialog!choice_for
  <2> QED
    BY <2>1, <2>2, FieldSets
<1>4. CASE ~Dialog!IsEnum(f) /\ f # "count" /\ f # "domain_id"
  BY <1>4, OfferedWords DEF Dialog!choice_for, Held, Dialog!Values
<1> QED
  BY <1>1, <1>2, <1>3, <1>4

LEMMA WordIsRead ==
    ASSUME NEW kind \in Dialog!Kinds, NEW f \in Dialog!Required[kind],
           NEW visible \in Dialog!Offered(kind, f)
    PROVE  Dialog!read(kind, f, visible) \in Held(kind, f)
<1> DEFINE C == Dialog!Choices(kind, f)
<1>0. f \in Dialog!FieldsOf(kind) /\ f # "expected_state"
  BY FieldsByKind
<1>1. CASE Dialog!IsEnum(f)
  <2>1. PICK e \in DOMAIN C : visible = C[e]
    BY <1>1, OfferedWords
  <2>2. Dialog!read(kind, f, visible) \in DOMAIN C
    BY <1>1, <2>1 DEF Dialog!read
  <2>3. DOMAIN C \subseteq DOMAIN Dialog!WireNames(kind, f)
    BY <1>1, ChoicesAreOwn
  <2> QED
    BY <1>1, <2>2, <2>3 DEF Held
<1>2. CASE f \in {"count", "domain_id"}
  BY <1>2, OfferedWords DEF Dialog!read, Held, Dialog!Values, Dialog!IsEnum, Dialog!IsNumber
<1>3. CASE ~Dialog!IsEnum(f) /\ f \notin {"count", "domain_id"}
  <2>1. visible \in Texts /\ Dialog!read(kind, f, visible) = Trimmed[visible]
    BY <1>3, OfferedWords DEF Dialog!read, Dialog!trimmed, Dialog!IsNumber
  <2> QED
    BY <1>3, <2>1, FieldSets DEF Held, Dialog!Values
<1> QED
  BY <1>1, <1>2, <1>3

LEMMA EmptyShape == FormShape(Dialog!EmptyForm)
<1> DEFINE E == Dialog!EmptyForm
           fields(k) == [f \in Dialog!Required[k] |-> Dialog!first(k, f)]
<1>1. E = [page |-> "process", description |-> Dialog!NoText, absent |-> FALSE,
           box |-> [k \in Dialog!Kinds |-> fields(k)]]
  BY DEF Dialog!EmptyForm, Dialog!Fields
<1>2. Dialog!NoText \in Texts /\ "process" \in Dialog!Kinds
  BY FieldSets DEF Dialog!Kinds
<1>3. \A k \in Dialog!Kinds :
         /\ fields(k) = [g \in Dialog!Required[k] |-> fields(k)[g]]
         /\ \A g \in Dialog!Required[k] : fields(k)[g] \in Dialog!Offered(k, g)
  BY FirstIsOffered
<1> HIDE DEF E, fields
<1>4. /\ E = [page |-> E.page, description |-> E.description, absent |-> E.absent, box |-> E.box]
      /\ E.page = "process" /\ E.description = Dialog!NoText /\ E.absent = FALSE
      /\ E.box = [k \in Dialog!Kinds |-> fields(k)]
  BY <1>1
<1>5. E.box = [k \in Dialog!Kinds |-> E.box[k]] /\ \A k \in Dialog!Kinds : E.box[k] = fields(k)
  BY <1>4
<1>6. E.page \in Dialog!Kinds /\ E.description \in Texts /\ E.absent \in BOOLEAN
  BY <1>2, <1>4
<1>7. \A k \in Dialog!Kinds :
         /\ E.box[k] = [g \in Dialog!Required[k] |-> E.box[k][g]]
         /\ \A g \in Dialog!Required[k] : E.box[k][g] \in Dialog!Offered(k, g)
  <2> SUFFICES ASSUME NEW k \in Dialog!Kinds
               PROVE  /\ E.box[k] = [g \in Dialog!Required[k] |-> E.box[k][g]]
                      /\ \A g \in Dialog!Required[k] : E.box[k][g] \in Dialog!Offered(k, g)
    OBVIOUS
  <2>1. E.box[k] = fields(k)
    BY <1>5
  <2> QED
    BY <1>3, <2>1
<1>8. FormShape(E)
  BY <1>4, <1>5, <1>6, <1>7 DEF FormShape, BoxesShape
<1> QED
  BY <1>8 DEF E

(* One page of the form is put in the place of another. *)
LEMMA PageShape ==
    ASSUME NEW box, BoxesShape(box), NEW k \in Dialog!Kinds, NEW filled,
           filled = [g \in Dialog!Required[k] |-> filled[g]],
           \A g \in Dialog!Required[k] : filled[g] \in Dialog!Offered(k, g)
    PROVE  BoxesShape([box EXCEPT ![k] = filled]) /\ [box EXCEPT ![k] = filled][k] = filled
<1> DEFINE new == [box EXCEPT ![k] = filled]
<1>1. /\ new = [m \in Dialog!Kinds |-> new[m]]
      /\ \A m \in Dialog!Kinds : new[m] = IF m = k THEN filled ELSE box[m]
  BY DEF BoxesShape
<1> HIDE DEF new
<1>2. ASSUME NEW m \in Dialog!Kinds
      PROVE  /\ new[m] = [g \in Dialog!Required[m] |-> new[m][g]]
             /\ \A g \in Dialog!Required[m] : new[m][g] \in Dialog!Offered(m, g)
  <2>1. CASE m = k
    <3>1. new[m] = filled
      BY <1>1, <2>1
    <3> QED
      BY <2>1, <3>1
  <2>2. CASE m # k
    <3>1. new[m] = box[m]
      BY <1>1, <2>2
    <3> QED
      BY <3>1 DEF BoxesShape
  <2> QED
    BY <2>1, <2>2
<1>3. BoxesShape(new) /\ new[k] = filled
  BY <1>1, <1>2 DEF BoxesShape
<1> QED
  BY <1>3 DEF new

LEMMA FilledShape ==
    ASSUME NEW r \in AnyRule
    PROVE  /\ FormShape(Dialog!set_rule(r)) /\ Dialog!set_rule(r).page = r.kind
           /\ \A f \in Dialog!Required[r.kind] :
                 Dialog!set_rule(r).box[r.kind][f] = Dialog!choice_for(r.kind, f, r.payload[f])
<1> DEFINE F == Dialog!set_rule(r)
           E == Dialog!EmptyForm
           fields == [f \in Dialog!Required[r.kind] |-> Dialog!choice_for(r.kind, f, r.payload[f])]
<1>1. F = [page |-> r.kind, description |-> r.description, absent |-> r.expectation = "MustBeAbsent",
           box |-> [E.box EXCEPT ![r.kind] = fields]]
  BY DEF Dialog!set_rule, Dialog!Fields
<1>2. /\ r.kind \in Dialog!Kinds /\ r.description \in Texts
      /\ \A f \in Dialog!FieldsOf(r.kind) : r.payload[f] \in Held(r.kind, f)
  BY RulesByField DEF PayloadOf
<1>3. \A f \in Dialog!Required[r.kind] : fields[f] \in Dialog!Offered(r.kind, f)
  BY <1>2, ChoiceIsOffered, FieldsByKind
<1>4. FormShape(E)
  BY EmptyShape
<1>5. fields = [f \in Dialog!Required[r.kind] |-> fields[f]]
  OBVIOUS
<1>9. \A f \in Dialog!Required[r.kind] : fields[f] = Dialog!choice_for(r.kind, f, r.payload[f])
  OBVIOUS
<1> HIDE DEF fields, E, F
<1>6. /\ F.page = r.kind /\ F.description = r.description /\ F.absent \in BOOLEAN
      /\ F.box = [E.box EXCEPT ![r.kind] = fields]
      /\ F = [page |-> F.page, description |-> F.description, absent |-> F.absent, box |-> F.box]
  BY <1>1
<1>7. BoxesShape(F.box) /\ F.box[r.kind] = fields
  <2>1. BoxesShape(E.box)
    BY <1>4 DEF FormShape
  <2> QED
    BY <1>2, <1>3, <1>5, <1>6, <2>1, PageShape
<1>8. FormShape(F)
  BY <1>2, <1>6, <1>7 DEF FormShape
<1> QED
  BY <1>9, <1>6, <1>7, <1>8 DEF F

LEMMA FormIsARule ==
    ASSUME NEW f, FormShape(f)
    PROVE  /\ Dialog!rule(f) \in AnyRule /\ Dialog!rule(f).kind = f.page
           /\ \A g \in Dialog!Required[f.page] :
                 Dialog!rule(f).payload[g] = Dialog!read(f.page, g, f.box[f.page][g])
<1> DEFINE r == Dialog!rule(f)
           kind == f.page
           visible == [g \in Dialog!Required[kind] |-> Dialog!read(kind, g, f.box[kind][g])]
           p == IF kind = "service"
                THEN [service_name |-> visible.service_name, expected_state |-> Unset] ELSE visible
<1>1. r = [kind |-> kind, description |-> Trimmed[f.description],
           expectation |-> IF Dialog!uses_expectation(kind) /\ f.absent THEN "MustBeAbsent"
                                                                        ELSE "MustBePresent",
           payload |-> p, version |-> Unset]
  BY DEF Dialog!rule, Dialog!trimmed, Dialog!Fields
<1>2. /\ kind \in Dialog!Kinds /\ Trimmed[f.description] \in Texts
      /\ \A g \in Dialog!Required[kind] : visible[g] \in Held(kind, g)
  BY WordIsRead, FieldSets DEF FormShape, BoxesShape
<1>3. \A g \in Dialog!Required[kind] : visible[g] = Dialog!read(kind, g, f.box[kind][g])
  OBVIOUS
<1>4. visible = [g \in Dialog!Required[kind] |-> visible[g]]
  OBVIOUS
<1> HIDE DEF visible, kind
<1>5. PayloadOf(kind, p) /\ \A g \in Dialog!Required[kind] : p[g] = visible[g]
  <2>1. CASE kind = "service"
    <3>1. Dialog!Required[kind] = {"service_name"} /\ Dialog!FieldsOf(kind) = {"service_name", "expected_state"}
      BY <1>2, <2>1, FieldsByKind
    <3>2. Unset \in Held(kind, "expected_state")
      BY DEF Held, Dialog!IsEnum
    <3>3. p = [g \in {"service_name", "expected_state"} |-> p[g]]
          /\ p["service_name"] = visible["service_name"] /\ p["expected_state"] = Unset
      BY <2>1
    <3> QED
      BY <1>2, <3>1, <3>2, <3>3 DEF PayloadOf
  <2>2. CASE kind # "service"
    <3>1. Dialog!Required[kind] = Dialog!FieldsOf(kind)
      BY <1>2, <2>2 DEF Dialog!FieldsOf
    <3> QED
      BY <1>2, <1>4, <2>2, <3>1 DEF PayloadOf
  <2> QED
    BY <2>1, <2>2
<1> HIDE DEF p
<1>6. /\ r = [kind |-> r.kind, description |-> r.description, expectation |-> r.expectation,
              payload |-> r.payload, version |-> r.version]
      /\ r.kind = kind /\ r.description \in Texts /\ r.version = Unset /\ r.payload = p
      /\ r.expectation \in {"MustBePresent", "MustBeAbsent"}
  BY <1>1, <1>2
<1> HIDE DEF r
<1> QED
  BY <1>2, <1>3, <1>5, <1>6, RulesByField DEF r, kind

(* The rules of a draft are rules, the text is what was published, and an  *)
(* edit shows what it was opened on, save for what was touched.            *)
GoodRules(list) == list \in Seq(AnyRule) /\ Len(list) <= DraftRules

TextIsPublished ==
    /\ GoodRules(rules) /\ GoodRules(saved)
    /\ Dialog!TextReadsAsPublished /\ Dialog!NothingIsGuessed

ShowsRow(r) ==
    /\ form.page = r.kind
    /\ \A f \in Dialog!Required[form.page] :
          \/ <<form.page, f>> \in touched
          \/ form.box[form.page][f] = Dialog!choice_for(form.page, f, r.payload[f])

FormIsOpen ==
    /\ dialog \in {"closed", "add", "edit"}
    /\ FormShape(form) /\ summary = Dialog!describe(form)
    /\ dialog = "add" => Len(rules) < DraftRules
    /\ dialog # "edit" => row = 0
    /\ dialog = "edit" => row \in 1 .. Len(rules) /\ ShowsRow(rules[row])

DialogInv == TextIsPublished /\ FormIsOpen

LEMMA DocumentsAreGood ==
    ASSUME NEW docs \in Documents, NEW list, list = Dialog!parse_bundle(docs)
    PROVE  /\ GoodRules(list)
           /\ list # <<>> => /\ DOMAIN docs = DOMAIN list
                             /\ \A i \in DOMAIN list : Dialog!Says(docs[i], Dialog!to_json(list[i]))
<1>1. /\ docs = [i \in 1 .. Len(docs) |-> docs[i]] /\ Len(docs) \in 0 .. DraftRules
      /\ \A i \in 1 .. Len(docs) : Dialog!Document(docs[i])
  BY DialogAssumption DEF Dialog!DialogAssumption
<1>2. DOMAIN docs = 1 .. Len(docs)
  BY <1>1
<1>3. DraftRules \in Nat
  BY FieldSets
<1>4. CASE \A i \in DOMAIN docs : Dialog!is_rule(docs[i])
  <2>1. list = [i \in 1 .. Len(docs) |-> Dialog!from_json(docs[i])]
    BY <1>2, <1>4 DEF Dialog!parse_bundle
  <2>2. \A i \in 1 .. Len(docs) :
           list[i] \in AnyRule /\ Dialog!Says(docs[i], Dialog!to_json(list[i]))
    BY <1>1, <1>2, <1>4, <2>1, DocumentIsARule
  <2>3. Len(docs) \in Nat
    BY <1>1
  <2>4. list \in Seq(AnyRule) /\ Len(list) = Len(docs) /\ DOMAIN list = 1 .. Len(docs)
    BY <2>1, <2>2, <2>3
  <2>5. /\ DOMAIN docs = DOMAIN list
        /\ \A i \in DOMAIN list : Dialog!Says(docs[i], Dialog!to_json(list[i]))
    BY <1>2, <2>2, <2>4
  <2> QED
    BY <1>1, <1>3, <2>4, <2>5 DEF GoodRules
<1>5. CASE ~\A i \in DOMAIN docs : Dialog!is_rule(docs[i])
  <2>1. list = <<>>
    BY <1>5 DEF Dialog!parse_bundle
  <2> QED
    BY <1>3, <2>1 DEF GoodRules
<1> QED
  BY <1>4, <1>5

(* A list of rules reads as it is written. *)
LEMMA ListReadsAsWritten ==
    ASSUME NEW list, GoodRules(list)
    PROVE  Dialog!parse_bundle([i \in DOMAIN list |-> Dialog!to_json(list[i])]) = list
<1> DEFINE docs == [i \in DOMAIN list |-> Dialog!to_json(list[i])]
<1>1. list \in Seq(AnyRule)
  BY DEF GoodRules
<1>2. list = [i \in DOMAIN list |-> list[i]] /\ \A i \in DOMAIN list : list[i] \in AnyRule
  BY <1>1
<1>3. \A i \in DOMAIN list : Dialog!is_rule(docs[i]) /\ Dialog!from_json(docs[i]) = list[i]
  BY <1>2, RuleReadsAsWritten
<1>4. DOMAIN docs = DOMAIN list
  OBVIOUS
<1> HIDE DEF docs
<1>5. Dialog!parse_bundle(docs) = [i \in DOMAIN list |-> Dialog!from_json(docs[i])]
  BY <1>3, <1>4 DEF Dialog!parse_bundle
<1> QED
  BY <1>2, <1>3, <1>5 DEF docs

LEMMA DialogInit == Init => DialogInv
<1> SUFFICES ASSUME Init PROVE DialogInv
  OBVIOUS
<1>1. PICK docs \in Documents :
        /\ text = docs
        /\ rules = Dialog!parse_bundle(docs) /\ saved = Dialog!parse_bundle(docs)
        /\ dialog = "closed" /\ row = 0
        /\ form = Dialog!EmptyForm /\ summary = Dialog!describe(Dialog!EmptyForm)
  BY DEF Init, Dialog!Init
<1>2. TextIsPublished
  BY <1>1, DocumentsAreGood
  DEF TextIsPublished, Dialog!TextReadsAsPublished, Dialog!NothingIsGuessed
<1>3. FormIsOpen
  BY <1>1, EmptyShape DEF FormIsOpen
<1> QED
  BY <1>2, <1>3 DEF DialogInv

LEMMA DialogOpens ==
    ASSUME DialogInv, Dialog!on_add_rule_clicked \/ \E i \in DOMAIN rules : Dialog!on_edit_rule_clicked(i)
    PROVE  DialogInv'
<1>1. UNCHANGED <<rules, text, saved>>
  BY DEF Dialog!on_add_rule_clicked, Dialog!on_edit_rule_clicked, Dialog!bundle
<1>2. TextIsPublished'
  BY <1>1 DEF DialogInv, TextIsPublished, Dialog!TextReadsAsPublished, Dialog!NothingIsGuessed
<1>3. CASE Dialog!on_add_rule_clicked
  <2>1. FormIsOpen'
    BY <1>1, <1>3, EmptyShape DEF Dialog!on_add_rule_clicked, Dialog!Show, DialogInv, FormIsOpen
  <2> QED
    BY <1>2, <2>1 DEF DialogInv
<1>4. ASSUME NEW i \in DOMAIN rules, Dialog!on_edit_rule_clicked(i) PROVE DialogInv'
  <2>1. /\ dialog' = "edit" /\ row' = i /\ form' = Dialog!set_rule(rules[i])
        /\ summary' = Dialog!describe(form')
    BY <1>4 DEF Dialog!on_edit_rule_clicked, Dialog!Show
  <2>2. i \in 1 .. Len(rules) /\ rules[i] \in AnyRule
    BY DEF DialogInv, TextIsPublished, GoodRules
  <2>3. FormShape(form') /\ ShowsRow(rules[i])'
    BY <1>1, <2>1, <2>2, FilledShape DEF ShowsRow
  <2>4. FormIsOpen'
    BY <1>1, <2>1, <2>2, <2>3 DEF FormIsOpen
  <2> QED
    BY <1>2, <2>4 DEF DialogInv
<1> QED
  BY <1>3, <1>4

(* What is done to the form while it is open. *)
LEMMA FormChanges ==
    ASSUME DialogInv, dialog # "closed", FormShape(form'), summary' = Dialog!describe(form'),
           UNCHANGED <<rules, text, saved, dialog, row>>,
           dialog = "edit" =>
              /\ form'.page = form.page /\ touched \subseteq touched'
              /\ \A f \in Dialog!Required[form.page] :
                    \/ <<form.page, f>> \in touched'
                    \/ form'.box[form.page][f] = form.box[form.page][f]
    PROVE  DialogInv'
<1>1. TextIsPublished'
  BY DEF DialogInv, TextIsPublished, Dialog!TextReadsAsPublished, Dialog!NothingIsGuessed
<1>2. dialog = "edit" => ShowsRow(rules[row])'
  BY DEF DialogInv, FormIsOpen, ShowsRow
<1>3. FormIsOpen'
  BY <1>2 DEF DialogInv, FormIsOpen
<1> QED
  BY <1>1, <1>3 DEF DialogInv

LEMMA KindIsChanged ==
    ASSUME DialogInv, NEW kind \in Dialog!Kinds, Dialog!on_kind_changed(kind)
    PROVE  DialogInv'
<1>1. /\ dialog = "add" /\ form' = [form EXCEPT !.page = kind] /\ summary' = Dialog!describe(form')
      /\ UNCHANGED <<rules, text, saved, dialog, row>>
  BY DEF Dialog!on_kind_changed, Dialog!Show, Dialog!bundle
<1>2. FormShape(form)
  BY DEF DialogInv, FormIsOpen
<1>3. FormShape(form')
  BY <1>1, <1>2 DEF FormShape
<1> QED
  BY <1>1, <1>3, FormChanges

LEMMA FieldIsTyped ==
    ASSUME DialogInv, NEW field \in Dialog!Fields(form.page),
           NEW visible \in Dialog!Offered(form.page, field), Dialog!type(field, visible)
    PROVE  DialogInv'
<1> DEFINE k == form.page
           filled == [form.box[k] EXCEPT ![field] = visible]
<1>1. /\ dialog # "closed" /\ form' = [form EXCEPT !.box = [form.box EXCEPT ![k] = filled]]
      /\ summary' = Dialog!describe(form') /\ touched' = touched \cup {<<k, field>>}
      /\ UNCHANGED <<rules, text, saved, dialog, row>>
  BY DEF Dialog!type, Dialog!Show, Dialog!Touch, Dialog!bundle
<1>2. FormShape(form) /\ k \in Dialog!Kinds /\ BoxesShape(form.box) /\ field \in Dialog!Required[k]
  BY DEF DialogInv, FormIsOpen, FormShape, Dialog!Fields
<1>3. form.box[k] = [g \in Dialog!Required[k] |-> form.box[k][g]]
  BY <1>2 DEF BoxesShape
<1>4. /\ filled = [g \in Dialog!Required[k] |-> filled[g]]
      /\ \A g \in Dialog!Required[k] : filled[g] = IF g = field THEN visible ELSE form.box[k][g]
  BY <1>3
<1>5. \A g \in Dialog!Required[k] : filled[g] \in Dialog!Offered(k, g)
  BY <1>2, <1>4 DEF BoxesShape
<1> HIDE DEF filled
<1>6. BoxesShape([form.box EXCEPT ![k] = filled]) /\ [form.box EXCEPT ![k] = filled][k] = filled
  BY <1>2, <1>4, <1>5, PageShape
<1>7. FormShape(form') /\ form'.page = k /\ form'.box[k] = filled
  BY <1>1, <1>2, <1>6 DEF FormShape
<1> QED
  BY <1>1, <1>2, <1>4, <1>7, FormChanges

LEMMA DescriptionIsTyped ==
    ASSUME DialogInv, NEW visible \in Texts, Dialog!describe_as(visible)
    PROVE  DialogInv'
<1>1. /\ dialog # "closed" /\ form' = [form EXCEPT !.description = visible]
      /\ summary' = Dialog!describe(form') /\ touched' = touched \cup {<<"all", "description">>}
      /\ UNCHANGED <<rules, text, saved, dialog, row>>
  BY DEF Dialog!describe_as, Dialog!Show, Dialog!Touch, Dialog!bundle
<1>2. FormShape(form)
  BY DEF DialogInv, FormIsOpen
<1>3. FormShape(form') /\ form'.page = form.page /\ form'.box = form.box
  BY <1>1, <1>2 DEF FormShape
<1> QED
  BY <1>1, <1>3, FormChanges

LEMMA ExpectationIsChosen ==
    ASSUME DialogInv, Dialog!choose_expectation
    PROVE  DialogInv'
<1>1. /\ dialog # "closed" /\ form' = [form EXCEPT !.absent = ~@]
      /\ summary' = Dialog!describe(form') /\ touched' = touched \cup {<<"all", "expectation">>}
      /\ UNCHANGED <<rules, text, saved, dialog, row>>
  BY DEF Dialog!choose_expectation, Dialog!Show, Dialog!Touch, Dialog!bundle
<1>2. FormShape(form)
  BY DEF DialogInv, FormIsOpen
<1>3. form'.absent = ~form.absent /\ form'.page = form.page /\ form'.box = form.box
      /\ form'.description = form.description
      /\ form' = [page |-> form'.page, description |-> form'.description, absent |-> form'.absent,
                  box |-> form'.box]
  BY <1>1, <1>2 DEF FormShape
<1>4. form'.absent \in BOOLEAN
  BY <1>3
<1>5. FormShape(form')
  BY <1>2, <1>3, <1>4 DEF FormShape
<1> QED
  BY <1>1, <1>3, <1>5, FormChanges

(* The form goes. *)
LEMMA ClosedForm ==
    ASSUME Dialog!Close
    PROVE  FormIsOpen' /\ dialog' = "closed"
<1>1. dialog' = "closed" /\ row' = 0 /\ form' = Dialog!EmptyForm /\ summary' = Dialog!describe(form')
  BY DEF Dialog!Close, Dialog!Show
<1> QED
  BY <1>1, EmptyShape DEF FormIsOpen

(* A rule that is accepted is the form's, at its place. *)
LEMMA RuleIsAccepted ==
    ASSUME DialogInv, Dialog!accept
    PROVE  DialogInv'
<1>1. /\ dialog # "closed" /\ Dialog!Close /\ UNCHANGED <<text, saved>>
      /\ rules' = IF dialog = "edit" THEN [rules EXCEPT ![row] = Dialog!rule(form)]
                                     ELSE Append(rules, Dialog!rule(form))
  BY DEF Dialog!accept
<1>2. Dialog!rule(form) \in AnyRule
  BY FormIsARule DEF DialogInv, FormIsOpen
<1>3. GoodRules(rules) /\ DraftRules \in Nat
  BY FieldSets DEF DialogInv, TextIsPublished
<1>4. GoodRules(rules')
  <2>1. CASE dialog = "edit"
    BY <1>1, <1>2, <1>3, <2>1 DEF GoodRules, DialogInv, FormIsOpen
  <2>2. CASE dialog = "add"
    <3>1. Len(rules) < DraftRules /\ rules' = Append(rules, Dialog!rule(form))
      BY <1>1, <2>2 DEF DialogInv, FormIsOpen
    <3> QED
      BY <1>2, <1>3, <3>1 DEF GoodRules
  <2> QED
    BY <1>1, <2>1, <2>2 DEF DialogInv, FormIsOpen
<1>5. TextIsPublished'
  BY <1>1, <1>4 DEF DialogInv, TextIsPublished, Dialog!TextReadsAsPublished, Dialog!NothingIsGuessed
<1> QED
  BY <1>1, <1>5, ClosedForm DEF DialogInv

LEMMA DraftIsPublished ==
    ASSUME DialogInv, Dialog!publish
    PROVE  DialogInv'
<1>1. /\ text' = [i \in DOMAIN rules |-> Dialog!to_json(rules[i])] /\ saved' = rules
      /\ UNCHANGED <<rules, dialog, row, form, summary, touched>>
  BY DEF Dialog!publish
<1>2. Dialog!parse_bundle(text') = saved'
  BY <1>1, ListReadsAsWritten DEF DialogInv, TextIsPublished
<1>3. Dialog!NothingIsGuessed'
  <2>1. \A doc : Dialog!Says(doc, doc)
    BY DEF Dialog!Says
  <2>2. DOMAIN text' = DOMAIN saved' /\ \A i \in DOMAIN saved' : text'[i] = Dialog!to_json(saved'[i])
    BY <1>1
  <2>3. \A i \in DOMAIN saved' : Dialog!Says(text'[i], Dialog!to_json(saved'[i]))
    BY <2>1, <2>2
  <2> QED
    BY <2>2, <2>3 DEF Dialog!NothingIsGuessed
<1>4. TextIsPublished'
  BY <1>1, <1>2, <1>3 DEF DialogInv, TextIsPublished, Dialog!TextReadsAsPublished
<1>5. FormIsOpen'
  BY <1>1 DEF DialogInv, FormIsOpen, ShowsRow
<1> QED
  BY <1>4, <1>5 DEF DialogInv

LEMMA BundleIsRead ==
    ASSUME DialogInv, Dialog!reject \/ Dialog!restart
    PROVE  DialogInv'
<1>1. /\ Dialog!Close /\ UNCHANGED text
      /\ rules' = rules \/ rules' = Dialog!parse_bundle(text)
      /\ saved' = saved \/ saved' = Dialog!parse_bundle(text)
  BY DEF Dialog!reject, Dialog!restart, Dialog!bundle
<1>2. Dialog!parse_bundle(text) = saved
  BY DEF DialogInv, TextIsPublished, Dialog!TextReadsAsPublished
<1>3. saved' = saved /\ text' = text /\ (rules' = rules \/ rules' = saved)
  BY <1>1, <1>2
<1>4. TextIsPublished'
  BY <1>3 DEF DialogInv, TextIsPublished, Dialog!TextReadsAsPublished, Dialog!NothingIsGuessed
<1> QED
  BY <1>1, <1>4, ClosedForm DEF DialogInv

LEMMA DialogStep == DialogInv /\ [Next]_vars => DialogInv'
<1> SUFFICES ASSUME DialogInv, [Next]_vars PROVE DialogInv'
  OBVIOUS
<1>1. CASE Dialog!Next
  BY <1>1, DialogOpens, KindIsChanged, FieldIsTyped, DescriptionIsTyped, ExpectationIsChosen,
     RuleIsAccepted, DraftIsPublished, BundleIsRead
  DEF Dialog!Next
<1>2. CASE UNCHANGED rule_dialog
  <2>1. UNCHANGED <<rules, text, saved, dialog, row, form, summary, touched>>
    BY <1>2 DEF rule_dialog
  <2> QED
    BY <2>1 DEF DialogInv, TextIsPublished, FormIsOpen, ShowsRow, Dialog!TextReadsAsPublished,
       Dialog!NothingIsGuessed
<1> QED
  BY <1>1, <1>2 DEF Next, vars

LEMMA DialogInvariant == Spec => []DialogInv
  BY DialogInit, DialogStep, PTL DEF Spec

LEMMA DialogTypes == DialogInv => Dialog!TypeOK
<1> SUFFICES ASSUME DialogInv PROVE Dialog!TypeOK
  OBVIOUS
<1>1. ASSUME NEW list, GoodRules(list) PROVE Dialog!Draft(list)
  <2>1. ASSUME NEW i \in DOMAIN list
        PROVE  /\ list[i].kind \in Dialog!Kinds
               /\ list[i].description \in Texts /\ list[i].version \in Constraints \cup {Unset}
               /\ list[i].expectation \in {"MustBePresent", "MustBeAbsent"}
               /\ list[i].payload \in Dialog!Payloads(list[i].kind)
    <3>1. list[i] \in AnyRule
      BY <1>1 DEF GoodRules
    <3>2. /\ list[i].kind \in Dialog!Kinds
          /\ list[i].description \in Texts /\ list[i].version \in Constraints \cup {Unset}
          /\ list[i].expectation \in {"MustBePresent", "MustBeAbsent"}
          /\ PayloadOf(list[i].kind, list[i].payload)
      BY <3>1, RulesByField
    <3> QED
      BY <3>2, PayloadsByField
  <2> QED
    BY <1>1, <2>1 DEF GoodRules, Dialog!Draft
<1>2. Dialog!Draft(rules) /\ Dialog!Draft(saved)
  BY <1>1 DEF DialogInv, TextIsPublished
<1>3. row \in 0 .. DraftRules
  <2>1. Len(rules) \in Nat /\ Len(rules) <= DraftRules /\ DraftRules \in Nat
    BY FieldSets DEF DialogInv, TextIsPublished, GoodRules
  <2> QED
    BY <2>1 DEF DialogInv, FormIsOpen
<1>4. /\ dialog \in {"closed", "add", "edit"}
      /\ form.page \in Dialog!Kinds /\ form.absent \in BOOLEAN /\ form.description \in Texts
      /\ \A k \in Dialog!Kinds : \A f \in Dialog!Fields(k) : form.box[k][f] \in Dialog!Offered(k, f)
  BY DEF DialogInv, FormIsOpen, FormShape, BoxesShape, Dialog!Fields
<1> QED
  BY <1>2, <1>3, <1>4 DEF Dialog!TypeOK

(* The rule that is accepted, and where. *)
LEMMA AcceptedRule ==
    ASSUME DialogInv, Dialog!accept
    PROVE  /\ Dialog!is_complete(form)
           /\ dialog = "edit" => /\ row \in DOMAIN rules /\ DOMAIN rules' = DOMAIN rules
                                 /\ rules'[row] = Dialog!rule(form)
                                 /\ \A i \in DOMAIN rules : i # row => rules'[i] = rules[i]
           /\ dialog # "edit" => Len(rules') \in DOMAIN rules' /\ rules'[Len(rules')] = Dialog!rule(form)
<1>1. /\ dialog # "closed" /\ Dialog!is_complete(form)
      /\ rules' = IF dialog = "edit" THEN [rules EXCEPT ![row] = Dialog!rule(form)]
                                     ELSE Append(rules, Dialog!rule(form))
  BY DEF Dialog!accept
<1>2. rules \in Seq(AnyRule) /\ Dialog!rule(form) \in AnyRule
  BY FormIsARule DEF DialogInv, FormIsOpen, TextIsPublished, GoodRules
<1>3. CASE dialog = "edit"
  <2>1. row \in DOMAIN rules
    BY <1>2, <1>3 DEF DialogInv, FormIsOpen
  <2> QED
    BY <1>1, <1>2, <1>3, <2>1
<1>4. CASE dialog # "edit"
  <2>1. rules' = Append(rules, Dialog!rule(form))
    BY <1>1, <1>4
  <2> QED
    BY <1>1, <1>2, <1>4, <2>1
<1> QED
  BY <1>3, <1>4

LEMMA SavedAsSaid ==
    ASSUME DialogInv, Dialog!accept
    PROVE  \E i \in DOMAIN rules' : Dialog!Described(rules'[i]) = summary
                                    /\ i = (IF dialog = "edit" THEN row ELSE Len(rules'))
<1>1. summary = Dialog!Described(Dialog!rule(form))
  BY AcceptedRule DEF DialogInv, FormIsOpen, Dialog!describe
<1>2. CASE dialog = "edit"
  BY <1>1, <1>2, AcceptedRule
<1>3. CASE dialog # "edit"
  BY <1>1, <1>3, AcceptedRule
<1> QED
  BY <1>2, <1>3

LEMMA CompleteIsNotBlank ==
    ASSUME NEW f, FormShape(f), Dialog!is_complete(f)
    PROVE  ~Dialog!Blank(Dialog!rule(f))
<1> DEFINE r == Dialog!rule(f)
           k == f.page
           filled(g) == Trimmed[f.box[k][g]] # Dialog!NoText
<1>1. k \in Dialog!Kinds /\ r.kind = k
  BY FormIsARule DEF FormShape
<1>2. \A g \in Dialog!Required[k] :
         ~Dialog!IsEnum(g) /\ g \notin {"count", "domain_id"} => r.payload[g] = Trimmed[f.box[k][g]]
  <2>1. \A g \in Dialog!Required[k] : r.payload[g] = Dialog!read(k, g, f.box[k][g])
    BY FormIsARule
  <2> QED
    BY <2>1 DEF Dialog!read, Dialog!trimmed, Dialog!IsNumber
<1>3. CASE k = "registry"
  <2>1. filled("key_path") /\ (f.box["registry"]["match"] = "Exists" \/ filled("expected_value"))
    BY <1>3 DEF Dialog!is_complete, Dialog!trimmed
  <2>2. f.box["registry"]["match"] = "Exists" => r.payload["match"] = "Exists"
    <3>1. "match" \in Dialog!Required[k] /\ Dialog!IsEnum("match")
      BY <1>3 DEF Dialog!Required, Dialog!IsEnum
    <3>2. r.payload["match"] = Dialog!read(k, "match", f.box[k]["match"])
      BY <3>1, FormIsARule
    <3>3. Dialog!Choices(k, "match") = [m \in {"Exists", "Equals", "Contains"} |-> m]
      BY <1>3 DEF Dialog!Choices, Dialog!WireNames
    <3> QED
      BY <1>3, <3>1, <3>2, <3>3 DEF Dialog!read
  <2>3. \A g \in Dialog!Required[k] \ {"value_name"} :
           ~Dialog!IsEnum(g) => g = "key_path" \/ g = "expected_value"
    BY <1>3 DEF Dialog!Required, Dialog!IsEnum
  <2> QED
    BY <1>1, <1>2, <1>3, <2>1, <2>2, <2>3 DEF Dialog!Blank
<1>4. ASSUME k # "registry", NEW g \in Dialog!Required[k] \ {"value_name"},
             ~Dialog!IsEnum(g), g \notin {"count", "domain_id"}
      PROVE  filled(g)
  <2> USE <1>4 DEF Dialog!is_complete, Dialog!trimmed, Dialog!Required, Dialog!IsEnum
  <2>1. CASE k = "process" BY <2>1
  <2>2. CASE k = "service" BY <2>2
  <2>3. CASE k = "adapter_count" BY <2>3
  <2>4. CASE k = "adapter_state" BY <2>4
  <2>5. CASE k = "dds_topic" BY <2>5
  <2>6. CASE k = "dds_value" BY <2>6
  <2> HIDE DEF Dialog!is_complete, Dialog!trimmed, Dialog!Required, Dialog!IsEnum
  <2> QED
    BY <1>1, <1>4, <2>1, <2>2, <2>3, <2>4, <2>5, <2>6 DEF Dialog!Kinds
<1>5. CASE k # "registry"
  <2>1. \A g : Dialog!IsNumber(g) <=> g \in {"count", "domain_id"}
    BY DEF Dialog!IsNumber
  <2> QED
    BY <1>1, <1>2, <1>4, <1>5, <2>1 DEF Dialog!Blank
<1> QED
  BY <1>3, <1>5

LEMMA AcceptedIsNotBlank ==
    ASSUME DialogInv, Dialog!accept
    PROVE  ~Dialog!Blank(IF dialog = "edit" THEN rules'[row] ELSE rules'[Len(rules')])
<1>1. ~Dialog!Blank(Dialog!rule(form))
  BY AcceptedRule, CompleteIsNotBlank DEF DialogInv, FormIsOpen
<1>2. (IF dialog = "edit" THEN rules'[row] ELSE rules'[Len(rules')]) = Dialog!rule(form)
  BY AcceptedRule
<1> QED
  BY <1>1, <1>2

(* What the form shows of a value is read as the value. *)
LEMMA ShownIsRead ==
    ASSUME NEW kind \in Dialog!Kinds, NEW f \in Dialog!Required[kind], NEW x \in Held(kind, f),
           Dialog!CanShow(f, x)
    PROVE  Dialog!read(kind, f, Dialog!choice_for(kind, f, x)) = x
<1> DEFINE C == Dialog!Choices(kind, f)
<1>0. f \in Dialog!FieldsOf(kind) /\ f # "expected_state"
  BY FieldsByKind
<1>1. CASE Dialog!IsEnum(f)
  <2>1. x \in DOMAIN Dialog!WireNames(kind, f) /\ x # "Unknown"
    BY <1>0, <1>1, HeldIsSet DEF Dialog!CanShow
  <2>2. x \in DOMAIN C /\ \A a, b \in DOMAIN C : C[a] = C[b] => a = b
    BY <1>1, <2>1, ChoicesAreOwn
  <2>3. Dialog!choice_for(kind, f, x) = C[x]
    BY <1>1, <2>2 DEF Dialog!choice_for
  <2>4. Dialog!read(kind, f, C[x]) = CHOOSE c \in DOMAIN C : C[c] = C[x]
    BY <1>1 DEF Dialog!read
  <2> HIDE DEF C
  <2> QED
    BY <2>2, <2>3, <2>4, WordIsFound
<1>2. CASE f = "count"
  <2>1. x \in Int /\ 0 <= x /\ x <= 64 /\ ~Dialog!IsEnum(f) /\ Dialog!IsNumber(f)
    BY <1>2, FieldSets DEF Held, Dialog!Values, Dialog!CanShow, Dialog!IsEnum, Dialog!IsNumber
  <2>2. ~(x < 0) /\ ~(x > 64)
    BY <2>1
  <2>3. Dialog!choice_for(kind, f, x) = x
    BY <1>2, <2>1, <2>2 DEF Dialog!choice_for
  <2> QED
    BY <1>2, <2>1, <2>3 DEF Dialog!read
<1>3. CASE f = "domain_id"
  <2>1. x \in Nat /\ x <= 232 /\ ~Dialog!IsEnum(f) /\ Dialog!IsNumber(f)
    BY <1>3, FieldSets DEF Held, Dialog!Values, Dialog!CanShow, Dialog!IsEnum, Dialog!IsNumber
  <2>2. Dialog!choice_for(kind, f, x) = x
    BY <1>3, <2>1 DEF Dialog!choice_for
  <2> QED
    BY <1>3, <2>1, <2>2 DEF Dialog!read
<1>4. CASE ~Dialog!IsEnum(f) /\ f # "count" /\ f # "domain_id"
  <2>1. Dialog!choice_for(kind, f, x) = x /\ x = Dialog!trimmed(x)
    BY <1>4 DEF Dialog!choice_for, Dialog!CanShow
  <2> QED
    BY <1>4, <2>1 DEF Dialog!read, Dialog!IsNumber
<1> QED
  BY <1>1, <1>2, <1>3, <1>4

LEMMA EditKeeps ==
    ASSUME DialogInv, Dialog!accept, dialog = "edit", NEW i \in DOMAIN rules
    PROVE  IF i # row THEN rules'[i] = rules[i]
           ELSE /\ rules'[i].kind = rules[i].kind
                /\ \A f \in Dialog!Fields(rules[i].kind) :
                      \/ <<rules[i].kind, f>> \in touched
                      \/ ~Dialog!CanShow(f, rules[i].payload[f])
                      \/ rules'[i].payload[f] = rules[i].payload[f]
<1>1. /\ row \in DOMAIN rules /\ rules'[row] = Dialog!rule(form)
      /\ i # row => rules'[i] = rules[i]
  BY AcceptedRule
<1>2. /\ FormShape(form) /\ form.page = rules[row].kind
      /\ \A f \in Dialog!Required[form.page] :
            \/ <<form.page, f>> \in touched
            \/ form.box[form.page][f] = Dialog!choice_for(form.page, f, rules[row].payload[f])
  BY DEF DialogInv, FormIsOpen, ShowsRow
<1>3. rules[row] \in AnyRule
  BY <1>1 DEF DialogInv, TextIsPublished, GoodRules
<1>4. form.page \in Dialog!Kinds
      /\ \A f \in Dialog!FieldsOf(form.page) : rules[row].payload[f] \in Held(form.page, f)
  BY <1>2, <1>3, RulesByField DEF PayloadOf
<1>5. /\ Dialog!rule(form).kind = form.page
      /\ \A f \in Dialog!Required[form.page] :
            Dialog!rule(form).payload[f] = Dialog!read(form.page, f, form.box[form.page][f])
  BY <1>2, FormIsARule
<1>6. ASSUME NEW f \in Dialog!Required[form.page], <<form.page, f>> \notin touched,
             Dialog!CanShow(f, rules[row].payload[f])
      PROVE  Dialog!rule(form).payload[f] = rules[row].payload[f]
  <2>1. f \in Dialog!FieldsOf(form.page)
    BY <1>4, FieldsByKind
  <2>2. form.box[form.page][f] = Dialog!choice_for(form.page, f, rules[row].payload[f])
    BY <1>2, <1>6
  <2> QED
    BY <1>4, <1>5, <1>6, <2>1, <2>2, ShownIsRead
<1> QED
  BY <1>1, <1>2, <1>5, <1>6 DEF Dialog!Fields

(* Whatever bundle is read and however rules are added and edited: the     *)
(* text reads as the rules that were published, every key of a rule that   *)
(* was read says what the rule holds, but a number that is cast, what is   *)
(* accepted is what the summary said and nothing blank, and an edit keeps  *)
(* what the operator did not touch and the form can show                   *)
(* (add_rule_dialog.cpp, json.cpp).  Keys that no rule has are not part of *)
(* this: they are read over.                                               *)
THEOREM RulesAreKept == Spec => RulesAreAsShown
<1>1. DialogInv => Dialog!TypeOK /\ Dialog!TextReadsAsPublished /\ Dialog!NothingIsGuessed
  BY DialogTypes DEF DialogInv, TextIsPublished
<1>2. DialogInv =>
        [Dialog!accept => \E i \in DOMAIN rules' :
            Dialog!Described(rules'[i]) = summary
            /\ i = (IF dialog = "edit" THEN row ELSE Len(rules'))]_Dialog!vars
  BY SavedAsSaid
<1>3. DialogInv =>
        [Dialog!accept => ~Dialog!Blank(IF dialog = "edit" THEN rules'[row]
                                                           ELSE rules'[Len(rules')])]_Dialog!vars
  BY AcceptedIsNotBlank
<1>4. DialogInv =>
        [Dialog!accept /\ dialog = "edit" =>
            \A i \in DOMAIN rules :
                IF i # row THEN rules'[i] = rules[i]
                ELSE /\ rules'[i].kind = rules[i].kind
                     /\ \A f \in Dialog!Fields(rules[i].kind) :
                           \/ <<rules[i].kind, f>> \in touched
                           \/ ~Dialog!CanShow(f, rules[i].payload[f])
                           \/ rules'[i].payload[f] = rules[i].payload[f]]_Dialog!vars
  BY EditKeeps
<1> QED
  BY <1>1, <1>2, <1>3, <1>4, DialogInvariant, PTL
  DEF RulesAreAsShown, Dialog!SavedAsSummarised, Dialog!NothingBlankIsAccepted, Dialog!EditKeepsWhatItShows

-----------------------------------------------------------------------------
(* TemplateEditor and TemplateBundle.  What the repair of a bundle, the    *)
(* rules of a host and the edits of a list make is walked list by list: a  *)
(* walk has an account for each step, and what each step keeps holds at    *)
(* its end.  The invariant says that the draft is sound: each place of it  *)
(* has an id of its own, and of two templates of one name the second has   *)
(* no rules, so that none is shadowed.                                     *)

(* A set of numbers with 0 and the successor of each has them all. *)
LEMMA Induction ==
    ASSUME NEW T, 0 \in T, \A n \in Nat : n \in T => n + 1 \in T
    PROVE  \A n \in Nat : n \in T
<1>. DEFINE U == Nat \ T
<1>. SUFFICES ASSUME U # {} PROVE FALSE
  OBVIOUS
<1>1. PICK m \in U : \A k \in U : ~(k < m)
  <2>. DEFINE R == OpToRel(<, Nat)
  <2>1. IsWellFoundedOn(R, Nat)
    BY NatLessThanWellFounded
  <2>2. PICK m \in U : \A k \in U : ~(<<k, m>> \in R)
    <3>. HIDE DEF R, U
    <3>1. U \subseteq Nat
      BY DEF U
    <3>. QED  BY <2>1, <3>1, WFMin
  <2>. QED  BY <2>2 DEF OpToRel
<1>2. m # 0 /\ m \in Nat /\ m - 1 \in Nat
  BY <1>1
<1>3. m - 1 \in T
  BY <1>1, <1>2
<1>. QED  BY <1>1, <1>2, <1>3

(* What holds before a walk of N steps and is kept by each holds at every step of it. *)
LEMMA WalkInduction ==
    ASSUME NEW N \in Nat, NEW T, 0 \in T, \A n \in 1 .. N : n - 1 \in T => n \in T
    PROVE  \A n \in 0 .. N : n \in T
<1>. DEFINE U == {n \in Nat : n <= N => n \in T}
<1>1. 0 \in U /\ \A n \in Nat : n \in U => n + 1 \in U
  <2>1. ASSUME NEW n \in Nat, n \in U PROVE n + 1 \in U
    <3>. SUFFICES ASSUME n + 1 <= N PROVE n + 1 \in T
      OBVIOUS
    <3>1. n \in T /\ n + 1 \in 1 .. N /\ (n + 1) - 1 = n
      BY <2>1
    <3>. QED  BY <3>1
  <2>. QED  BY <2>1
<1>. HIDE DEF U
<1>2. \A n \in Nat : n \in U
  BY <1>1, Induction
<1>. QED  BY <1>2 DEF U

Walked(f, first, N, G) == f[0] = first /\ \A n \in 1 .. N : f[n] = G[<<f[n - 1], n>>]

(* A walk of N steps that keeps an account in A has an account of each step. *)
LEMMA WalkExists ==
    ASSUME NEW A, NEW first \in A, NEW N \in Nat, NEW G \in [A \X (1 .. N) -> A]
    PROVE  \E f \in [0 .. N -> A] : Walked(f, first, N, G)
<1>. DEFINE T == {m \in Nat : m <= N => \E f \in [0 .. m -> A] : Walked(f, first, m, G)}
<1>1. 0 \in T
  <2>. DEFINE f == [n \in 0 .. 0 |-> first]
  <2>1. f \in [0 .. 0 -> A] /\ Walked(f, first, 0, G)
    BY DEF Walked
  <2>. QED  BY <2>1
<1>2. ASSUME NEW m \in Nat, m \in T PROVE m + 1 \in T
  <2>. SUFFICES ASSUME m + 1 <= N PROVE \E f \in [0 .. m + 1 -> A] : Walked(f, first, m + 1, G)
    OBVIOUS
  <2>1. PICK f \in [0 .. m -> A] : Walked(f, first, m, G)
    BY <1>2
  <2>. DEFINE g == [n \in 0 .. m + 1 |-> IF n = m + 1 THEN G[<<f[m], m + 1>>] ELSE f[n]]
  <2>2. G[<<f[m], m + 1>>] \in A
    OBVIOUS
  <2>3. g \in [0 .. m + 1 -> A]
    BY <2>2
  <2>4. Walked(g, first, m + 1, G)
    <3>1. g[0] = first /\ g[m + 1] = G[<<f[m], m + 1>>] /\ \A n \in 0 .. m : g[n] = f[n]
      BY <2>1 DEF Walked
    <3>2. \A n \in 1 .. m : g[n] = G[<<g[n - 1], n>>]
      <4>. TAKE n \in 1 .. m
      <4>1. n \in 0 .. m /\ n - 1 \in 0 .. m
        OBVIOUS
      <4>2. g[n] = f[n] /\ g[n - 1] = f[n - 1]
        BY <3>1, <4>1
      <4>. QED  BY <2>1, <4>2 DEF Walked
    <3>. HIDE DEF g
    <3>3. \A n \in 1 .. m + 1 : g[n] = G[<<g[n - 1], n>>]
      <4>. TAKE n \in 1 .. m + 1
      <4>1. CASE n \in 1 .. m
        BY <3>2, <4>1
      <4>2. CASE n = m + 1
        <5>1. n - 1 = m /\ g[n - 1] = f[m]
          BY <4>2, <3>1
        <5>. QED  BY <5>1, <4>2, <3>1
      <4>. QED  BY <4>1, <4>2
    <3>. QED  BY <3>1, <3>3 DEF Walked
  <2>. QED  BY <2>3, <2>4
<1>. HIDE DEF T
<1>3. N \in T
  BY <1>1, <1>2, Induction
<1>. QED  BY <1>3 DEF T

-----------------------------------------------------------------------------
(* append() *)
LEMMA AppendWalks ==
    ASSUME NEW R, NEW found \in Seq(R), NEW list \in Seq(R)
    PROVE  \E f :
              /\ f[0] = found /\ Editor!append(found, list) = f[Len(list)]
              /\ \A n \in 1 .. Len(list) : f[n] = Editor!push_unseen(f[n - 1], list[n])
<1>. DEFINE N == Len(list)
            S == Seq(R)
            G == [x \in S \X (1 .. N) |-> Editor!push_unseen(x[1], list[x[2]])]
            Walk(f) == f = [n \in 0 .. N |-> IF n = 0 THEN found
                                             ELSE Editor!push_unseen(f[n - 1], list[n])]
<1>1. found \in S /\ N \in Nat /\ G \in [S \X (1 .. N) -> S]
  BY DEF Editor!push_unseen
<1>2. PICK f \in [0 .. N -> S] : Walked(f, found, N, G)
  <2>. HIDE DEF G, N, S
  <2>. QED  BY <1>1, WalkExists
<1>3. \A n \in 1 .. N : f[n] = Editor!push_unseen(f[n - 1], list[n])
  <2>. TAKE n \in 1 .. N
  <2>1. f[n - 1] \in S
    BY <1>1
  <2>. QED  BY <1>2, <2>1 DEF Walked
<1>4. Walk(f)
  <2>1. \A n \in 0 .. N : f[n] = IF n = 0 THEN found ELSE Editor!push_unseen(f[n - 1], list[n])
    BY <1>2, <1>3 DEF Walked
  <2>. HIDE DEF N
  <2>. QED  BY <2>1
<1>5. PICK g : Walk(g) /\ Editor!append(found, list) = g[N]
  <2>. DEFINE h == CHOOSE u : Walk(u)
  <2>1. Walk(h)
    BY <1>4
  <2>2. Editor!append(found, list) = h[N]
    BY DEF Editor!append
  <2>. QED  BY <2>1, <2>2
<1>6. g[0] = found /\ \A n \in 1 .. N : g[n] = Editor!push_unseen(g[n - 1], list[n])
  <2>. HIDE DEF N
  <2>. QED  BY <1>1, <1>5
<1>. QED  BY <1>5, <1>6

Elements(list) == {list[i] : i \in DOMAIN list}
IdsOf(list) == {list[i].id : i \in DOMAIN list}

(* A list of rules of R, of which no two share an id. *)
OwnIds(list, R) ==
    list \in Seq(R) /\ \A i, j \in DOMAIN list : list[i].id = list[j].id => i = j

(* What an account found so far becomes with a rule, or with a list of them. *)
WithRule(new, found, rule, R) ==
    /\ OwnIds(new, R)
    /\ Elements(new) \subseteq Elements(found) \cup {rule}
    /\ IdsOf(new) = IdsOf(found) \cup {rule.id}

WithRules(new, found, list, R) ==
    /\ OwnIds(new, R)
    /\ Elements(new) \subseteq Elements(found) \cup Elements(list)
    /\ IdsOf(new) = IdsOf(found) \cup IdsOf(list)

(* Append(): one element more, at the end. *)
LEMMA Pushed ==
    ASSUME NEW R, NEW list \in Seq(R), NEW e \in R
    PROVE  /\ Append(list, e) \in Seq(R) /\ Len(Append(list, e)) = Len(list) + 1
           /\ DOMAIN Append(list, e) = 1 .. Len(list) + 1 /\ DOMAIN list = 1 .. Len(list)
           /\ Append(list, e)[Len(list) + 1] = e
           /\ \A i \in 1 .. Len(list) : Append(list, e)[i] = list[i]
  OBVIOUS

(* push_unseen(): a rule is added if its id is new. *)
LEMMA PushedUnseen ==
    ASSUME NEW R, NEW found, NEW rule \in R, OwnIds(found, R)
    PROVE  WithRule(Editor!push_unseen(found, rule), found, rule, R)
<1>. DEFINE new == Editor!push_unseen(found, rule)
<1>1. CASE \E i \in DOMAIN found : found[i].id = rule.id
  <2>1. new = found
    BY <1>1 DEF Editor!push_unseen
  <2>2. rule.id \in IdsOf(found)
    BY <1>1 DEF IdsOf
  <2>. HIDE DEF new
  <2>3. IdsOf(new) = IdsOf(found) \cup {rule.id}
    BY <2>1, <2>2
  <2>4. WithRule(new, found, rule, R)
    BY <2>1, <2>3 DEF WithRule
  <2>. QED  BY <2>4 DEF new
<1>2. CASE \A i \in DOMAIN found : found[i].id # rule.id
  <2>1. new = Append(found, rule)
    BY <1>2 DEF Editor!push_unseen
  <2>. HIDE DEF new
  <2>2. /\ new \in Seq(R) /\ DOMAIN new = DOMAIN found \cup {Len(found) + 1}
        /\ new[Len(found) + 1] = rule /\ Len(found) + 1 \notin DOMAIN found
        /\ \A i \in DOMAIN found : new[i] = found[i]
    BY <2>1, Pushed DEF OwnIds
  <2>3. OwnIds(new, R)
    BY <1>2, <2>2 DEF OwnIds
  <2>4. Elements(new) \subseteq Elements(found) \cup {rule}
    BY <2>2 DEF Elements
  <2>5. IdsOf(new) = IdsOf(found) \cup {rule.id}
    BY <2>2 DEF IdsOf
  <2>6. WithRule(new, found, rule, R)
    BY <2>3, <2>4, <2>5 DEF WithRule
  <2>. QED  BY <2>6 DEF new
<1>. QED  BY <1>1, <1>2

(* append(): each id once, nothing that was not there, and every id that was. *)
LEMMA Appended ==
    ASSUME NEW R, NEW found, NEW list \in Seq(R), OwnIds(found, R)
    PROVE  WithRules(Editor!append(found, list), found, list, R)
<1>1. PICK f : /\ f[0] = found /\ Editor!append(found, list) = f[Len(list)]
               /\ \A n \in 1 .. Len(list) : f[n] = Editor!push_unseen(f[n - 1], list[n])
  BY AppendWalks DEF OwnIds
<1>. DEFINE Some(n) == {list[i].id : i \in 1 .. n}
            T == {n \in 0 .. Len(list) :
                    /\ OwnIds(f[n], R)
                    /\ Elements(f[n]) \subseteq Elements(found) \cup Elements(list)
                    /\ IdsOf(f[n]) = IdsOf(found) \cup Some(n)}
<1>2. Len(list) \in Nat /\ DOMAIN list = 1 .. Len(list)
  OBVIOUS
<1>3. 0 \in T
  <2>1. Some(0) = {}
    OBVIOUS
  <2>. HIDE DEF Some
  <2>. QED  BY <1>1, <1>2, <2>1
<1>4. ASSUME NEW n \in 1 .. Len(list), n - 1 \in T PROVE n \in T
  <2>1. WithRule(f[n], f[n - 1], list[n], R)
    BY <1>1, <1>2, <1>4, PushedUnseen
  <2>2. list[n] \in Elements(list)
    BY <1>2 DEF Elements
  <2>3. Some(n) = Some(n - 1) \cup {list[n].id}
    <3>1. 1 .. n = 1 .. n - 1 \cup {n}
      OBVIOUS
    <3>. QED  BY <3>1
  <2>. HIDE DEF Some
  <2>4. Elements(f[n]) \subseteq Elements(found) \cup Elements(list)
    BY <1>4, <2>1, <2>2 DEF WithRule
  <2>5. IdsOf(f[n]) = IdsOf(found) \cup Some(n)
    BY <1>4, <2>1, <2>3 DEF WithRule
  <2>. QED  BY <2>1, <2>4, <2>5 DEF WithRule
<1>5. Some(Len(list)) = IdsOf(list)
  BY <1>2 DEF IdsOf
<1>. HIDE DEF Some
<1>6. Len(list) \in T
  <2>1. \A n \in 1 .. Len(list) : n - 1 \in T => n \in T
    BY <1>4
  <2>. HIDE DEF T
  <2>2. \A n \in 0 .. Len(list) : n \in T
    BY <1>2, <1>3, <2>1, WalkInduction
  <2>. QED  BY <1>2, <2>2
<1>. QED  BY <1>1, <1>5, <1>6 DEF WithRules

(* The templates of a bundle, the baseline being number 0, and all its rules. *)
Places(b) == {0} \cup DOMAIN b.templates
AllRules(b) == UNION {Elements(Editor!RulesIn(b, t)) : t \in Places(b)}

(* Each place of a bundle has an id of its own. *)
OneEach(b) ==
    \A t, u \in Places(b) :
    \A i \in DOMAIN Editor!RulesIn(b, t), j \in DOMAIN Editor!RulesIn(b, u) :
        /\ Editor!RulesIn(b, t)[i].id # Editor!NoId
        /\ Editor!RulesIn(b, t)[i].id = Editor!RulesIn(b, u)[j].id => t = u /\ i = j

(* The parts of a bundle, as facts to cite. *)
LEMMA BundleParts ==
    ASSUME NEW b, Editor!IsBundle(b)
    PROVE  /\ b.baseline \in Seq(Editor!Rule) /\ b.templates \in Seq(Editor!Template)
           /\ DOMAIN b.templates = 1 .. Len(b.templates) /\ Len(b.templates) \in Nat
           /\ \A t \in DOMAIN b.templates :
                 /\ b.templates[t] \in Editor!Template
                 /\ b.templates[t].name \in Names /\ b.templates[t].rules \in Seq(Editor!Rule)
           /\ \A t \in Places(b) : Editor!RulesIn(b, t) \in Seq(Editor!Rule)
           /\ \A h \in DOMAIN b.assignments : b.assignments[h] \in Seq(Names)
<1>1. b.baseline \in Seq(Editor!Rule) /\ b.templates \in Seq(Editor!Template)
  BY DEF Editor!IsBundle
<1>2. DOMAIN b.templates = 1 .. Len(b.templates) /\ Len(b.templates) \in Nat
  BY <1>1
<1>3. \A t \in DOMAIN b.templates : b.templates[t] \in Editor!Template
  BY <1>1
<1>4. \A t \in DOMAIN b.templates :
         b.templates[t].name \in Names /\ b.templates[t].rules \in Seq(Editor!Rule)
  BY <1>3 DEF Editor!Template
<1>5. \A t \in Places(b) : Editor!RulesIn(b, t) \in Seq(Editor!Rule)
  BY <1>1, <1>4 DEF Places, Editor!RulesIn, Editor!Baseline
<1>6. \A h \in DOMAIN b.assignments : b.assignments[h] \in Seq(Names)
  BY DEF Editor!IsBundle
<1>. QED  BY <1>1, <1>2, <1>3, <1>4, <1>5, <1>6

(* find_template(): a template that is the first of its name. *)
LEMMA FirstIsFound ==
    ASSUME NEW b, Editor!IsBundle(b), NEW t \in DOMAIN b.templates,
           \A i \in DOMAIN b.templates : i < t => b.templates[i].name # b.templates[t].name
    PROVE  Editor!rules_named(b, b.templates[t].name) = b.templates[t].rules
<1>. DEFINE name == b.templates[t].name
            found == Editor!find_template(b, name)
<1>1. DOMAIN b.templates = 1 .. Len(b.templates) /\ Len(b.templates) \in Nat
  BY BundleParts
<1>2. t \in found
  BY <1>1 DEF Editor!find_template
<1>3. \A i \in found : i = t
  <2>. TAKE i \in found
  <2>1. /\ i \in DOMAIN b.templates /\ b.templates[i].name = name
        /\ \A j \in 1 .. i - 1 : b.templates[j].name # name
    BY DEF Editor!find_template
  <2>2. ~(t < i) /\ ~(i < t) /\ i \in Nat /\ t \in Nat
    BY <1>1, <2>1
  <2>. QED  BY <2>2
<1>. HIDE DEF found
<1>4. found # {} /\ (CHOOSE i \in found : TRUE) = t
  BY <1>2, <1>3
<1>. QED  BY <1>4 DEF Editor!rules_named, found

(* What a name of a row stands for: rules of the bundle. *)
LEMMA NamedRules ==
    ASSUME NEW b, Editor!IsBundle(b), NEW name
    PROVE  /\ Editor!rules_named(b, name) \in Seq(Editor!Rule)
           /\ Elements(Editor!rules_named(b, name)) \subseteq AllRules(b)
<1>. DEFINE found == Editor!find_template(b, name)
<1>1. CASE found = {}
  <2>1. Editor!rules_named(b, name) = <<>>
    BY <1>1 DEF Editor!rules_named
  <2>. QED  BY <2>1 DEF Elements
<1>2. CASE found # {}
  <2>1. PICK t \in found : Editor!rules_named(b, name) = b.templates[t].rules
    BY <1>2 DEF Editor!rules_named
  <2>2. t \in DOMAIN b.templates
    BY DEF Editor!find_template
  <2>3. t \in Places(b) /\ t # 0
    BY <2>2, BundleParts DEF Places
  <2>4. Editor!rules_named(b, name) = Editor!RulesIn(b, t)
    BY <2>1, <2>3 DEF Editor!RulesIn, Editor!Baseline
  <2>5. Editor!RulesIn(b, t) \in Seq(Editor!Rule)
    BY <2>3, BundleParts
  <2>. QED  BY <2>3, <2>4, <2>5 DEF AllRules
<1>. QED  BY <1>1, <1>2

(* The names of a host's row. *)
NamesOf(b, host) == IF host \in DOMAIN b.assignments THEN b.assignments[host] ELSE <<>>

(* rules_for() *)
LEMMA RulesForWalks ==
    ASSUME NEW b, Editor!IsBundle(b), NEW host
    PROVE  \E f :
              /\ f[0] = Editor!append(<<>>, b.baseline)
              /\ Editor!rules_for(b, host) = f[Len(NamesOf(b, host))]
              /\ \A n \in 1 .. Len(NamesOf(b, host)) :
                    f[n] = Editor!append(f[n - 1], Editor!rules_named(b, NamesOf(b, host)[n]))
<1>. DEFINE names == NamesOf(b, host)
            N == Len(names)
            first == Editor!append(<<>>, b.baseline)
            next(found, n) == Editor!append(found, Editor!rules_named(b, names[n]))
            S == {list \in Seq(Editor!Rule) : OwnIds(list, Editor!Rule)}
            G == [x \in S \X (1 .. N) |-> next(x[1], x[2])]
            Walk(f) == f = [n \in 0 .. N |-> IF n = 0 THEN first ELSE next(f[n - 1], n)]
<1>1. names \in Seq(Names) /\ N \in Nat
  BY BundleParts DEF NamesOf
<1>2. first \in S
  <2>1. OwnIds(<<>>, Editor!Rule)
    BY DEF OwnIds
  <2>2. WithRules(first, <<>>, b.baseline, Editor!Rule)
    BY <2>1, Appended, BundleParts
  <2>. QED  BY <2>2 DEF WithRules, OwnIds
<1>3. G \in [S \X (1 .. N) -> S]
  <2>1. ASSUME NEW found \in S, NEW n \in 1 .. N PROVE next(found, n) \in S
    <3>1. WithRules(next(found, n), found, Editor!rules_named(b, names[n]), Editor!Rule)
      BY Appended, NamedRules
    <3>. QED  BY <3>1 DEF WithRules, OwnIds
  <2>. HIDE DEF S, N, next
  <2>. QED  BY <2>1
<1>4. PICK f \in [0 .. N -> S] : Walked(f, first, N, G)
  <2>. HIDE DEF G, N, S, first
  <2>. QED  BY <1>1, <1>2, <1>3, WalkExists
<1>5. \A n \in 1 .. N : f[n] = next(f[n - 1], n)
  <2>. HIDE DEF S, next, N
  <2>. TAKE n \in 1 .. N
  <2>1. f[n - 1] \in S
    BY <1>1
  <2>. QED  BY <1>4, <2>1 DEF Walked
<1>6. Walk(f)
  <2>1. \A n \in 0 .. N : f[n] = IF n = 0 THEN first ELSE next(f[n - 1], n)
    BY <1>4, <1>5 DEF Walked
  <2>. HIDE DEF N, first, next
  <2>. QED  BY <2>1
<1>7. PICK g : Walk(g) /\ Editor!rules_for(b, host) = g[N]
  <2>. DEFINE h == CHOOSE u : Walk(u)
  <2>1. Walk(h)
    BY <1>6
  <2>2. Editor!rules_for(b, host) = h[N]
    BY DEF Editor!rules_for, NamesOf
  <2>. QED  BY <2>1, <2>2
<1>8. g[0] = first /\ \A n \in 1 .. N : g[n] = next(g[n - 1], n)
  <2>. HIDE DEF N, first, next
  <2>. QED  BY <1>1, <1>7
<1>. QED  BY <1>7, <1>8

(* rules_for(): each id once, rules of the bundle only, and those of every name. *)
LEMMA RulesFor ==
    ASSUME NEW b, Editor!IsBundle(b), NEW host
    PROVE  /\ OwnIds(Editor!rules_for(b, host), Editor!Rule)
           /\ Elements(Editor!rules_for(b, host)) \subseteq AllRules(b)
           /\ IdsOf(b.baseline) \subseteq IdsOf(Editor!rules_for(b, host))
           /\ \A n \in 1 .. Len(NamesOf(b, host)) :
                 IdsOf(Editor!rules_named(b, NamesOf(b, host)[n]))
                    \subseteq IdsOf(Editor!rules_for(b, host))
<1>. DEFINE names == NamesOf(b, host)
            N == Len(names)
            given(n) == Editor!rules_named(b, names[n])
            first == Editor!append(<<>>, b.baseline)
<1>1. N \in Nat
  <2>1. names \in Seq(Names)
    BY BundleParts DEF NamesOf
  <2>. QED  BY <2>1
<1>2. PICK f : /\ f[0] = first /\ Editor!rules_for(b, host) = f[N]
               /\ \A n \in 1 .. N : f[n] = Editor!append(f[n - 1], given(n))
  BY RulesForWalks
<1>3. \A n \in 1 .. N : given(n) \in Seq(Editor!Rule) /\ Elements(given(n)) \subseteq AllRules(b)
  BY NamedRules
<1>4. /\ OwnIds(first, Editor!Rule) /\ Elements(first) \subseteq AllRules(b)
      /\ IdsOf(first) = IdsOf(b.baseline)
  <2>1. OwnIds(<<>>, Editor!Rule) /\ Elements(<<>>) = {} /\ IdsOf(<<>>) = {}
    BY DEF OwnIds, Elements, IdsOf
  <2>2. WithRules(first, <<>>, b.baseline, Editor!Rule)
    BY <2>1, Appended, BundleParts
  <2>3. Elements(b.baseline) \subseteq AllRules(b)
    <3>1. 0 \in Places(b) /\ Editor!RulesIn(b, 0) = b.baseline
      BY DEF Places, Editor!RulesIn, Editor!Baseline
    <3>. QED  BY <3>1 DEF AllRules
  <2>. QED  BY <2>1, <2>2, <2>3 DEF WithRules
<1>. HIDE DEF given, first, N
<1>. DEFINE T == {n \in 0 .. N :
                    /\ OwnIds(f[n], Editor!Rule) /\ Elements(f[n]) \subseteq AllRules(b)
                    /\ IdsOf(b.baseline) \subseteq IdsOf(f[n])
                    /\ \A m \in 1 .. n : IdsOf(given(m)) \subseteq IdsOf(f[n])}
<1>5. 0 \in T
  BY <1>1, <1>2, <1>4
<1>6. ASSUME NEW n \in 1 .. N, n - 1 \in T PROVE n \in T
  <2>1. WithRules(f[n], f[n - 1], given(n), Editor!Rule)
    BY <1>2, <1>3, <1>6, Appended
  <2>2. Elements(f[n]) \subseteq AllRules(b)
    BY <1>3, <1>6, <2>1 DEF WithRules
  <2>3. IdsOf(b.baseline) \subseteq IdsOf(f[n])
    BY <1>6, <2>1 DEF WithRules
  <2>4. \A m \in 1 .. n : IdsOf(given(m)) \subseteq IdsOf(f[n])
    <3>. TAKE m \in 1 .. n
    <3>1. CASE m = n
      BY <2>1, <3>1 DEF WithRules
    <3>2. CASE m \in 1 .. n - 1
      <4>1. IdsOf(given(m)) \subseteq IdsOf(f[n - 1])
        BY <1>6, <3>2
      <4>. QED  BY <2>1, <4>1 DEF WithRules
    <3>. QED  BY <1>1, <3>1, <3>2
  <2>. QED  BY <1>1, <2>1, <2>2, <2>3, <2>4 DEF WithRules
<1>7. N \in T
  <2>1. \A n \in 1 .. N : n - 1 \in T => n \in T
    BY <1>6
  <2>. HIDE DEF T
  <2>2. \A n \in 0 .. N : n \in T
    BY <1>1, <1>5, <2>1, WalkInduction
  <2>. QED  BY <1>1, <2>2
<1>. QED  BY <1>2, <1>7 DEF N, given

(* A rule of the baseline, or of a template that a row names, is checked   *)
(* once: its id is, and no other place of the bundle has that id.          *)
LEMMA CheckedOnce ==
    ASSUME NEW b, Editor!IsBundle(b), OneEach(b), NEW host,
           NEW t \in Places(b), NEW i \in DOMAIN Editor!RulesIn(b, t),
           Editor!RulesIn(b, t)[i].id \in IdsOf(Editor!rules_for(b, host))
    PROVE  LET checked == Editor!rules_for(b, host)
           IN  Cardinality({k \in DOMAIN checked : checked[k] = Editor!RulesIn(b, t)[i]}) = 1
<1>. DEFINE checked == Editor!rules_for(b, host)
            rule == Editor!RulesIn(b, t)[i]
            Same == {k \in DOMAIN checked : checked[k] = rule}
<1>1. PICK k \in DOMAIN checked : checked[k].id = rule.id
  BY DEF IdsOf
<1>2. PICK u \in Places(b) : checked[k] \in Elements(Editor!RulesIn(b, u))
  <2>1. checked[k] \in AllRules(b)
    BY RulesFor DEF Elements
  <2>. QED  BY <2>1 DEF AllRules
<1>3. PICK j \in DOMAIN Editor!RulesIn(b, u) : checked[k] = Editor!RulesIn(b, u)[j]
  BY <1>2 DEF Elements
<1>4. checked[k] = rule
  BY <1>1, <1>2, <1>3 DEF OneEach
<1>5. Same = {k}
  <2>1. \A m \in DOMAIN checked : checked[m].id = checked[k].id => m = k
    BY RulesFor DEF OwnIds
  <2>. HIDE DEF checked, rule
  <2>. QED  BY <1>4, <1>1, <2>1
<1>. QED  BY <1>5, FS_Singleton

(* The instance counts as this module does. *)
LEMMA SameCount == \A S : Editor!Cardinality(S) = Cardinality(S)
  BY Zenon DEF Editor!Cardinality, Cardinality, Editor!IsFiniteSet, IsFiniteSet

(* The places of a bundle, as pairs and one by one. *)
LEMMA PlaceOf ==
    ASSUME NEW b, NEW p \in Editor!Positions(b)
    PROVE  /\ p[1] \in Places(b) /\ p[2] \in DOMAIN Editor!RulesIn(b, p[1])
           /\ p = <<p[1], p[2]>>
           /\ Editor!RuleAt(b, p) = Editor!RulesIn(b, p[1])[p[2]]
<1>1. PICK t \in Places(b) : p \in {t} \X DOMAIN Editor!RulesIn(b, t)
  BY DEF Editor!Positions, Places, Editor!Baseline
<1>2. p[1] = t /\ p[2] \in DOMAIN Editor!RulesIn(b, t) /\ p = <<p[1], p[2]>>
  BY <1>1
<1>. QED  BY <1>2 DEF Editor!RuleAt

(* What the invariant is for. *)
LEMMA IdsAreUnique ==
    ASSUME OneEach(draft)
    PROVE  Editor!IdsUnique
<1>. SUFFICES ASSUME NEW p \in Editor!Positions(draft), NEW q \in Editor!Positions(draft)
              PROVE  /\ Editor!RuleAt(draft, p).id # Editor!NoId
                     /\ p # q => Editor!RuleAt(draft, p).id # Editor!RuleAt(draft, q).id
  BY DEF Editor!IdsUnique
<1>1. /\ p[1] \in Places(draft) /\ p[2] \in DOMAIN Editor!RulesIn(draft, p[1])
      /\ q[1] \in Places(draft) /\ q[2] \in DOMAIN Editor!RulesIn(draft, q[1])
      /\ p = <<p[1], p[2]>> /\ q = <<q[1], q[2]>>
      /\ Editor!RuleAt(draft, p) = Editor!RulesIn(draft, p[1])[p[2]]
      /\ Editor!RuleAt(draft, q) = Editor!RulesIn(draft, q[1])[q[2]]
  BY PlaceOf
<1>2. Editor!RuleAt(draft, p).id # Editor!NoId
  BY <1>1 DEF OneEach
<1>3. ASSUME Editor!RuleAt(draft, p).id = Editor!RuleAt(draft, q).id PROVE p = q
  <2>1. p[1] = q[1] /\ p[2] = q[2]
    BY <1>1, <1>3 DEF OneEach
  <2>. QED  BY <1>1, <2>1
<1>. QED  BY <1>2, <1>3

LEMMA NothingIsDropped ==
    ASSUME Editor!IsBundle(draft), OneEach(draft), Editor!SecondIsEmpty(draft)
    PROVE  Editor!NothingDropped
<1>. DEFINE named(host) == {i \in DOMAIN draft.templates :
                  draft.templates[i].name \in Editor!ToSet(draft.assignments[host])}
            Once(host, p) ==
               LET checked == Editor!rules_for(draft, host)
               IN  Editor!Cardinality({i \in DOMAIN checked : checked[i] = Editor!RuleAt(draft, p)}) = 1
<1>. SUFFICES ASSUME NEW host \in Editor!Assigned, NEW p \in Editor!Positions(draft),
                     p[1] \in {Editor!Baseline} \cup named(host)
              PROVE  Once(host, p)
  BY Zenon DEF Editor!NothingDropped
<1>0. p[1] = 0 \/ /\ p[1] \in DOMAIN draft.templates
                  /\ draft.templates[p[1]].name \in Editor!ToSet(draft.assignments[host])
  BY DEF Editor!Baseline
<1>1. /\ p[1] \in Places(draft) /\ p[2] \in DOMAIN Editor!RulesIn(draft, p[1])
      /\ Editor!RuleAt(draft, p) = Editor!RulesIn(draft, p[1])[p[2]]
  BY PlaceOf
<1>. DEFINE t == p[1]
            id == Editor!RulesIn(draft, t)[p[2]].id
<1>2. id \in IdsOf(Editor!RulesIn(draft, t))
  BY <1>1 DEF IdsOf
<1>3. id \in IdsOf(Editor!rules_for(draft, host))
  <2>1. CASE t = 0
    <3>1. Editor!RulesIn(draft, t) = draft.baseline
      BY <2>1 DEF Editor!RulesIn, Editor!Baseline
    <3>. QED  BY <1>2, <3>1, RulesFor
  <2>2. CASE /\ t \in DOMAIN draft.templates
             /\ draft.templates[t].name \in Editor!ToSet(draft.assignments[host])
    <3>1. t # 0 /\ Editor!RulesIn(draft, t) = draft.templates[t].rules
      BY <2>2, BundleParts DEF Editor!RulesIn, Editor!Baseline
    <3>2. draft.templates[t].rules # <<>>
      BY <1>1, <3>1
    <3>3. \A i \in DOMAIN draft.templates : i < t => draft.templates[i].name # draft.templates[t].name
      BY <2>2, <3>2 DEF Editor!SecondIsEmpty
    <3>. HIDE DEF t
    <3>4. Editor!rules_named(draft, draft.templates[t].name) = draft.templates[t].rules
      BY <2>2, <3>3, FirstIsFound
    <3>5. NamesOf(draft, host) = draft.assignments[host] /\ draft.assignments[host] \in Seq(Names)
      BY BundleParts DEF NamesOf, Editor!Assigned
    <3>6. PICK n \in 1 .. Len(NamesOf(draft, host)) :
             draft.templates[t].name = NamesOf(draft, host)[n]
      BY <2>2, <3>5 DEF Editor!ToSet
    <3>7. IdsOf(Editor!rules_named(draft, NamesOf(draft, host)[n]))
             \subseteq IdsOf(Editor!rules_for(draft, host))
      BY RulesFor
    <3>. QED  BY <1>2, <3>1, <3>4, <3>6, <3>7
  <2>. QED  BY <1>0, <2>1, <2>2
<1>. HIDE DEF t
<1>4. LET checked == Editor!rules_for(draft, host)
      IN  Cardinality({k \in DOMAIN checked : checked[k] = Editor!RulesIn(draft, t)[p[2]]}) = 1
  BY <1>1, <1>3, CheckedOnce DEF t
<1>. QED  BY <1>1, <1>4, SameCount DEF t, Once

-----------------------------------------------------------------------------
(* A set of numbers has a least one. *)
LEMMA LeastExists ==
    ASSUME NEW S \in SUBSET Nat, S # {}
    PROVE  \E m \in S : \A n \in S : m <= n
<1>1. PICK m \in S : \A n \in S : ~(<<n, m>> \in OpToRel(<, Nat))
  BY WFMin, NatLessThanWellFounded
<1>2. ASSUME NEW n \in S, n < m PROVE FALSE
  <2>1. <<n, m>> \in OpToRel(<, Nat)
    BY <1>2 DEF OpToRel
  <2>. QED  BY <1>1, <2>1
<1>. QED  BY <1>2

(* A number is free: fewer ids are taken than there are numbers to choose from. *)
LEMMA FreeExists ==
    ASSUME NEW taken, IsFiniteSet(taken), NEW about
    PROVE  \E k \in 1 .. Cardinality(taken) + 1 : <<about, k>> \notin taken
<1>. DEFINE N == Cardinality(taken)
            U == 1 .. N + 1
            f == [k \in U |-> <<about, k>>]
<1>1. N \in Nat
  BY FS_CardinalityType
<1>2. IsFiniteSet(U) /\ Cardinality(U) = N + 1
  <2>1. Cardinality(1 .. N + 1) = IF 1 <= N + 1 THEN (N + 1) - 1 + 1 ELSE 0
    BY <1>1, FS_Interval
  <2>2. IsFiniteSet(1 .. N + 1)
    BY <1>1, FS_Interval
  <2>. QED  BY <1>1, <2>1, <2>2
<1>. SUFFICES ASSUME \A k \in U : <<about, k>> \in taken PROVE FALSE
  OBVIOUS
<1>3. f \in [U -> taken] /\ \A x, y \in U : f[x] = f[y] => x = y
  OBVIOUS
<1>4. Cardinality(taken) < Cardinality(U)
  BY <1>1, <1>2
<1>. HIDE DEF N, U, f
<1>. QED  BY <1>2, <1>3, <1>4, FS_PigeonHole

(* unique_id(): an id that is not taken. *)
LEMMA IdIsFree ==
    ASSUME NEW taken, IsFiniteSet(taken), NEW rule
    PROVE  \E k \in Nat \ {0} : /\ Editor!unique_id(taken, rule) = <<rule.target, k>>
                                /\ <<rule.target, k>> \notin taken
<1>. DEFINE free == {k \in 1 .. Cardinality(taken) + 1 : <<rule.target, k>> \notin taken}
            least == CHOOSE k \in free : \A other \in free : k <= other
<1>1. free # {}
  BY FreeExists
<1>2. Cardinality(taken) \in Nat
  BY FS_CardinalityType
<1>3. free \in SUBSET Nat
  BY <1>2
<1>4. least \in free
  <2>. HIDE DEF free
  <2>1. \E m \in free : \A other \in free : m <= other
    BY <1>1, <1>3, LeastExists
  <2>. QED  BY <2>1
<1>5. Editor!unique_id(taken, rule) = <<rule.target, least>>
  BY SameCount, Zenon DEF Editor!unique_id
<1>. HIDE DEF least
<1>. QED  BY <1>2, <1>4, <1>5

(* No generated id is the one of a rule without. *)
LEMMA MarkIsNoId == \A k \in Nat \ {0} : \A about : <<about, k>> # Editor!NoId
<1>1. Editor!NoId[2] = 0
  BY DEF Editor!NoId
<1>. QED  BY <1>1

(* The ids seen so far, and the rules repaired. *)
Account == {acc \in [seen : SUBSET Editor!Ids, rules : Seq(Editor!Rule)] : IsFiniteSet(acc.seen)}

(* A rule is given an id that was not seen, and it is seen from then on. *)
GivenId(new, acc, rule) ==
    \E id \in Editor!Ids :
        /\ id \notin acc.seen /\ id # Editor!NoId
        /\ new.seen = acc.seen \cup {id}
        /\ new.rules = Append(acc.rules, [rule EXCEPT !.id = id])

(* repair_rule() *)
LEMMA RuleRepaired ==
    ASSUME NEW acc \in Account, NEW rule \in Editor!Rule
    PROVE  /\ Editor!repair_rule(acc, rule) \in Account
           /\ GivenId(Editor!repair_rule(acc, rule), acc, rule)
<1>. DEFINE free == Editor!unique_id(acc.seen, rule)
            keeps == rule.id # Editor!NoId /\ rule.id \notin acc.seen
            id == IF keeps THEN rule.id ELSE free
            new == Editor!repair_rule(acc, rule)
<1>1. free \in Editor!Ids /\ free \notin acc.seen /\ free # Editor!NoId
  <2>1. IsFiniteSet(acc.seen)
    BY DEF Account
  <2>2. PICK k \in Nat \ {0} : free = <<rule.target, k>> /\ <<rule.target, k>> \notin acc.seen
    BY <2>1, IdIsFree
  <2>3. rule.target \in RuleTargets
    BY DEF Editor!Rule
  <2>4. <<rule.target, k>> \in Editor!Ids
    BY <2>3 DEF Editor!Ids
  <2>. QED  BY <2>2, <2>4, MarkIsNoId
<1>2. rule.id \in Editor!Ids
  BY DEF Editor!Rule
<1>. HIDE DEF free
<1>3. id \in Editor!Ids /\ id \notin acc.seen /\ id # Editor!NoId
  BY <1>1, <1>2
<1>4. new = [seen |-> acc.seen \cup {id}, rules |-> Append(acc.rules, [rule EXCEPT !.id = id])]
  BY DEF Editor!repair_rule, free
<1>. HIDE DEF id, new
<1>5. new.seen = acc.seen \cup {id} /\ new.rules = Append(acc.rules, [rule EXCEPT !.id = id])
  BY <1>4
<1>6. [rule EXCEPT !.id = id] \in Editor!Rule
  BY <1>3 DEF Editor!Rule
<1>7. new \in Account
  <2>1. IsFiniteSet(acc.seen \cup {id})
    BY FS_AddElement DEF Account
  <2>2. acc.seen \in SUBSET Editor!Ids /\ acc.rules \in Seq(Editor!Rule)
    BY DEF Account
  <2>3. Append(acc.rules, [rule EXCEPT !.id = id]) \in Seq(Editor!Rule)
    BY <1>6, <2>2
  <2>4. acc.seen \cup {id} \in SUBSET Editor!Ids
    BY <1>3, <2>2
  <2>. QED  BY <1>4, <2>1, <2>3, <2>4 DEF Account
<1>8. GivenId(new, acc, rule)
  BY <1>3, <1>5 DEF GivenId
<1>. QED  BY <1>7, <1>8 DEF new

(* repair() *)
LEMMA RepairWalks ==
    ASSUME NEW seen \in SUBSET Editor!Ids, IsFiniteSet(seen), NEW list \in Seq(Editor!Rule)
    PROVE  \E f :
              /\ f[0] = [seen |-> seen, rules |-> <<>>]
              /\ Editor!repair(seen, list) = f[Len(list)]
              /\ \A n \in 0 .. Len(list) : f[n] \in Account
              /\ \A n \in 1 .. Len(list) : f[n] = Editor!repair_rule(f[n - 1], list[n])
<1>. DEFINE N == Len(list)
            first == [seen |-> seen, rules |-> <<>>]
            next(acc, n) == Editor!repair_rule(acc, list[n])
            G == [x \in Account \X (1 .. N) |-> next(x[1], x[2])]
            Walk(f) == f = [n \in 0 .. N |-> IF n = 0 THEN first ELSE next(f[n - 1], n)]
<1>1. N \in Nat /\ first \in Account
  BY DEF Account
<1>2. G \in [Account \X (1 .. N) -> Account]
  <2>1. ASSUME NEW acc \in Account, NEW n \in 1 .. N PROVE next(acc, n) \in Account
    <3>1. list[n] \in Editor!Rule
      OBVIOUS
    <3>. QED  BY <3>1, RuleRepaired
  <2>. HIDE DEF N, next
  <2>. QED  BY <2>1
<1>3. PICK f \in [0 .. N -> Account] : Walked(f, first, N, G)
  <2>. HIDE DEF G, N, first
  <2>. QED  BY <1>1, <1>2, WalkExists
<1>4. \A n \in 1 .. N : f[n] = next(f[n - 1], n)
  <2>. HIDE DEF next, N
  <2>. TAKE n \in 1 .. N
  <2>1. f[n - 1] \in Account
    BY <1>1
  <2>. QED  BY <1>3, <2>1 DEF Walked
<1>5. Walk(f)
  <2>1. \A n \in 0 .. N : f[n] = IF n = 0 THEN first ELSE next(f[n - 1], n)
    BY <1>3, <1>4 DEF Walked
  <2>. HIDE DEF N, first, next
  <2>. QED  BY <2>1
<1>6. PICK g : Walk(g) /\ Editor!repair(seen, list) = g[N]
  <2>. DEFINE h == CHOOSE u : Walk(u)
  <2>1. Walk(h)
    BY <1>5
  <2>2. Editor!repair(seen, list) = h[N]
    BY DEF Editor!repair
  <2>. QED  BY <2>1, <2>2
<1>7. g[0] = first /\ \A n \in 1 .. N : g[n] = next(g[n - 1], n)
  <2>. HIDE DEF N, first, next
  <2>. QED  BY <1>1, <1>6
<1>8. \A n \in 0 .. N : g[n] \in Account
  <2>. DEFINE T == {n \in 0 .. N : g[n] \in Account}
  <2>. HIDE DEF first, next
  <2>1. 0 \in T
    BY <1>1, <1>7
  <2>2. ASSUME NEW n \in 1 .. N, n - 1 \in T PROVE n \in T
    <3>1. g[n - 1] \in Account /\ list[n] \in Editor!Rule
      BY <2>2
    <3>2. next(g[n - 1], n) \in Account
      BY <3>1, RuleRepaired DEF next
    <3>. QED  BY <1>7, <3>2
  <2>. HIDE DEF T, N
  <2>3. \A n \in 0 .. N : n \in T
    BY <1>1, <2>1, <2>2, WalkInduction
  <2>. QED  BY <2>3 DEF T
<1>. QED  BY <1>6, <1>7, <1>8

(* A list of rules after its repair: the same places, ids of their own     *)
(* that were not seen before, and all of them seen now.                    *)
Repaired(new, seen, list) ==
    /\ new \in Account
    /\ Len(new.rules) = Len(list)
    /\ OwnIds(new.rules, Editor!Rule)
    /\ Editor!NoId \notin IdsOf(new.rules)
    /\ IdsOf(new.rules) \cap seen = {}
    /\ new.seen = seen \cup IdsOf(new.rules)

LEMMA ListRepaired ==
    ASSUME NEW seen \in SUBSET Editor!Ids, IsFiniteSet(seen), NEW list \in Seq(Editor!Rule)
    PROVE  Repaired(Editor!repair(seen, list), seen, list)
<1>. DEFINE N == Len(list)
<1>1. PICK f : /\ f[0] = [seen |-> seen, rules |-> <<>>]
               /\ Editor!repair(seen, list) = f[N]
               /\ \A n \in 0 .. N : f[n] \in Account
               /\ \A n \in 1 .. N : f[n] = Editor!repair_rule(f[n - 1], list[n])
  BY RepairWalks
<1>. DEFINE T == {n \in 0 .. N :
                    /\ Len(f[n].rules) = n
                    /\ OwnIds(f[n].rules, Editor!Rule)
                    /\ Editor!NoId \notin IdsOf(f[n].rules)
                    /\ IdsOf(f[n].rules) \cap seen = {}
                    /\ f[n].seen = seen \cup IdsOf(f[n].rules)}
<1>2. N \in Nat
  OBVIOUS
<1>3. 0 \in T
  <2>1. f[0].rules = <<>> /\ f[0].seen = seen
    BY <1>1
  <2>2. Len(<<>>) = 0 /\ OwnIds(<<>>, Editor!Rule) /\ IdsOf(<<>>) = {}
    BY DEF OwnIds, IdsOf
  <2>. QED  BY <1>2, <2>1, <2>2
<1>4. ASSUME NEW n \in 1 .. N, n - 1 \in T PROVE n \in T
  <2>. DEFINE acc == f[n - 1]
              new == f[n]
              old == acc.rules
  <2>1. n - 1 \in 0 .. N /\ n \in 0 .. N /\ list[n] \in Editor!Rule
    BY <1>2
  <2>2. acc \in Account /\ new = Editor!repair_rule(acc, list[n])
    BY <1>1, <2>1
  <2>3. GivenId(new, acc, list[n])
    BY <2>1, <2>2, RuleRepaired
  <2>4. PICK id \in Editor!Ids : /\ id \notin acc.seen /\ id # Editor!NoId
                                 /\ new.seen = acc.seen \cup {id}
                                 /\ new.rules = Append(old, [list[n] EXCEPT !.id = id])
    BY <2>3 DEF GivenId
  <2>5. /\ Len(old) = n - 1 /\ OwnIds(old, Editor!Rule) /\ Editor!NoId \notin IdsOf(old)
        /\ IdsOf(old) \cap seen = {} /\ acc.seen = seen \cup IdsOf(old)
    BY <1>4
  <2>6. [list[n] EXCEPT !.id = id] \in Editor!Rule /\ [list[n] EXCEPT !.id = id].id = id
    BY <2>1 DEF Editor!Rule
  <2>. DEFINE rule == [list[n] EXCEPT !.id = id]
  <2>. HIDE DEF acc, new, rule
  <2>7. /\ new.rules \in Seq(Editor!Rule) /\ DOMAIN new.rules = DOMAIN old \cup {n}
        /\ new.rules[n] = rule /\ n \notin DOMAIN old /\ Len(new.rules) = n
        /\ \A i \in DOMAIN old : new.rules[i] = old[i]
    <3>1. old \in Seq(Editor!Rule) /\ (n - 1) + 1 = n
      BY <1>2, <2>5 DEF OwnIds
    <3>2. new.rules = Append(old, rule) /\ rule \in Editor!Rule
      BY <2>4, <2>6 DEF rule
    <3>. HIDE DEF old
    <3>. QED  BY <2>5, <3>1, <3>2, Pushed
  <2>. HIDE DEF old
  <2>8. IdsOf(new.rules) = IdsOf(old) \cup {id}
    <3>1. rule.id = id
      BY <2>6 DEF rule
    <3>2. \A i \in DOMAIN old : new.rules[i].id = old[i].id
      BY <2>7
    <3>3. new.rules[n].id = id
      BY <2>7, <3>1
    <3>. QED  BY <2>7, <3>2, <3>3 DEF IdsOf
  <2>9. id \notin IdsOf(old)
    BY <2>4, <2>5
  <2>10. OwnIds(new.rules, Editor!Rule)
    <3>1. \A i \in DOMAIN old : new.rules[i].id # id
      BY <2>7, <2>9 DEF IdsOf
    <3>2. rule.id = id
      BY <2>6 DEF rule
    <3>. QED  BY <2>5, <2>7, <3>1, <3>2 DEF OwnIds
  <2>11. Editor!NoId \notin IdsOf(new.rules)
    BY <2>4, <2>5, <2>8
  <2>12. IdsOf(new.rules) \cap seen = {}
    BY <2>4, <2>5, <2>8
  <2>13. new.seen = seen \cup IdsOf(new.rules)
    BY <2>4, <2>5, <2>8
  <2>. QED  BY <2>1, <2>7, <2>10, <2>11, <2>12, <2>13 DEF new
<1>5. N \in T
  <2>. HIDE DEF T, N
  <2>1. \A n \in 0 .. N : n \in T
    BY <1>2, <1>3, <1>4, WalkInduction
  <2>. QED  BY <1>2, <2>1
<1>6. f[N] \in Account
  BY <1>1, <1>2
<1>. QED  BY <1>1, <1>5, <1>6 DEF Repaired

(* Lists of rules with ids of their own, apart from those of the others.   *)
LEMMA ApartIsOneEach ==
    ASSUME NEW b,
           \A t \in Places(b) : /\ OwnIds(Editor!RulesIn(b, t), Editor!Rule)
                                /\ Editor!NoId \notin IdsOf(Editor!RulesIn(b, t)),
           \A t, u \in Places(b) :
              t # u => IdsOf(Editor!RulesIn(b, t)) \cap IdsOf(Editor!RulesIn(b, u)) = {}
    PROVE  OneEach(b)
<1>1. ASSUME NEW t \in Places(b), NEW u \in Places(b),
             NEW i \in DOMAIN Editor!RulesIn(b, t), NEW j \in DOMAIN Editor!RulesIn(b, u)
      PROVE  /\ Editor!RulesIn(b, t)[i].id # Editor!NoId
             /\ Editor!RulesIn(b, t)[i].id = Editor!RulesIn(b, u)[j].id => t = u /\ i = j
  <2>1. /\ Editor!RulesIn(b, t)[i].id \in IdsOf(Editor!RulesIn(b, t))
        /\ Editor!RulesIn(b, u)[j].id \in IdsOf(Editor!RulesIn(b, u))
    BY DEF IdsOf
  <2>2. CASE t = u
    BY <2>1, <2>2 DEF OwnIds
  <2>3. CASE t # u
    BY <2>1, <2>3
  <2>. QED  BY <2>2, <2>3
<1>. QED  BY <1>1 DEF OneEach

(* The ids seen so far, and the templates repaired. *)
TemplateAccount ==
    {acc \in [seen : SUBSET Editor!Ids, templates : Seq(Editor!Template)] : IsFiniteSet(acc.seen)}

(* A template after its repair: the name it had, and its rules repaired. *)
RepairedAs(new, acc, template) ==
    /\ new.name = template.name
    /\ new.rules = Editor!repair(acc.seen, template.rules).rules

(* repair_template() *)
LEMMA TemplateRepaired ==
    ASSUME NEW acc \in TemplateAccount, NEW template \in Editor!Template
    PROVE  LET new == Editor!repair_template(acc, template)
               next == Editor!repair(acc.seen, template.rules)
           IN  /\ new \in TemplateAccount
               /\ new.seen = next.seen
               /\ Repaired(next, acc.seen, template.rules)
               /\ new.templates = Append(acc.templates, [template EXCEPT !.rules = next.rules])
               /\ [template EXCEPT !.rules = next.rules] \in Editor!Template
               /\ RepairedAs([template EXCEPT !.rules = next.rules], acc, template)
<1>. DEFINE next == Editor!repair(acc.seen, template.rules)
            repaired == [template EXCEPT !.rules = next.rules]
            new == Editor!repair_template(acc, template)
<1>1. /\ acc.seen \in SUBSET Editor!Ids /\ IsFiniteSet(acc.seen)
      /\ acc.templates \in Seq(Editor!Template)
  BY DEF TemplateAccount
<1>2. template.rules \in Seq(Editor!Rule)
  BY DEF Editor!Template
<1>3. Repaired(next, acc.seen, template.rules)
  BY <1>1, <1>2, ListRepaired
<1>4. new = [seen |-> next.seen, templates |-> Append(acc.templates, repaired)]
  BY DEF Editor!repair_template
<1>. HIDE DEF next
<1>5. next.rules \in Seq(Editor!Rule) /\ next.seen \in SUBSET Editor!Ids /\ IsFiniteSet(next.seen)
  BY <1>3 DEF Repaired, Account
<1>6. repaired \in Editor!Template /\ repaired.name = template.name /\ repaired.rules = next.rules
  BY <1>5 DEF Editor!Template
<1>. HIDE DEF repaired, new
<1>7. Append(acc.templates, repaired) \in Seq(Editor!Template)
  BY <1>1, <1>6
<1>8. new.seen = next.seen /\ new.templates = Append(acc.templates, repaired)
  BY <1>4
<1>9. new \in TemplateAccount
  BY <1>4, <1>5, <1>7 DEF TemplateAccount
<1>10. RepairedAs(repaired, acc, template)
  BY <1>6 DEF RepairedAs, next
<1>. QED  BY <1>3, <1>6, <1>8, <1>9, <1>10 DEF next, repaired, new

(* deduplicate_rule_ids() *)
LEMMA DeduplicateWalks ==
    ASSUME NEW b, Editor!IsBundle(b)
    PROVE  LET first == Editor!repair({}, b.baseline)
               N == Len(b.templates)
               done == Editor!deduplicate_rule_ids(b)
           IN  \E f :
                 /\ f[0] = [seen |-> first.seen, templates |-> <<>>]
                 /\ done = [b EXCEPT !.baseline = first.rules, !.templates = f[N].templates]
                 /\ \A n \in 0 .. N : f[n] \in TemplateAccount
                 /\ \A n \in 1 .. N : f[n] = Editor!repair_template(f[n - 1], b.templates[n])
<1>. DEFINE base == Editor!repair({}, b.baseline)
            list == b.templates
            N == Len(list)
            first == [seen |-> base.seen, templates |-> <<>>]
            next(acc, n) == Editor!repair_template(acc, list[n])
            A == TemplateAccount
            G == [x \in A \X (1 .. N) |-> next(x[1], x[2])]
            Walk(f) == f = [n \in 0 .. N |-> IF n = 0 THEN first ELSE next(f[n - 1], n)]
<1>1. N \in Nat /\ first \in A
  <2>1. Repaired(base, {}, b.baseline)
    BY ListRepaired, BundleParts, FS_EmptySet
  <2>2. base.seen \in SUBSET Editor!Ids /\ IsFiniteSet(base.seen)
    BY <2>1 DEF Repaired, Account
  <2>. QED  BY <2>2, BundleParts DEF TemplateAccount
<1>2. \A n \in 1 .. N : list[n] \in Editor!Template
  BY BundleParts
<1>3. G \in [A \X (1 .. N) -> A]
  <2>1. ASSUME NEW acc \in A, NEW n \in 1 .. N PROVE next(acc, n) \in A
    BY <1>2, TemplateRepaired
  <2>. HIDE DEF N, next, A
  <2>. QED  BY <2>1
<1>4. PICK f \in [0 .. N -> A] : Walked(f, first, N, G)
  <2>. HIDE DEF G, N, first, A
  <2>. QED  BY <1>1, <1>3, WalkExists
<1>5. \A n \in 1 .. N : f[n] = next(f[n - 1], n)
  <2>. HIDE DEF next, N, A
  <2>. TAKE n \in 1 .. N
  <2>1. f[n - 1] \in A
    BY <1>1
  <2>. QED  BY <1>4, <2>1 DEF Walked
<1>6. Walk(f)
  <2>1. \A n \in 0 .. N : f[n] = IF n = 0 THEN first ELSE next(f[n - 1], n)
    BY <1>4, <1>5 DEF Walked
  <2>. HIDE DEF N, first, next, A
  <2>. QED  BY <2>1
<1>7. PICK g : /\ Walk(g)
               /\ Editor!deduplicate_rule_ids(b)
                     = [b EXCEPT !.baseline = base.rules, !.templates = g[N].templates]
  <2>. DEFINE h == CHOOSE u : Walk(u)
  <2>1. Walk(h)
    BY <1>6
  <2>2. Editor!deduplicate_rule_ids(b)
           = [b EXCEPT !.baseline = base.rules, !.templates = h[N].templates]
    BY DEF Editor!deduplicate_rule_ids
  <2>. QED  BY <2>1, <2>2
<1>8. g[0] = first /\ \A n \in 1 .. N : g[n] = next(g[n - 1], n)
  <2>. HIDE DEF N, first, next
  <2>. QED  BY <1>1, <1>7
<1>9. \A n \in 0 .. N : g[n] \in A
  <2>. DEFINE T == {n \in 0 .. N : g[n] \in A}
  <2>. HIDE DEF first, next
  <2>1. 0 \in T
    BY <1>1, <1>8
  <2>2. ASSUME NEW n \in 1 .. N, n - 1 \in T PROVE n \in T
    <3>1. g[n - 1] \in A /\ list[n] \in Editor!Template
      BY <1>2, <2>2
    <3>2. next(g[n - 1], n) \in A
      BY <3>1, TemplateRepaired DEF next
    <3>. QED  BY <1>8, <3>2
  <2>. HIDE DEF T, N, A
  <2>3. \A n \in 0 .. N : n \in T
    BY <1>1, <2>1, <2>2, WalkInduction
  <2>. QED  BY <2>3 DEF T
<1>. QED  BY <1>7, <1>8, <1>9

(* A template after its repair: ids of its own that are seen, and none of  *)
(* those that were seen before.                                            *)
IsRepaired(new, template, before, seen) ==
    /\ new.name = template.name
    /\ Len(new.rules) = Len(template.rules)
    /\ OwnIds(new.rules, Editor!Rule)
    /\ Editor!NoId \notin IdsOf(new.rules)
    /\ IdsOf(new.rules) \cap before = {}
    /\ IdsOf(new.rules) \subseteq seen

(* The templates repaired so far. *)
RepairedUpTo(n, acc, list, base) ==
    /\ acc \in TemplateAccount
    /\ Len(acc.templates) = n
    /\ base \subseteq acc.seen
    /\ \A i \in 1 .. n : IsRepaired(acc.templates[i], list[i], base, acc.seen)
    /\ \A i, j \in 1 .. n :
          i # j => IdsOf(acc.templates[i].rules) \cap IdsOf(acc.templates[j].rules) = {}

LEMMA NextRepaired ==
    ASSUME NEW list \in Seq(Editor!Template), NEW n \in 1 .. Len(list), NEW acc, NEW base,
           RepairedUpTo(n - 1, acc, list, base)
    PROVE  RepairedUpTo(n, Editor!repair_template(acc, list[n]), list, base)
<1>. DEFINE new == Editor!repair_template(acc, list[n])
            next == Editor!repair(acc.seen, list[n].rules)
            last == [list[n] EXCEPT !.rules = next.rules]
            old == acc.templates
<1>1. list[n] \in Editor!Template /\ acc \in TemplateAccount /\ n \in Nat
  BY DEF RepairedUpTo
<1>2. /\ new \in TemplateAccount
      /\ new.seen = next.seen
      /\ Repaired(next, acc.seen, list[n].rules)
      /\ new.templates = Append(old, last)
      /\ last \in Editor!Template
      /\ RepairedAs(last, acc, list[n])
  BY <1>1, TemplateRepaired
<1>3. /\ Len(old) = n - 1 /\ base \subseteq acc.seen
      /\ \A i \in 1 .. n - 1 : IsRepaired(old[i], list[i], base, acc.seen)
      /\ \A i, j \in 1 .. n - 1 :
            i # j => IdsOf(old[i].rules) \cap IdsOf(old[j].rules) = {}
  BY DEF RepairedUpTo
<1>4. old \in Seq(Editor!Template)
  BY <1>1 DEF TemplateAccount
<1>5. last.name = list[n].name /\ last.rules = next.rules
  BY <1>2 DEF RepairedAs
<1>. HIDE DEF new, next, last, old
<1>6. /\ Len(new.templates) = n /\ new.templates[n] = last
      /\ \A i \in 1 .. n - 1 : new.templates[i] = old[i]
  <2>1. (n - 1) + 1 = n
    BY <1>1
  <2>. QED  BY <1>2, <1>3, <1>4, <2>1, Pushed
<1>7. /\ Len(next.rules) = Len(list[n].rules) /\ OwnIds(next.rules, Editor!Rule)
      /\ Editor!NoId \notin IdsOf(next.rules) /\ IdsOf(next.rules) \cap acc.seen = {}
      /\ new.seen = acc.seen \cup IdsOf(next.rules)
  BY <1>2 DEF Repaired
<1>8. base \subseteq new.seen
  BY <1>3, <1>7
<1>9. \A i \in 1 .. n : IsRepaired(new.templates[i], list[i], base, new.seen)
  <2>. TAKE i \in 1 .. n
  <2>1. CASE i = n
    <3>1. IdsOf(last.rules) \cap base = {} /\ IdsOf(last.rules) \subseteq new.seen
      BY <1>3, <1>5, <1>7
    <3>. QED  BY <2>1, <1>5, <1>6, <1>7, <3>1 DEF IsRepaired
  <2>2. CASE i \in 1 .. n - 1
    <3>1. IsRepaired(old[i], list[i], base, acc.seen) /\ new.templates[i] = old[i]
      BY <2>2, <1>3, <1>6
    <3>2. IdsOf(old[i].rules) \subseteq new.seen
      BY <3>1, <1>7 DEF IsRepaired
    <3>. QED  BY <3>1, <3>2 DEF IsRepaired
  <2>. QED  BY <1>1, <2>1, <2>2
<1>10. \A i \in 1 .. n - 1 : IdsOf(new.templates[i].rules) \cap IdsOf(last.rules) = {}
  <2>. TAKE i \in 1 .. n - 1
  <2>1. IsRepaired(old[i], list[i], base, acc.seen) /\ new.templates[i] = old[i]
    BY <1>3, <1>6
  <2>2. IdsOf(old[i].rules) \subseteq acc.seen
    BY <2>1 DEF IsRepaired
  <2>. QED  BY <2>1, <2>2, <1>5, <1>7
<1>11. \A i, j \in 1 .. n :
          i # j => IdsOf(new.templates[i].rules) \cap IdsOf(new.templates[j].rules) = {}
  <2>. SUFFICES ASSUME NEW i \in 1 .. n, NEW j \in 1 .. n, i # j
                PROVE  IdsOf(new.templates[i].rules) \cap IdsOf(new.templates[j].rules) = {}
    OBVIOUS
  <2>1. (i = n \/ i \in 1 .. n - 1) /\ (j = n \/ j \in 1 .. n - 1)
    BY <1>1
  <2>2. CASE i = n
    BY <2>1, <2>2, <1>6, <1>10
  <2>3. CASE j = n
    BY <2>1, <2>3, <1>6, <1>10
  <2>4. CASE i \in 1 .. n - 1 /\ j \in 1 .. n - 1
    BY <2>4, <1>3, <1>6
  <2>. QED  BY <2>1, <2>2, <2>3, <2>4
<1>12. RepairedUpTo(n, new, list, base)
  BY <1>2, <1>6, <1>8, <1>9, <1>11 DEF RepairedUpTo
<1>. QED  BY <1>12 DEF new

(* deduplicate_rule_ids(): each rule has an id of its own afterwards, and  *)
(* nothing else has changed.                                               *)
LEMMA Deduplicated ==
    ASSUME NEW b, Editor!IsBundle(b)
    PROVE  /\ Editor!IsBundle(Editor!deduplicate_rule_ids(b))
           /\ OneEach(Editor!deduplicate_rule_ids(b))
           /\ Len(Editor!deduplicate_rule_ids(b).templates) = Len(b.templates)
           /\ Editor!SecondIsEmpty(b) => Editor!SecondIsEmpty(Editor!deduplicate_rule_ids(b))
<1>. DEFINE first == Editor!repair({}, b.baseline)
            list == b.templates
            N == Len(list)
            done == Editor!deduplicate_rule_ids(b)
            base == first.seen
<1>1. PICK f : /\ f[0] = [seen |-> base, templates |-> <<>>]
               /\ done = [b EXCEPT !.baseline = first.rules, !.templates = f[N].templates]
               /\ \A n \in 0 .. N : f[n] \in TemplateAccount
               /\ \A n \in 1 .. N : f[n] = Editor!repair_template(f[n - 1], list[n])
  BY DeduplicateWalks
<1>2. list \in Seq(Editor!Template) /\ N \in Nat /\ DOMAIN list = 1 .. N
  BY BundleParts
<1>3. Repaired(first, {}, b.baseline)
  BY ListRepaired, BundleParts, FS_EmptySet
<1>4. /\ first.rules \in Seq(Editor!Rule) /\ OwnIds(first.rules, Editor!Rule)
      /\ Editor!NoId \notin IdsOf(first.rules) /\ base = IdsOf(first.rules)
  BY <1>3 DEF Repaired, OwnIds
<1>. HIDE DEF first, done
<1>5. RepairedUpTo(N, f[N], list, base)
  <2>. DEFINE T == {n \in 0 .. N : RepairedUpTo(n, f[n], list, base)}
  <2>1. 0 \in T
    <3>1. f[0] \in TemplateAccount
      BY <1>1, <1>2
    <3>. HIDE DEF base
    <3>2. f[0].seen = base /\ f[0].templates = <<>>
      BY <1>1
    <3>. QED  BY <1>2, <3>1, <3>2 DEF RepairedUpTo
  <2>2. ASSUME NEW n \in 1 .. N, n - 1 \in T PROVE n \in T
    <3>1. RepairedUpTo(n, Editor!repair_template(f[n - 1], list[n]), list, base)
      BY <1>2, <2>2, NextRepaired
    <3>. QED  BY <1>1, <3>1
  <2>. HIDE DEF T, N
  <2>3. \A n \in 0 .. N : n \in T
    BY <1>2, <2>1, <2>2, WalkInduction
  <2>. QED  BY <1>2, <2>3 DEF T
<1>. DEFINE templates == f[N].templates
<1>6. /\ templates \in Seq(Editor!Template) /\ Len(templates) = N
      /\ \A i \in 1 .. N : IsRepaired(templates[i], list[i], base, f[N].seen)
      /\ \A i, j \in 1 .. N :
            i # j => IdsOf(templates[i].rules) \cap IdsOf(templates[j].rules) = {}
  BY <1>5 DEF RepairedUpTo, TemplateAccount
<1>. HIDE DEF templates, N
<1>7. /\ done = [baseline |-> first.rules, templates |-> templates, assignments |-> b.assignments]
      /\ done.baseline = first.rules /\ done.templates = templates
      /\ done.assignments = b.assignments
  <2>1. b = [baseline |-> b.baseline, templates |-> b.templates, assignments |-> b.assignments]
    BY DEF Editor!IsBundle
  <2>2. done = [b EXCEPT !.baseline = first.rules, !.templates = templates]
    BY <1>1 DEF templates
  <2>. QED  BY <2>1, <2>2
<1>8. Editor!IsBundle(done)
  <2>1. /\ DOMAIN b.assignments \subseteq NamedHosts
        /\ b.assignments \in [DOMAIN b.assignments -> Seq(Names)]
    BY DEF Editor!IsBundle
  <2>2. DOMAIN done.assignments \subseteq NamedHosts
    BY <1>7, <2>1
  <2>3. done.assignments \in [DOMAIN done.assignments -> Seq(Names)]
    BY <1>7, <2>1
  <2>4. done = [baseline |-> done.baseline, templates |-> done.templates,
                assignments |-> done.assignments]
    BY <1>7
  <2>5. done.baseline \in Seq(Editor!Rule) /\ done.templates \in Seq(Editor!Template)
    BY <1>4, <1>6, <1>7
  <2>. QED  BY <2>2, <2>3, <2>4, <2>5 DEF Editor!IsBundle
<1>9. DOMAIN templates = 1 .. N
  BY <1>6
<1>10. /\ Places(done) = {0} \cup 1 .. N
       /\ Editor!RulesIn(done, 0) = first.rules
       /\ \A t \in 1 .. N : Editor!RulesIn(done, t) = templates[t].rules
  <2>1. \A t \in 1 .. N : t # 0
    BY <1>2
  <2>. QED  BY <1>7, <1>9, <2>1 DEF Places, Editor!RulesIn, Editor!Baseline
<1>11. OneEach(done)
  <2>1. \A t \in 1 .. N : /\ OwnIds(templates[t].rules, Editor!Rule)
                          /\ Editor!NoId \notin IdsOf(templates[t].rules)
                          /\ IdsOf(templates[t].rules) \cap IdsOf(first.rules) = {}
    BY <1>4, <1>6 DEF IsRepaired
  <2>2. \A t \in Places(done) : /\ OwnIds(Editor!RulesIn(done, t), Editor!Rule)
                                /\ Editor!NoId \notin IdsOf(Editor!RulesIn(done, t))
    BY <1>4, <1>10, <2>1
  <2>3. \A t, u \in Places(done) :
           t # u => IdsOf(Editor!RulesIn(done, t)) \cap IdsOf(Editor!RulesIn(done, u)) = {}
    <3>. SUFFICES ASSUME NEW t \in Places(done), NEW u \in Places(done), t # u
                  PROVE  IdsOf(Editor!RulesIn(done, t)) \cap IdsOf(Editor!RulesIn(done, u)) = {}
      OBVIOUS
    <3>1. CASE t = 0
      <4>1. u \in 1 .. N
        BY <1>10, <3>1
      <4>. QED  BY <1>10, <2>1, <3>1, <4>1
    <3>2. CASE u = 0
      <4>1. t \in 1 .. N
        BY <1>10, <3>2
      <4>. QED  BY <1>10, <2>1, <3>2, <4>1
    <3>3. CASE t \in 1 .. N /\ u \in 1 .. N
      BY <1>6, <1>10, <3>3
    <3>. QED  BY <1>10, <3>1, <3>2, <3>3
  <2>. QED  BY <2>2, <2>3, ApartIsOneEach
<1>12. ASSUME Editor!SecondIsEmpty(b) PROVE Editor!SecondIsEmpty(done)
  <2>. SUFFICES ASSUME NEW i \in 1 .. N, NEW j \in 1 .. N, i < j,
                       templates[i].name = templates[j].name
                PROVE  templates[j].rules = <<>>
    BY <1>7, <1>9 DEF Editor!SecondIsEmpty
  <2>1. /\ templates[i].name = list[i].name /\ templates[j].name = list[j].name
        /\ Len(templates[j].rules) = Len(list[j].rules)
        /\ templates[j].rules \in Seq(Editor!Rule)
    BY <1>6 DEF IsRepaired, OwnIds
  <2>2. list[j].rules = <<>>
    BY <1>2, <1>12, <2>1 DEF Editor!SecondIsEmpty
  <2>3. Len(templates[j].rules) = 0
    BY <2>1, <2>2
  <2>. QED  BY <2>1, <2>3
<1>13. Len(done.templates) = N
  BY <1>6, <1>7
<1>. QED  BY <1>8, <1>11, <1>12, <1>13 DEF done, N

(* kept(): a step of it keeps an element or leaves it. *)
KeepOne(found, list, n, set) == IF list[n] \in set THEN Append(found, list[n]) ELSE found

LEMMA KeptWalks ==
    ASSUME NEW R, NEW list \in Seq(R), NEW set
    PROVE  \E f :
              /\ f[0] = <<>> /\ Editor!kept(list, set) = f[Len(list)]
              /\ \A n \in 1 .. Len(list) : f[n] = KeepOne(f[n - 1], list, n, set)
<1>. DEFINE N == Len(list)
            S == Seq(R)
            next(found, n) == IF list[n] \in set THEN Append(found, list[n]) ELSE found
            G == [x \in S \X (1 .. N) |-> next(x[1], x[2])]
            Walk(f) == f = [n \in 0 .. N |-> IF n = 0 THEN <<>> ELSE next(f[n - 1], n)]
<1>1. <<>> \in S /\ N \in Nat
  OBVIOUS
<1>2. G \in [S \X (1 .. N) -> S]
  <2>1. ASSUME NEW found \in S, NEW n \in 1 .. N PROVE next(found, n) \in S
    OBVIOUS
  <2>. HIDE DEF S, N, next
  <2>. QED  BY <2>1
<1>3. PICK f \in [0 .. N -> S] : Walked(f, <<>>, N, G)
  <2>. HIDE DEF G, N, S
  <2>. QED  BY <1>1, <1>2, WalkExists
<1>4. \A n \in 1 .. N : f[n] = next(f[n - 1], n)
  <2>. HIDE DEF S, next, N
  <2>. TAKE n \in 1 .. N
  <2>1. f[n - 1] \in S
    BY <1>1
  <2>. QED  BY <1>3, <2>1 DEF Walked
<1>5. Walk(f)
  <2>1. \A n \in 0 .. N : f[n] = IF n = 0 THEN <<>> ELSE next(f[n - 1], n)
    <3>. HIDE DEF next, N
    <3>. QED  BY <1>3, <1>4 DEF Walked
  <2>. HIDE DEF N, next
  <2>. QED  BY <2>1
<1>6. PICK g : Walk(g) /\ Editor!kept(list, set) = g[N]
  <2>. DEFINE h == CHOOSE u : Walk(u)
  <2>1. Walk(h)
    BY <1>5
  <2>2. Editor!kept(list, set) = h[N]
    BY DEF Editor!kept
  <2>. QED  BY <2>1, <2>2
<1>7. g[0] = <<>> /\ \A n \in 1 .. N : g[n] = next(g[n - 1], n)
  <2>. HIDE DEF N, next
  <2>. QED  BY <1>1, <1>6
<1>8. \A n \in 1 .. N : g[n] = KeepOne(g[n - 1], list, n, set)
  BY <1>7, Zenon DEF KeepOne
<1>. QED  BY <1>6, <1>7, <1>8, Zenon

(* A list some of whose elements were kept, in their order: m says where each was. *)
KeptFrom(new, list, set, m) ==
    /\ m \in [1 .. Len(new) -> 1 .. Len(list)]
    /\ \A i, j \in 1 .. Len(new) : i < j => m[i] < m[j]
    /\ \A i \in 1 .. Len(new) : new[i] = list[m[i]] /\ new[i] \in set

LEMMA Kept ==
    ASSUME NEW R, NEW list \in Seq(R), NEW set
    PROVE  /\ Editor!kept(list, set) \in Seq(R)
           /\ Len(Editor!kept(list, set)) <= Len(list)
           /\ \E m : KeptFrom(Editor!kept(list, set), list, set, m)
<1>. DEFINE N == Len(list)
            Some(new, n) == \E m : /\ KeptFrom(new, list, set, m)
                                   /\ \A i \in 1 .. Len(new) : m[i] <= n
<1>1. PICK f : /\ f[0] = <<>> /\ Editor!kept(list, set) = f[N]
               /\ \A n \in 1 .. N : f[n] = KeepOne(f[n - 1], list, n, set)
  BY KeptWalks
<1>. DEFINE T == {n \in 0 .. N : f[n] \in Seq(R) /\ Len(f[n]) <= n /\ Some(f[n], n)}
<1>2. N \in Nat
  OBVIOUS
<1>3. 0 \in T
  <2>1. KeptFrom(<<>>, list, set, <<>>)
    BY DEF KeptFrom
  <2>2. Some(<<>>, 0)
    BY <2>1
  <2>3. <<>> \in Seq(R) /\ Len(<<>>) <= 0
    OBVIOUS
  <2>. HIDE DEF Some
  <2>4. f[0] \in Seq(R) /\ Len(f[0]) <= 0 /\ Some(f[0], 0)
    <3>1. f[0] = <<>>
      BY <1>1
    <3>. QED  BY <2>2, <2>3, <3>1
  <2>. QED  BY <1>2, <2>4
<1>4. ASSUME NEW n \in 1 .. N, n - 1 \in T PROVE n \in T
  <2>. DEFINE old == f[n - 1]
              new == f[n]
  <2>1. old \in Seq(R) /\ Len(old) <= n - 1 /\ n \in Nat /\ Len(old) \in Nat
    BY <1>2, <1>4
  <2>2. PICK m : KeptFrom(old, list, set, m) /\ \A i \in 1 .. Len(old) : m[i] <= n - 1
    BY <1>4
  <2>3. new = KeepOne(old, list, n, set)
    BY <1>1
  <2>. HIDE DEF old, new
  <2>4. CASE list[n] \notin set
    <3>1. new = old
      BY <2>3, <2>4 DEF KeepOne
    <3>2. \A i \in 1 .. Len(old) : m[i] <= n
      BY <2>1, <2>2 DEF KeptFrom
    <3>3. Some(new, n)
      BY <2>2, <3>1, <3>2
    <3>. HIDE DEF Some
    <3>. QED  BY <2>1, <3>1, <3>3 DEF new
  <2>5. CASE list[n] \in set
    <3>. DEFINE e == list[n]
                L == Len(old)
                p == [i \in 1 .. L + 1 |-> IF i = L + 1 THEN n ELSE m[i]]
    <3>1. e \in R /\ new = Append(old, e)
      BY <2>3, <2>5 DEF KeepOne
    <3>. HIDE DEF e
    <3>2. /\ new \in Seq(R) /\ Len(new) = L + 1 /\ new[L + 1] = e
          /\ \A i \in 1 .. L : new[i] = old[i]
      BY <2>1, <3>1, Pushed
    <3>3. /\ m \in [1 .. L -> 1 .. N] /\ \A i, j \in 1 .. L : i < j => m[i] < m[j]
          /\ \A i \in 1 .. L : old[i] = list[m[i]] /\ old[i] \in set /\ m[i] <= n - 1
      BY <2>2 DEF KeptFrom
    <3>4. L \in Nat
      BY <2>1
    <3>. HIDE DEF N, L
    <3>5. p \in [1 .. L + 1 -> 1 .. N] /\ p[L + 1] = n /\ \A i \in 1 .. L : p[i] = m[i]
      BY <3>3, <3>4
    <3>. HIDE DEF p
    <3>6. \A i \in 1 .. L + 1 : i = L + 1 \/ i \in 1 .. L
      BY <3>4
    <3>7. \A i \in 1 .. L + 1 : new[i] = list[p[i]] /\ new[i] \in set
      BY <2>5, <3>2, <3>3, <3>5, <3>6 DEF e
    <3>8. \A i, j \in 1 .. L + 1 : i < j => p[i] < p[j]
      <4>. SUFFICES ASSUME NEW i \in 1 .. L + 1, NEW j \in 1 .. L + 1, i < j PROVE p[i] < p[j]
        OBVIOUS
      <4>1. i \in 1 .. L
        BY <3>4
      <4>2. p[i] = m[i] /\ m[i] \in 1 .. N /\ m[i] <= n - 1
        BY <3>3, <3>5, <4>1
      <4>3. CASE j = L + 1
        BY <1>2, <2>1, <3>5, <4>2, <4>3
      <4>4. CASE j \in 1 .. L
        BY <3>3, <3>5, <4>1, <4>4
      <4>. QED  BY <3>6, <4>3, <4>4
    <3>9. \A i \in 1 .. L + 1 : p[i] <= n
      <4>. TAKE i \in 1 .. L + 1
      <4>1. CASE i = L + 1
        BY <2>1, <3>5, <4>1
      <4>2. CASE i \in 1 .. L
        <5>1. p[i] = m[i] /\ m[i] \in 1 .. N /\ m[i] <= n - 1
          BY <3>3, <3>5, <4>2
        <5>. QED  BY <1>2, <2>1, <5>1
      <4>. QED  BY <3>6, <4>1, <4>2
    <3>10. KeptFrom(new, list, set, p)
      BY <3>2, <3>5, <3>7, <3>8 DEF KeptFrom, N
    <3>11. Some(new, n)
      BY <3>2, <3>9, <3>10
    <3>12. Len(new) <= n
      BY <2>1, <3>2 DEF L
    <3>. HIDE DEF Some
    <3>. QED  BY <3>2, <3>11, <3>12 DEF new, N
  <2>. QED  BY <2>4, <2>5
<1>5. N \in T
  <2>. HIDE DEF T, N
  <2>1. \A n \in 0 .. N : n \in T
    BY <1>2, <1>3, <1>4, WalkInduction
  <2>. QED  BY <1>2, <2>1
<1>. QED  BY <1>1, <1>5

(* created(): each step adds a template, or finds it there. *)
LEMMA OneCreated ==
    ASSUME NEW templates \in Seq(Editor!Template), NEW name \in Names
    PROVE  /\ Editor!create(templates, name) \in Seq(Editor!Template)
           /\ \/ Editor!create(templates, name) = templates
              \/ Editor!create(templates, name) = Append(templates, Editor!NewTemplate(name))
           /\ Editor!NewTemplate(name) \in Editor!Template
<1>1. Editor!NewTemplate(name) \in Editor!Template
  BY DEF Editor!NewTemplate, Editor!Template
<1>2. \/ Editor!create(templates, name) = templates
      \/ Editor!create(templates, name) = Append(templates, Editor!NewTemplate(name))
  BY DEF Editor!create
<1>. QED  BY <1>1, <1>2

LEMMA CreatedWalks ==
    ASSUME NEW templates \in Seq(Editor!Template), NEW names \in Seq(Names)
    PROVE  \E f :
              /\ f[0] = templates /\ Editor!created(templates, names) = f[Len(names)]
              /\ \A n \in 1 .. Len(names) : f[n] = Editor!create(f[n - 1], names[n])
<1>. DEFINE N == Len(names)
            S == Seq(Editor!Template)
            next(found, n) == Editor!create(found, names[n])
            G == [x \in S \X (1 .. N) |-> next(x[1], x[2])]
            Walk(f) == f = [n \in 0 .. N |-> IF n = 0 THEN templates ELSE next(f[n - 1], n)]
<1>1. templates \in S /\ N \in Nat
  OBVIOUS
<1>2. G \in [S \X (1 .. N) -> S]
  <2>1. ASSUME NEW found \in S, NEW n \in 1 .. N PROVE next(found, n) \in S
    BY OneCreated
  <2>. HIDE DEF S, N, next
  <2>. QED  BY <2>1
<1>3. PICK f \in [0 .. N -> S] : Walked(f, templates, N, G)
  <2>. HIDE DEF G, N, S
  <2>. QED  BY <1>1, <1>2, WalkExists
<1>4. \A n \in 1 .. N : f[n] = next(f[n - 1], n)
  <2>. HIDE DEF S, next, N
  <2>. TAKE n \in 1 .. N
  <2>1. f[n - 1] \in S
    BY <1>1
  <2>. QED  BY <1>3, <2>1 DEF Walked
<1>5. Walk(f)
  <2>1. \A n \in 0 .. N : f[n] = IF n = 0 THEN templates ELSE next(f[n - 1], n)
    BY <1>3, <1>4 DEF Walked
  <2>. HIDE DEF N, next
  <2>. QED  BY <2>1
<1>6. PICK g : Walk(g) /\ Editor!created(templates, names) = g[N]
  <2>. DEFINE h == CHOOSE u : Walk(u)
  <2>1. Walk(h)
    BY <1>5
  <2>2. Editor!created(templates, names) = h[N]
    BY DEF Editor!created
  <2>. QED  BY <2>1, <2>2
<1>7. g[0] = templates /\ \A n \in 1 .. N : g[n] = next(g[n - 1], n)
  <2>. HIDE DEF N, next
  <2>. QED  BY <1>1, <1>6
<1>. QED  BY <1>6, <1>7

(* The templates that there were, and then new ones, each without a rule and named as asked. *)
Extended(new, old, names) ==
    /\ new \in Seq(Editor!Template)
    /\ Len(old) <= Len(new)
    /\ \A i \in 1 .. Len(old) : new[i] = old[i]
    /\ \A i \in Len(old) + 1 .. Len(new) : new[i].rules = <<>> /\ new[i].name \in Elements(names)

LEMMA Created ==
    ASSUME NEW templates \in Seq(Editor!Template), NEW names \in Seq(Names)
    PROVE  Extended(Editor!created(templates, names), templates, names)
<1>. DEFINE N == Len(names)
<1>1. PICK f : /\ f[0] = templates /\ Editor!created(templates, names) = f[N]
               /\ \A n \in 1 .. N : f[n] = Editor!create(f[n - 1], names[n])
  BY CreatedWalks
<1>2. N \in Nat /\ Len(templates) \in Nat
  OBVIOUS
<1>. DEFINE T == {n \in 0 .. N : Extended(f[n], templates, names)}
<1>3. 0 \in T
  BY <1>1, <1>2 DEF Extended
<1>4. ASSUME NEW n \in 1 .. N, n - 1 \in T PROVE n \in T
  <2>. DEFINE old == f[n - 1]
              new == f[n]
              added == Editor!NewTemplate(names[n])
  <2>1. Extended(old, templates, names) /\ old \in Seq(Editor!Template)
    BY <1>4 DEF Extended
  <2>2. names[n] \in Names /\ names[n] \in Elements(names)
    BY DEF Elements
  <2>3. added.rules = <<>> /\ added.name = names[n] /\ added \in Editor!Template
    BY <2>2 DEF Editor!NewTemplate, Editor!Template
  <2>4. new = old \/ new = Append(old, added)
    BY <1>1, <2>1, <2>2, OneCreated
  <2>. HIDE DEF old, new, added
  <2>5. CASE new = old
    BY <2>1, <2>5 DEF new
  <2>6. CASE new = Append(old, added)
    <3>1. /\ new \in Seq(Editor!Template) /\ Len(new) = Len(old) + 1 /\ new[Len(old) + 1] = added
          /\ \A i \in 1 .. Len(old) : new[i] = old[i]
      BY <2>1, <2>3, <2>6, Pushed
    <3>2. Len(old) \in Nat /\ Len(templates) <= Len(old)
      BY <2>1 DEF Extended
    <3>3. \A i \in 1 .. Len(templates) : new[i] = templates[i]
      BY <1>2, <2>1, <3>1, <3>2 DEF Extended
    <3>4. \A i \in Len(templates) + 1 .. Len(new) :
             new[i].rules = <<>> /\ new[i].name \in Elements(names)
      <4>. TAKE i \in Len(templates) + 1 .. Len(new)
      <4>1. i = Len(old) + 1 \/ (i \in 1 .. Len(old) /\ i \in Len(templates) + 1 .. Len(old))
        BY <1>2, <3>1, <3>2
      <4>2. CASE i = Len(old) + 1
        BY <2>2, <2>3, <3>1, <4>2
      <4>3. CASE i \in 1 .. Len(old) /\ i \in Len(templates) + 1 .. Len(old)
        BY <2>1, <3>1, <4>3 DEF Extended
      <4>. QED  BY <4>1, <4>2, <4>3
    <3>5. Extended(new, templates, names)
      BY <1>2, <3>1, <3>2, <3>3, <3>4 DEF Extended
    <3>. QED  BY <3>5 DEF new
  <2>. QED  BY <2>4, <2>5, <2>6
<1>5. N \in T
  <2>. HIDE DEF T, N
  <2>1. \A n \in 0 .. N : n \in T
    BY <1>2, <1>3, <1>4, WalkInduction
  <2>. QED  BY <1>2, <2>1
<1>. QED  BY <1>1, <1>5

(* What the operator may work on: each rule has an id of its own, and a    *)
(* template that only a hand could reach has no rules.                     *)
Sound(b) ==
    /\ Editor!IsBundle(b)
    /\ OneEach(b)
    /\ Editor!SecondIsEmpty(b)

LEMMA SoundLists ==
    ASSUME NEW b, Sound(b), NEW t \in Places(b)
    PROVE  /\ OwnIds(Editor!RulesIn(b, t), Editor!Rule)
           /\ Editor!NoId \notin IdsOf(Editor!RulesIn(b, t))
           /\ \A u \in Places(b) :
                 t # u => IdsOf(Editor!RulesIn(b, t)) \cap IdsOf(Editor!RulesIn(b, u)) = {}
<1>1. OneEach(b) /\ Editor!RulesIn(b, t) \in Seq(Editor!Rule)
  BY BundleParts DEF Sound
<1>2. OwnIds(Editor!RulesIn(b, t), Editor!Rule)
  BY <1>1 DEF OwnIds, OneEach
<1>3. Editor!NoId \notin IdsOf(Editor!RulesIn(b, t))
  BY <1>1 DEF IdsOf, OneEach
<1>4. ASSUME NEW u \in Places(b), t # u
      PROVE  IdsOf(Editor!RulesIn(b, t)) \cap IdsOf(Editor!RulesIn(b, u)) = {}
  BY <1>1, <1>4 DEF IdsOf, OneEach
<1>. QED  BY <1>2, <1>3, <1>4

(* Templates are added that have no rules. *)
LEMMA SoundExtended ==
    ASSUME NEW b, Sound(b), NEW new, Editor!IsBundle(new), new.baseline = b.baseline,
           NEW names, Extended(new.templates, b.templates, names)
    PROVE  Sound(new)
<1>. DEFINE M == Len(b.templates)
            N == Len(new.templates)
<1>1. /\ M \in Nat /\ N \in Nat /\ M <= N
      /\ DOMAIN b.templates = 1 .. M /\ DOMAIN new.templates = 1 .. N
  BY BundleParts DEF Sound, Extended
<1>2. /\ \A i \in 1 .. M : new.templates[i] = b.templates[i]
      /\ \A i \in M + 1 .. N : new.templates[i].rules = <<>>
  BY DEF Extended
<1>. HIDE DEF M, N
<1>3. \A t \in Places(b) : t \in Places(new) /\ Editor!RulesIn(new, t) = Editor!RulesIn(b, t)
  <2>. TAKE t \in Places(b)
  <2>1. CASE t = 0
    BY <2>1 DEF Places, Editor!RulesIn, Editor!Baseline
  <2>2. CASE t \in 1 .. M
    <3>1. t \in 1 .. N /\ t # 0
      BY <1>1, <2>2
    <3>. QED  BY <1>1, <1>2, <2>2, <3>1 DEF Places, Editor!RulesIn, Editor!Baseline
  <2>. QED  BY <1>1, <2>1, <2>2 DEF Places
<1>4. \A t \in Places(new) : t \notin Places(b) => Editor!RulesIn(new, t) = <<>>
  <2>. SUFFICES ASSUME NEW t \in Places(new), t \notin Places(b)
                PROVE  Editor!RulesIn(new, t) = <<>>
    OBVIOUS
  <2>1. t \in M + 1 .. N /\ t # 0
    BY <1>1 DEF Places
  <2>. QED  BY <1>2, <2>1 DEF Editor!RulesIn, Editor!Baseline
<1>5. OneEach(new)
  <2>1. \A t \in Places(new) : Editor!RulesIn(new, t) # <<>> => t \in Places(b)
    BY <1>4
  <2>2. \A t \in Places(new) : DOMAIN Editor!RulesIn(new, t) # {} => t \in Places(b)
    BY <2>1
  <2>. QED  BY <1>3, <2>2 DEF OneEach, Sound
<1>6. Editor!SecondIsEmpty(new)
  <2>. SUFFICES ASSUME NEW i \in 1 .. N, NEW j \in 1 .. N, i < j,
                       new.templates[i].name = new.templates[j].name
                PROVE  new.templates[j].rules = <<>>
    BY <1>1 DEF Editor!SecondIsEmpty
  <2>1. CASE j \in M + 1 .. N
    BY <1>2, <2>1
  <2>2. CASE i \in 1 .. M /\ j \in 1 .. M
    BY <1>1, <1>2, <2>2 DEF Sound, Editor!SecondIsEmpty
  <2>. QED  BY <1>1, <2>1, <2>2
<1>. QED  BY <1>5, <1>6 DEF Sound

(* Templates are taken away. *)
LEMMA SoundKept ==
    ASSUME NEW b, Sound(b), NEW new, Editor!IsBundle(new), new.baseline = b.baseline,
           NEW set, NEW m, KeptFrom(new.templates, b.templates, set, m)
    PROVE  Sound(new)
<1>. DEFINE M == Len(b.templates)
            N == Len(new.templates)
<1>1. /\ M \in Nat /\ N \in Nat
      /\ DOMAIN b.templates = 1 .. M /\ DOMAIN new.templates = 1 .. N
  BY BundleParts DEF Sound
<1>2. /\ m \in [1 .. N -> 1 .. M] /\ \A i, j \in 1 .. N : i < j => m[i] < m[j]
      /\ \A i \in 1 .. N : new.templates[i] = b.templates[m[i]]
  BY DEF KeptFrom
<1>. HIDE DEF M, N
<1>. DEFINE was(t) == IF t = 0 THEN 0 ELSE m[t]
<1>3. \A t \in Places(new) : /\ was(t) \in Places(b)
                             /\ Editor!RulesIn(new, t) = Editor!RulesIn(b, was(t))
  <2>. TAKE t \in Places(new)
  <2>1. CASE t = 0
    BY <2>1 DEF Places, Editor!RulesIn, Editor!Baseline
  <2>2. CASE t \in 1 .. N
    <3>1. t # 0 /\ m[t] \in 1 .. M /\ m[t] # 0
      BY <1>1, <1>2, <2>2
    <3>. QED  BY <1>1, <1>2, <2>2, <3>1 DEF Places, Editor!RulesIn, Editor!Baseline
  <2>. QED  BY <1>1, <2>1, <2>2 DEF Places
<1>4. \A t, u \in Places(new) : was(t) = was(u) => t = u
  <2>. SUFFICES ASSUME NEW t \in Places(new), NEW u \in Places(new), was(t) = was(u)
                PROVE  t = u
    OBVIOUS
  <2>1. (t = 0 \/ t \in 1 .. N) /\ (u = 0 \/ u \in 1 .. N)
    BY <1>1 DEF Places
  <2>2. CASE t = 0 \/ u = 0
    BY <1>1, <1>2, <2>1, <2>2
  <2>3. CASE t \in 1 .. N /\ u \in 1 .. N
    <3>1. m[t] = m[u] /\ m[t] \in 1 .. M
      BY <1>1, <1>2, <2>3
    <3>2. ~(t < u) /\ ~(u < t)
      BY <1>1, <1>2, <2>3, <3>1
    <3>. QED  BY <1>1, <2>3, <3>2
  <2>. QED  BY <2>1, <2>2, <2>3
<1>. HIDE DEF was
<1>5. OneEach(new)
  BY <1>3, <1>4 DEF OneEach, Sound
<1>6. Editor!SecondIsEmpty(new)
  <2>. SUFFICES ASSUME NEW i \in 1 .. N, NEW j \in 1 .. N, i < j,
                       new.templates[i].name = new.templates[j].name
                PROVE  new.templates[j].rules = <<>>
    BY <1>1 DEF Editor!SecondIsEmpty
  <2>1. m[i] \in DOMAIN b.templates /\ m[j] \in DOMAIN b.templates /\ m[i] < m[j]
    BY <1>1, <1>2
  <2>2. new.templates[i] = b.templates[m[i]] /\ new.templates[j] = b.templates[m[j]]
    BY <1>2
  <2>3. \A k, l \in DOMAIN b.templates :
           k < l /\ b.templates[k].name = b.templates[l].name => b.templates[l].rules = <<>>
    BY DEF Sound, Editor!SecondIsEmpty
  <2>4. b.templates[m[i]].name = b.templates[m[j]].name
    BY <2>2
  <2>. HIDE DEF M, N
  <2>. QED  BY <2>1, <2>2, <2>3, <2>4, Zenon
<1>. QED  BY <1>5, <1>6 DEF Sound

(* The rules of one place change, of a template that is the first of its name. *)
FirstOfName(b, t) ==
    t # 0 => \A i \in DOMAIN b.templates : i < t => b.templates[i].name # b.templates[t].name

SameBut(new, b, t, list) ==
    /\ DOMAIN new.templates = DOMAIN b.templates
    /\ \A i \in DOMAIN b.templates : new.templates[i].name = b.templates[i].name
    /\ \A u \in Places(b) :
          Editor!RulesIn(new, u) = IF u = t THEN list ELSE Editor!RulesIn(b, u)

LEMMA SoundChanged ==
    ASSUME NEW b, Sound(b), NEW new, Editor!IsBundle(new), NEW t \in Places(b), FirstOfName(b, t),
           NEW list, SameBut(new, b, t, list),
           OwnIds(list, Editor!Rule), Editor!NoId \notin IdsOf(list),
           \A u \in Places(b) : t # u => IdsOf(list) \cap IdsOf(Editor!RulesIn(b, u)) = {}
    PROVE  Sound(new)
<1>1. /\ Places(new) = Places(b)
      /\ \A u \in Places(b) :
            Editor!RulesIn(new, u) = IF u = t THEN list ELSE Editor!RulesIn(b, u)
  BY DEF SameBut, Places
<1>2. OneEach(new)
  <2>1. \A u \in Places(new) : /\ OwnIds(Editor!RulesIn(new, u), Editor!Rule)
                               /\ Editor!NoId \notin IdsOf(Editor!RulesIn(new, u))
    BY <1>1, SoundLists
  <2>2. \A u, v \in Places(new) :
           u # v => IdsOf(Editor!RulesIn(new, u)) \cap IdsOf(Editor!RulesIn(new, v)) = {}
    <3>. SUFFICES ASSUME NEW u \in Places(new), NEW v \in Places(new), u # v
                  PROVE  IdsOf(Editor!RulesIn(new, u)) \cap IdsOf(Editor!RulesIn(new, v)) = {}
      OBVIOUS
    <3>1. CASE u = t
      BY <1>1, <3>1
    <3>2. CASE v = t
      BY <1>1, <3>2
    <3>3. CASE u # t /\ v # t
      <4>1. IdsOf(Editor!RulesIn(b, u)) \cap IdsOf(Editor!RulesIn(b, v)) = {}
        BY <1>1, SoundLists
      <4>. QED  BY <1>1, <3>3, <4>1
    <3>. QED  BY <3>1, <3>2, <3>3
  <2>. QED  BY <2>1, <2>2, ApartIsOneEach
<1>3. Editor!SecondIsEmpty(new)
  <2>. SUFFICES ASSUME NEW i \in DOMAIN new.templates, NEW j \in DOMAIN new.templates, i < j,
                       new.templates[i].name = new.templates[j].name
                PROVE  new.templates[j].rules = <<>>
    BY DEF Editor!SecondIsEmpty
  <2>1. /\ i \in DOMAIN b.templates /\ j \in DOMAIN b.templates
        /\ b.templates[i].name = b.templates[j].name
    BY DEF SameBut
  <2>2. j # 0 /\ j \in Places(b)
    BY <2>1, BundleParts DEF Sound, Places
  <2>3. j # t
    BY <2>1, <2>2 DEF FirstOfName
  <2>4. Editor!RulesIn(new, j) = Editor!RulesIn(b, j)
    BY <1>1, <2>2, <2>3
  <2>5. b.templates[j].rules = <<>>
    BY <2>1 DEF Sound, Editor!SecondIsEmpty
  <2>. QED  BY <2>2, <2>4, <2>5 DEF Editor!RulesIn, Editor!Baseline
<1>. QED  BY <1>2, <1>3 DEF Sound

LEMMA ImageIsFinite ==
    ASSUME NEW f, IsFiniteSet(DOMAIN f), NEW T, T = {f[x] : x \in DOMAIN f}, f \in [DOMAIN f -> T]
    PROVE  IsFiniteSet(T)
<1>1. f \in Surjection(DOMAIN f, T)
  BY DEF Surjection
<1>. QED  BY <1>1, FS_Surjection

(* Every id of a bundle is among its ids, and there are finitely many. *)
LEMMA AllIds ==
    ASSUME NEW b, Editor!IsBundle(b)
    PROVE  /\ IsFiniteSet(Editor!all_ids(b))
           /\ \A t \in Places(b) : IdsOf(Editor!RulesIn(b, t)) \subseteq Editor!all_ids(b)
<1>. DEFINE Lists == Editor!RuleLists(b)
            Sets == {IdsOf(list) : list \in Lists}
<1>1. \A t \in Places(b) : Editor!RulesIn(b, t) \in Lists /\ Editor!RulesIn(b, t) \in Seq(Editor!Rule)
  BY BundleParts DEF Editor!RuleLists, Editor!RulesIn, Editor!Baseline, Places
<1>2. Lists = {Editor!RulesIn(b, t) : t \in Places(b)}
  <2>1. \A t \in DOMAIN b.templates : t # 0
    BY BundleParts
  <2>. QED  BY <2>1 DEF Editor!RuleLists, Editor!RulesIn, Editor!Baseline, Places
<1>3. Editor!all_ids(b) = UNION Sets
  BY Zenon DEF Editor!all_ids, IdsOf
<1>4. IsFiniteSet(Places(b))
  <2>1. IsFiniteSet(DOMAIN b.templates)
    BY BundleParts, FS_Interval
  <2>. QED  BY <2>1, FS_AddElement DEF Places
<1>5. IsFiniteSet(Lists)
  <2>. HIDE DEF Lists
  <2>. DEFINE f == [t \in Places(b) |-> Editor!RulesIn(b, t)]
  <2>1. DOMAIN f = Places(b) /\ Lists = {f[t] : t \in DOMAIN f} /\ f \in [DOMAIN f -> Lists]
    BY <1>2
  <2>. HIDE DEF f
  <2>. QED  BY <1>4, <2>1, ImageIsFinite
<1>6. \A list \in Lists : IsFiniteSet(IdsOf(list))
  <2>. TAKE list \in Lists
  <2>1. list \in Seq(Editor!Rule)
    BY <1>1, <1>2
  <2>2. IsFiniteSet(DOMAIN list)
    BY <2>1, FS_Interval
  <2>. DEFINE f == [i \in DOMAIN list |-> list[i].id]
  <2>3. DOMAIN f = DOMAIN list /\ IdsOf(list) = {f[i] : i \in DOMAIN f} /\ f \in [DOMAIN f -> IdsOf(list)]
    BY DEF IdsOf
  <2>. HIDE DEF f
  <2>. QED  BY <2>2, <2>3, ImageIsFinite
<1>. HIDE DEF Lists
<1>7. IsFiniteSet(Sets)
  <2>. DEFINE f == [list \in Lists |-> IdsOf(list)]
  <2>1. DOMAIN f = Lists /\ Sets = {f[list] : list \in DOMAIN f} /\ f \in [DOMAIN f -> Sets]
    OBVIOUS
  <2>. HIDE DEF f, Sets
  <2>. QED  BY <1>5, <2>1, ImageIsFinite
<1>8. \A s \in Sets : IsFiniteSet(s)
  BY <1>6
<1>9. IsFiniteSet(UNION Sets)
  <2>. HIDE DEF Sets
  <2>. QED  BY <1>7, <1>8, FS_UNION
<1>10. \A t \in Places(b) : IdsOf(Editor!RulesIn(b, t)) \subseteq UNION Sets
  BY <1>1
<1>. QED  BY <1>3, <1>9, <1>10

EditorInv ==
    /\ Editor!TypeOK
    /\ Sound(draft)
    /\ Editor!OfferedMeansChanged
    /\ ~loaded => ~button

NamesIn(b) == {b.templates[i].name : i \in DOMAIN b.templates}

(* An edit makes a sound bundle, and no template that reads as the baseline. *)
EditsTo(new) ==
    /\ Sound(new)
    /\ Len(new.templates) <= MaxTemplates
    /\ \A name \in NamesIn(new) \ NamesIn(draft) : ~Editor!is_baseline_name(name)
    /\ Editor!Edit(new)

NoNewBaseline ==
    \A name \in Editor!TemplateNames' \ Editor!TemplateNames : ~Editor!is_baseline_name(name)

LEMMA EditIsKept ==
    ASSUME EditorInv, NEW new, EditsTo(new)
    PROVE  EditorInv' /\ NoNewBaseline
<1>1. /\ loaded /\ draft' = new /\ button' = Editor!can_publish(new, published)
      /\ loaded' = loaded /\ published' = published /\ publications' = publications
  BY DEF EditsTo, Editor!Edit
<1>2. Editor!TypeOK'
  <2>1. Editor!IsBundle(draft')
    BY <1>1 DEF EditsTo, Sound
  <2>2. Editor!IsBundle(published')
    BY <1>1 DEF EditorInv, Editor!TypeOK
  <2>3. Len(draft'.templates) <= MaxTemplates
    BY <1>1 DEF EditsTo
  <2>4. /\ loaded' \in BOOLEAN /\ publications' \in 0 .. MaxPublished
    BY <1>1 DEF EditorInv, Editor!TypeOK
  <2>5. button' \in BOOLEAN
    BY <1>1, Zenon DEF Editor!can_publish
  <2>. QED  BY <2>1, <2>2, <2>3, <2>4, <2>5 DEF Editor!TypeOK
<1>3. Sound(draft')
  BY <1>1 DEF EditsTo
<1>4. Editor!OfferedMeansChanged'
  BY <1>1 DEF Editor!OfferedMeansChanged, Editor!can_publish
<1>5. NoNewBaseline
  BY <1>1 DEF NoNewBaseline, EditsTo, NamesIn, Editor!TemplateNames
<1>. QED  BY <1>1, <1>2, <1>3, <1>4, <1>5 DEF EditorInv

LEMMA DraftParts ==
    ASSUME EditorInv
    PROVE  /\ Sound(draft) /\ Editor!IsBundle(draft) /\ Len(draft.templates) <= MaxTemplates
           /\ draft = [baseline |-> draft.baseline, templates |-> draft.templates,
                       assignments |-> draft.assignments]
           /\ DOMAIN draft.assignments \subseteq NamedHosts
           /\ draft.assignments \in [DOMAIN draft.assignments -> Seq(Names)]
  BY DEF EditorInv, Sound, Editor!TypeOK, Editor!IsBundle

(* A bundle given by its parts. *)
LEMMA MadeBundle ==
    ASSUME NEW baseline \in Seq(Editor!Rule), NEW templates \in Seq(Editor!Template),
           NEW rows, DOMAIN rows \subseteq NamedHosts, rows \in [DOMAIN rows -> Seq(Names)],
           NEW new,
           new = [baseline |-> baseline, templates |-> templates, assignments |-> rows]
    PROVE  /\ Editor!IsBundle(new) /\ new.baseline = baseline /\ new.templates = templates
           /\ new.assignments = rows
<1>1. new.baseline = baseline /\ new.templates = templates /\ new.assignments = rows
  OBVIOUS
<1>. QED  BY <1>1 DEF Editor!IsBundle

-----------------------------------------------------------------------------
(* Templates are added, by their names or by those of a row, or removed. *)
LEMMA TemplatesAdded ==
    ASSUME EditorInv, NEW names, NEW new, Editor!IsBundle(new),
           new.baseline = draft.baseline, Extended(new.templates, draft.templates, names),
           Len(new.templates) <= MaxTemplates,
           \A name \in Elements(names) : ~Editor!is_baseline_name(name),
           Editor!Edit(new)
    PROVE  EditsTo(new)
<1>1. Sound(new)
  BY DraftParts, SoundExtended
<1>2. NamesIn(new) \subseteq NamesIn(draft) \cup Elements(names)
  <2>1. /\ DOMAIN draft.templates = 1 .. Len(draft.templates)
        /\ DOMAIN new.templates = 1 .. Len(new.templates)
        /\ Len(draft.templates) \in Nat /\ Len(new.templates) \in Nat
    BY DraftParts, BundleParts
  <2>. SUFFICES ASSUME NEW i \in 1 .. Len(new.templates)
                PROVE  new.templates[i].name \in NamesIn(draft) \cup Elements(names)
    BY <2>1 DEF NamesIn
  <2>2. CASE i \in 1 .. Len(draft.templates)
    BY <2>1, <2>2 DEF Extended, NamesIn
  <2>3. CASE i \in Len(draft.templates) + 1 .. Len(new.templates)
    BY <2>3 DEF Extended
  <2>. QED  BY <2>1, <2>2, <2>3
<1>. QED  BY <1>1, <1>2 DEF EditsTo

LEMMA TemplateAdded ==
    ASSUME EditorInv, NEW name \in Names, Editor!on_add_template_clicked(name)
    PROVE  EditorInv' /\ NoNewBaseline
<1>. DEFINE added == Editor!NewTemplate(name)
            templates == Append(draft.templates, added)
            new == [draft EXCEPT !.templates = templates]
<1>1. /\ ~Editor!is_baseline_name(name) /\ Len(draft.templates) < MaxTemplates
      /\ Editor!Edit(new)
  BY DEF Editor!on_add_template_clicked
<1>2. added \in Editor!Template /\ added.rules = <<>> /\ added.name = name
  BY DEF Editor!NewTemplate, Editor!Template
<1>3. draft.templates \in Seq(Editor!Template) /\ Len(draft.templates) \in Nat
  BY DraftParts, BundleParts
<1>4. MaxTemplates \in Nat
  BY EditorAssumption DEF Editor!EditorAssumption
<1>. HIDE DEF added
<1>5. /\ templates \in Seq(Editor!Template) /\ Len(templates) = Len(draft.templates) + 1
      /\ templates[Len(draft.templates) + 1] = added
      /\ \A i \in 1 .. Len(draft.templates) : templates[i] = draft.templates[i]
  BY <1>2, <1>3, Pushed
<1>. HIDE DEF templates
<1>6. Extended(templates, draft.templates, <<name>>)
  <2>1. name \in Elements(<<name>>)
    BY DEF Elements
  <2>2. \A i \in Len(draft.templates) + 1 .. Len(templates) : i = Len(draft.templates) + 1
    BY <1>3, <1>5
  <2>3. \A i \in Len(draft.templates) + 1 .. Len(templates) :
           templates[i].rules = <<>> /\ templates[i].name \in Elements(<<name>>)
    BY <1>2, <1>5, <2>1, <2>2
  <2>4. Len(draft.templates) <= Len(templates)
    BY <1>3, <1>5
  <2>. QED  BY <1>5, <2>3, <2>4 DEF Extended
<1>7. /\ Editor!IsBundle(new) /\ new.baseline = draft.baseline /\ new.templates = templates
  <2>1. new = [baseline |-> draft.baseline, templates |-> templates,
               assignments |-> draft.assignments]
    BY DraftParts
  <2>. HIDE DEF new
  <2>. QED  BY <1>5, <2>1, DraftParts, BundleParts, MadeBundle
<1>8. \A x \in Elements(<<name>>) : ~Editor!is_baseline_name(x)
  BY <1>1 DEF Elements
<1>9. Len(new.templates) <= MaxTemplates
  BY <1>1, <1>3, <1>4, <1>5, <1>7
<1>. HIDE DEF new
<1>10. EditsTo(new)
  BY <1>1, <1>6, <1>7, <1>8, <1>9, TemplatesAdded
<1>. QED  BY <1>10, EditIsKept

LEMMA TemplateRemoved ==
    ASSUME EditorInv, NEW name \in Names, Editor!on_remove_template_clicked(name)
    PROVE  EditorInv' /\ NoNewBaseline
<1>. DEFINE others == {t \in Editor!Template : t.name # name}
            templates == Editor!kept(draft.templates, others)
            new == [draft EXCEPT !.templates = templates]
<1>1. Editor!Edit(new)
  BY DEF Editor!on_remove_template_clicked
<1>2. draft.templates \in Seq(Editor!Template) /\ Len(draft.templates) \in Nat
  BY DraftParts, BundleParts
<1>. HIDE DEF others
<1>3. /\ templates \in Seq(Editor!Template) /\ Len(templates) <= Len(draft.templates)
      /\ \E m : KeptFrom(templates, draft.templates, others, m)
  BY <1>2, Kept
<1>. HIDE DEF templates
<1>4. PICK m : KeptFrom(templates, draft.templates, others, m)
  BY <1>3
<1>5. /\ Editor!IsBundle(new) /\ new.baseline = draft.baseline /\ new.templates = templates
  <2>1. new = [baseline |-> draft.baseline, templates |-> templates,
               assignments |-> draft.assignments]
    BY DraftParts
  <2>. HIDE DEF new
  <2>. QED  BY <1>3, <2>1, DraftParts, BundleParts, MadeBundle
<1>. HIDE DEF new
<1>6. Sound(new)
  BY <1>4, <1>5, DraftParts, SoundKept
<1>7. NamesIn(new) \subseteq NamesIn(draft)
  <2>1. /\ DOMAIN draft.templates = 1 .. Len(draft.templates)
        /\ DOMAIN new.templates = 1 .. Len(templates)
    BY <1>3, <1>5, DraftParts, BundleParts
  <2>2. \A i \in 1 .. Len(templates) :
           m[i] \in DOMAIN draft.templates /\ templates[i] = draft.templates[m[i]]
    BY <1>4, <2>1 DEF KeptFrom
  <2>. QED  BY <1>5, <2>1, <2>2 DEF NamesIn
<1>8. Len(new.templates) <= MaxTemplates
  <2>1. MaxTemplates \in Nat /\ Len(templates) \in Nat /\ Len(draft.templates) <= MaxTemplates
    BY <1>3, DraftParts, EditorAssumption DEF Editor!EditorAssumption
  <2>. QED  BY <1>2, <1>3, <1>5, <2>1
<1>9. EditsTo(new)
  BY <1>1, <1>6, <1>7, <1>8 DEF EditsTo
<1>. QED  BY <1>9, EditIsKept

(* What the tab can select: the baseline, or the first template of a name. *)
LEMMA SelectedPlace ==
    ASSUME EditorInv, NEW t \in Editor!selected_template
    PROVE  t \in Places(draft) /\ FirstOfName(draft, t)
<1>1. CASE t = 0
  BY <1>1 DEF Places, FirstOfName
<1>2. CASE t # 0
  <2>1. PICK name \in Editor!TemplateNames : t \in Editor!find_template(draft, name)
    BY <1>2 DEF Editor!selected_template, Editor!Baseline
  <2>2. /\ t \in DOMAIN draft.templates /\ draft.templates[t].name = name
        /\ \A j \in 1 .. t - 1 : draft.templates[j].name # name
    BY <2>1 DEF Editor!find_template
  <2>3. DOMAIN draft.templates = 1 .. Len(draft.templates) /\ Len(draft.templates) \in Nat
    BY DraftParts, BundleParts
  <2>4. \A i \in DOMAIN draft.templates : i < t => i \in 1 .. t - 1
    BY <2>2, <2>3
  <2>. QED  BY <2>2, <2>4 DEF Places, FirstOfName
<1>. QED  BY <1>1, <1>2

LEMMA RulesReplaced ==
    ASSUME EditorInv, NEW t \in Places(draft), NEW rs \in Seq(Editor!Rule)
    PROVE  /\ Editor!IsBundle(Editor!WithRules(t, rs))
           /\ SameBut(Editor!WithRules(t, rs), draft, t, rs)
           /\ Len(Editor!WithRules(t, rs).templates) = Len(draft.templates)
<1>. DEFINE new == Editor!WithRules(t, rs)
<1>1. /\ draft.baseline \in Seq(Editor!Rule) /\ draft.templates \in Seq(Editor!Template)
      /\ DOMAIN draft.templates = 1 .. Len(draft.templates) /\ Len(draft.templates) \in Nat
  BY DraftParts, BundleParts
<1>2. CASE t = 0
  <2>1. new = [baseline |-> rs, templates |-> draft.templates, assignments |-> draft.assignments]
    BY <1>2, DraftParts DEF Editor!WithRules, Editor!Baseline
  <2>. HIDE DEF new
  <2>2. /\ Editor!IsBundle(new) /\ new.baseline = rs /\ new.templates = draft.templates
    BY <1>1, <2>1, DraftParts, MadeBundle
  <2>3. SameBut(new, draft, t, rs)
    BY <1>2, <2>2 DEF SameBut, Editor!RulesIn, Editor!Baseline
  <2>. QED  BY <2>2, <2>3 DEF new
<1>3. CASE t \in DOMAIN draft.templates
  <2>. DEFINE changed == [draft.templates[t] EXCEPT !.rules = rs]
              templates == [draft.templates EXCEPT ![t] = changed]
  <2>1. t # 0
    BY <1>1, <1>3
  <2>2. draft.templates[t] \in Editor!Template
    BY <1>1, <1>3
  <2>3. changed \in Editor!Template /\ changed.rules = rs /\ changed.name = draft.templates[t].name
    BY <2>2 DEF Editor!Template
  <2>4. new = [draft EXCEPT !.templates = templates]
    BY <2>1 DEF Editor!WithRules, Editor!Baseline
  <2>5. new = [baseline |-> draft.baseline, templates |-> templates,
               assignments |-> draft.assignments]
    BY <2>4, DraftParts
  <2>. HIDE DEF changed, new
  <2>6. /\ templates \in Seq(Editor!Template) /\ DOMAIN templates = DOMAIN draft.templates
        /\ Len(templates) = Len(draft.templates) /\ templates[t] = changed
        /\ \A i \in DOMAIN draft.templates : i # t => templates[i] = draft.templates[i]
    BY <1>1, <1>3, <2>3
  <2>. HIDE DEF templates
  <2>7. /\ Editor!IsBundle(new) /\ new.baseline = draft.baseline /\ new.templates = templates
    <3>1. templates \in Seq(Editor!Template)
      BY <2>6
    <3>. QED  BY <1>1, <2>5, <3>1, DraftParts, MadeBundle
  <2>8. \A i \in DOMAIN draft.templates : new.templates[i].name = draft.templates[i].name
    BY <2>3, <2>6, <2>7
  <2>9. ASSUME NEW u \in Places(draft)
        PROVE  Editor!RulesIn(new, u) = IF u = t THEN rs ELSE Editor!RulesIn(draft, u)
    <3>1. CASE u = t
      BY <2>1, <2>3, <2>6, <2>7, <3>1 DEF Editor!RulesIn, Editor!Baseline
    <3>2. CASE u # t /\ u = 0
      BY <2>7, <3>2 DEF Editor!RulesIn, Editor!Baseline
    <3>3. CASE u # t /\ u \in DOMAIN draft.templates
      BY <1>1, <2>6, <2>7, <3>3 DEF Editor!RulesIn, Editor!Baseline
    <3>. QED  BY <3>1, <3>2, <3>3 DEF Places
  <2>10. SameBut(new, draft, t, rs)
    BY <2>6, <2>7, <2>8, <2>9 DEF SameBut
  <2>. QED  BY <2>6, <2>7, <2>10 DEF new
<1>. QED  BY <1>2, <1>3 DEF Places

(* The rules of a place become rs, without an id that another place has. *)
LEMMA RulesEdited ==
    ASSUME EditorInv, NEW t \in Editor!selected_template, NEW rs,
           OwnIds(rs, Editor!Rule), Editor!NoId \notin IdsOf(rs),
           \A u \in Places(draft) : t # u => IdsOf(rs) \cap IdsOf(Editor!RulesIn(draft, u)) = {},
           Editor!Edit(Editor!WithRules(t, rs))
    PROVE  EditorInv' /\ NoNewBaseline
<1>. DEFINE new == Editor!WithRules(t, rs)
<1>1. t \in Places(draft) /\ FirstOfName(draft, t)
  BY SelectedPlace
<1>2. rs \in Seq(Editor!Rule)
  BY DEF OwnIds
<1>3. /\ Editor!IsBundle(new) /\ SameBut(new, draft, t, rs)
      /\ Len(new.templates) = Len(draft.templates)
  BY <1>1, <1>2, RulesReplaced
<1>. HIDE DEF new
<1>4. Sound(new)
  BY <1>1, <1>3, DraftParts, SoundChanged
<1>5. NamesIn(new) = NamesIn(draft)
  BY <1>3 DEF NamesIn, SameBut
<1>6. EditsTo(new)
  BY <1>3, <1>4, <1>5, DraftParts DEF EditsTo, new
<1>. QED  BY <1>6, EditIsKept

LEMMA RuleAdded ==
    ASSUME EditorInv, NEW t \in Editor!selected_template, NEW about \in RuleTargets,
           NEW says \in Sayings, Editor!on_add_rule_clicked(t, about, says)
    PROVE  EditorInv' /\ NoNewBaseline
<1>. DEFINE rule == [id |-> Editor!NoId, target |-> about, says |-> says]
            id == Editor!make_rule_id(draft, rule)
            added == [rule EXCEPT !.id = id]
            old == Editor!RulesIn(draft, t)
            rs == Append(old, added)
<1>1. Editor!Edit(Editor!WithRules(t, rs))
  BY DEF Editor!on_add_rule_clicked, Editor!RulesOf
<1>2. /\ IsFiniteSet(Editor!all_ids(draft))
      /\ \A u \in Places(draft) : IdsOf(Editor!RulesIn(draft, u)) \subseteq Editor!all_ids(draft)
  BY DraftParts, AllIds
<1>3. PICK k \in Nat \ {0} : id = <<rule.target, k>> /\ <<rule.target, k>> \notin Editor!all_ids(draft)
  BY <1>2, IdIsFree DEF Editor!make_rule_id
<1>4. rule.target = about
  OBVIOUS
<1>5. id \in Editor!Ids /\ id # Editor!NoId /\ id \notin Editor!all_ids(draft)
  <2>1. <<about, k>> \in Editor!Ids
    BY DEF Editor!Ids
  <2>. QED  BY <1>3, <1>4, <2>1, MarkIsNoId
<1>. HIDE DEF id
<1>6. added \in Editor!Rule /\ added.id = id
  BY <1>5 DEF Editor!Rule
<1>7. t \in Places(draft)
  BY SelectedPlace
<1>8. OwnIds(old, Editor!Rule) /\ Editor!NoId \notin IdsOf(old)
      /\ \A u \in Places(draft) : t # u => IdsOf(old) \cap IdsOf(Editor!RulesIn(draft, u)) = {}
  BY <1>7, DraftParts, SoundLists
<1>. HIDE DEF added, old
<1>9. /\ rs \in Seq(Editor!Rule) /\ DOMAIN rs = DOMAIN old \cup {Len(old) + 1}
      /\ rs[Len(old) + 1] = added /\ \A i \in DOMAIN old : rs[i] = old[i]
  BY <1>6, <1>8, Pushed DEF OwnIds
<1>. HIDE DEF rs
<1>10. IdsOf(rs) = IdsOf(old) \cup {id}
  <2>1. rs[Len(old) + 1].id = id /\ \A i \in DOMAIN old : rs[i].id = old[i].id
    BY <1>6, <1>9
  <2>. QED  BY <1>9, <2>1 DEF IdsOf
<1>11. id \notin IdsOf(old)
  BY <1>2, <1>5, <1>7 DEF old
<1>12. OwnIds(rs, Editor!Rule)
  <2>1. \A i \in DOMAIN old : old[i].id # id
    BY <1>11 DEF IdsOf
  <2>2. \A i \in DOMAIN rs : i \in DOMAIN old \/ i = Len(old) + 1
    BY <1>9
  <2>. QED  BY <1>6, <1>8, <1>9, <2>1, <2>2 DEF OwnIds
<1>13. Editor!NoId \notin IdsOf(rs)
  BY <1>5, <1>8, <1>10
<1>14. \A u \in Places(draft) : t # u => IdsOf(rs) \cap IdsOf(Editor!RulesIn(draft, u)) = {}
  BY <1>2, <1>5, <1>8, <1>10
<1>. QED  BY <1>1, <1>12, <1>13, <1>14, RulesEdited DEF rs, added

LEMMA RuleEdited ==
    ASSUME EditorInv, NEW t \in Editor!selected_template, NEW about \in RuleTargets,
           NEW says \in Sayings, NEW at \in DOMAIN Editor!RulesOf(t),
           Editor!on_edit_rule_clicked(t, at, about, says)
    PROVE  EditorInv' /\ NoNewBaseline
<1>. DEFINE old == Editor!RulesIn(draft, t)
            edited == [[old[at] EXCEPT !.target = about] EXCEPT !.says = says]
            rs == [old EXCEPT ![at] = edited]
<1>1. t \in Places(draft)
  BY SelectedPlace
<1>2. OwnIds(old, Editor!Rule) /\ Editor!NoId \notin IdsOf(old)
      /\ \A u \in Places(draft) : t # u => IdsOf(old) \cap IdsOf(Editor!RulesIn(draft, u)) = {}
  BY <1>1, DraftParts, SoundLists
<1>3. at \in DOMAIN old
  BY DEF Editor!RulesOf
<1>. HIDE DEF old
<1>4. old \in Seq(Editor!Rule) /\ old[at] \in Editor!Rule
  BY <1>2, <1>3 DEF OwnIds
<1>5. Editor!Edit(Editor!WithRules(t, rs))
  <2>1. [old EXCEPT ![at].target = about, ![at].says = says] = rs
    BY <1>3, <1>4
  <2>. QED  BY <2>1 DEF Editor!on_edit_rule_clicked, Editor!RulesOf, old
<1>6. edited \in Editor!Rule /\ edited.id = old[at].id
  BY <1>4 DEF Editor!Rule
<1>. HIDE DEF edited
<1>7. /\ rs \in Seq(Editor!Rule) /\ DOMAIN rs = DOMAIN old
      /\ \A i \in DOMAIN old : rs[i].id = old[i].id
  BY <1>3, <1>4, <1>6
<1>. HIDE DEF rs
<1>8. OwnIds(rs, Editor!Rule) /\ IdsOf(rs) = IdsOf(old)
  BY <1>2, <1>7 DEF OwnIds, IdsOf
<1>. QED  BY <1>2, <1>5, <1>8, RulesEdited

(* RemoveAt(): the elements before the place, and those after it. *)
LEMMA RemovedAt ==
    ASSUME NEW R, NEW list \in Seq(R), NEW at \in DOMAIN list
    PROVE  /\ Editor!RemoveAt(list, at) \in Seq(R)
           /\ Len(Editor!RemoveAt(list, at)) = Len(list) - 1
           /\ \A i \in 1 .. Len(list) - 1 :
                 Editor!RemoveAt(list, at)[i] = list[IF i < at THEN i ELSE i + 1]
<1>. DEFINE N == Len(list)
            a == SubSeq(list, 1, at - 1)
            b == SubSeq(list, at + 1, N)
<1>1. Editor!RemoveAt(list, at) = a \o b
  BY DEF Editor!RemoveAt
<1>2. N \in Nat /\ at \in 1 .. N
  OBVIOUS
<1>3. a \in Seq(R) /\ Len(a) = at - 1 /\ \A i \in 1 .. at - 1 : a[i] = list[i]
  BY <1>2
<1>4. b \in Seq(R) /\ Len(b) = N - at /\ \A i \in 1 .. N - at : b[i] = list[at + i]
  <2>1. at + 1 \in 1 .. N + 1 /\ N \in (at + 1) - 1 .. N
    BY <1>2
  <2>2. /\ b \in Seq(R) /\ Len(b) = N - (at + 1) + 1
        /\ \A i \in 1 .. N - (at + 1) + 1 : b[i] = list[(at + 1) + i - 1]
    BY <2>1, SubSeqProperties
  <2>3. N - (at + 1) + 1 = N - at /\ \A i \in 1 .. N - at : (at + 1) + i - 1 = at + i
    BY <1>2
  <2>. HIDE DEF N, b
  <2>. QED  BY <2>2, <2>3
<1>. HIDE DEF a, b
<1>5. a \o b \in Seq(R) /\ Len(a \o b) = N - 1
      /\ \A i \in 1 .. N - 1 : (a \o b)[i] = IF i <= Len(a) THEN a[i] ELSE b[i - Len(a)]
  <2>. HIDE DEF N
  <2>1. /\ a \o b \in Seq(R) /\ Len(a \o b) = Len(a) + Len(b)
        /\ \A i \in 1 .. Len(a) + Len(b) :
              (a \o b)[i] = IF i <= Len(a) THEN a[i] ELSE b[i - Len(a)]
    BY <1>3, <1>4, ConcatProperties
  <2>2. Len(a) + Len(b) = N - 1
    BY <1>2, <1>3, <1>4
  <2>. QED  BY <2>1, <2>2
<1>. HIDE DEF N
<1>6. ASSUME NEW i \in 1 .. N - 1
      PROVE  (a \o b)[i] = list[IF i < at THEN i ELSE i + 1]
  <2>1. CASE i < at
    <3>1. i \in 1 .. at - 1 /\ i <= Len(a)
      BY <1>2, <1>3, <2>1
    <3>. QED  BY <1>3, <1>5, <2>1, <3>1
  <2>2. CASE ~(i < at)
    <3>1. i - (at - 1) \in 1 .. N - at /\ at + (i - (at - 1)) = i + 1 /\ ~(i <= at - 1)
      BY <1>2, <2>2
    <3>2. (a \o b)[i] = b[i - (at - 1)]
      BY <1>3, <1>5, <3>1
    <3>. QED  BY <1>4, <2>2, <3>1, <3>2
  <2>. QED  BY <2>1, <2>2
<1>. QED  BY <1>1, <1>5, <1>6 DEF N

LEMMA RuleRemoved ==
    ASSUME EditorInv, NEW t \in Editor!selected_template, NEW at \in DOMAIN Editor!RulesOf(t),
           Editor!on_remove_rule_clicked(t, at)
    PROVE  EditorInv' /\ NoNewBaseline
<1>. DEFINE old == Editor!RulesIn(draft, t)
            rs == Editor!RemoveAt(old, at)
            was(i) == IF i < at THEN i ELSE i + 1
<1>1. Editor!Edit(Editor!WithRules(t, rs)) /\ at \in DOMAIN old
  BY DEF Editor!on_remove_rule_clicked, Editor!RulesOf
<1>2. t \in Places(draft)
  BY SelectedPlace
<1>3. OwnIds(old, Editor!Rule) /\ Editor!NoId \notin IdsOf(old)
      /\ \A u \in Places(draft) : t # u => IdsOf(old) \cap IdsOf(Editor!RulesIn(draft, u)) = {}
  BY <1>2, DraftParts, SoundLists
<1>. HIDE DEF old
<1>4. old \in Seq(Editor!Rule) /\ at \in 1 .. Len(old) /\ Len(old) \in Nat
      /\ DOMAIN old = 1 .. Len(old)
  BY <1>1, <1>3 DEF OwnIds
<1>5. rs \in Seq(Editor!Rule) /\ Len(rs) = Len(old) - 1
      /\ \A i \in 1 .. Len(old) - 1 : rs[i] = old[was(i)]
  BY <1>1, <1>4, RemovedAt
<1>. HIDE DEF rs
<1>6. DOMAIN rs = 1 .. Len(old) - 1
  BY <1>5
<1>7. \A i \in DOMAIN rs : was(i) \in DOMAIN old /\ rs[i] = old[was(i)]
  BY <1>4, <1>5, <1>6
<1>8. \A i, j \in DOMAIN rs : was(i) = was(j) => i = j
  BY <1>4, <1>6
<1>. HIDE DEF was
<1>9. OwnIds(rs, Editor!Rule) /\ IdsOf(rs) \subseteq IdsOf(old)
  BY <1>3, <1>5, <1>7, <1>8 DEF OwnIds, IdsOf
<1>10. Editor!NoId \notin IdsOf(rs)
  BY <1>3, <1>9
<1>11. \A u \in Places(draft) : t # u => IdsOf(rs) \cap IdsOf(Editor!RulesIn(draft, u)) = {}
  BY <1>3, <1>9
<1>. QED  BY <1>1, <1>9, <1>10, <1>11, RulesEdited DEF rs

(* The assignments become rows, and the templates of the names in one of them are made. *)
LEMMA RowsEdited ==
    ASSUME EditorInv, NEW rows, DOMAIN rows \subseteq NamedHosts, rows \in [DOMAIN rows -> Seq(Names)],
           NEW names, NEW templates, Extended(templates, draft.templates, names),
           Len(templates) <= MaxTemplates, \A name \in Elements(names) : ~Editor!is_baseline_name(name),
           NEW new,
           new = [baseline |-> draft.baseline, templates |-> templates, assignments |-> rows],
           Editor!Edit(new)
    PROVE  EditorInv' /\ NoNewBaseline
<1>1. templates \in Seq(Editor!Template) /\ draft.baseline \in Seq(Editor!Rule)
  BY DraftParts, BundleParts DEF Extended
<1>2. Editor!IsBundle(new) /\ new.baseline = draft.baseline /\ new.templates = templates
  BY <1>1, MadeBundle
<1>3. EditsTo(new)
  BY <1>2, TemplatesAdded
<1>. QED  BY <1>3, EditIsKept

LEMMA SameTemplates ==
    ASSUME EditorInv
    PROVE  /\ Extended(draft.templates, draft.templates, <<>>)
           /\ Len(draft.templates) <= MaxTemplates /\ Elements(<<>>) = {}
<1>1. draft.templates \in Seq(Editor!Template) /\ Len(draft.templates) \in Nat
  BY DraftParts, BundleParts
<1>2. Elements(<<>>) = {}
  BY DEF Elements
<1>3. Extended(draft.templates, draft.templates, <<>>)
  BY <1>1 DEF Extended
<1>. QED  BY <1>2, <1>3, DraftParts

LEMMA RowAdded ==
    ASSUME EditorInv, NEW host \in NamedHosts, Editor!on_add_assignment_clicked(host)
    PROVE  EditorInv' /\ NoNewBaseline
<1>. DEFINE old == draft.assignments
            rows == [h \in DOMAIN old \cup {host} |-> IF h \in DOMAIN old THEN old[h] ELSE <<>>]
            new == [draft EXCEPT !.assignments = rows]
<1>1. Editor!Edit(new)
  BY DEF Editor!on_add_assignment_clicked, Editor!Assigned
<1>2. DOMAIN old \subseteq NamedHosts /\ old \in [DOMAIN old -> Seq(Names)]
  BY DraftParts
<1>. HIDE DEF old
<1>3. DOMAIN rows \subseteq NamedHosts /\ rows \in [DOMAIN rows -> Seq(Names)]
  <2>1. DOMAIN rows = DOMAIN old \cup {host}
    OBVIOUS
  <2>2. \A h \in DOMAIN rows : rows[h] \in Seq(Names)
    BY <1>2
  <2>. QED  BY <1>2, <2>1, <2>2
<1>. HIDE DEF rows
<1>4. new = [baseline |-> draft.baseline, templates |-> draft.templates, assignments |-> rows]
  BY DraftParts
<1>. HIDE DEF new
<1>. QED  BY <1>1, <1>3, <1>4, SameTemplates, RowsEdited

LEMMA RowRemoved ==
    ASSUME EditorInv, NEW host \in NamedHosts, Editor!on_remove_assignment_clicked(host)
    PROVE  EditorInv' /\ NoNewBaseline
<1>. DEFINE old == draft.assignments
            rows == [h \in DOMAIN old \ {host} |-> old[h]]
            new == [draft EXCEPT !.assignments = rows]
<1>1. Editor!Edit(new)
  BY DEF Editor!on_remove_assignment_clicked, Editor!Assigned
<1>2. DOMAIN old \subseteq NamedHosts /\ old \in [DOMAIN old -> Seq(Names)]
  BY DraftParts
<1>. HIDE DEF old
<1>3. DOMAIN rows \subseteq NamedHosts /\ rows \in [DOMAIN rows -> Seq(Names)]
  BY <1>2
<1>. HIDE DEF rows
<1>4. new = [baseline |-> draft.baseline, templates |-> draft.templates, assignments |-> rows]
  BY DraftParts
<1>. HIDE DEF new
<1>. QED  BY <1>1, <1>3, <1>4, SameTemplates, RowsEdited

(* A row is moved: there are as many rows as before, and the others are as they were. *)
LEMMA MovedRow ==
    ASSUME EditorInv, NEW host \in NamedHosts, NEW after \in NamedHosts,
           Editor!on_assignment_cell_changed(host, after)
    PROVE  LET old == draft.assignments
               rows == [h \in (DOMAIN old \ {host}) \cup {after} |->
                           IF h = after THEN old[host] ELSE old[h]]
           IN  /\ Editor!Edit([draft EXCEPT !.assignments = rows])
               /\ host \in DOMAIN old /\ after \notin DOMAIN old
               /\ DOMAIN rows \subseteq NamedHosts /\ rows \in [DOMAIN rows -> Seq(Names)]
               /\ \A other \in DOMAIN old \ {host} : rows[other] = old[other]
               /\ [draft EXCEPT !.assignments = rows]
                     = [baseline |-> draft.baseline, templates |-> draft.templates,
                        assignments |-> rows]
<1>. DEFINE old == draft.assignments
            rows == [h \in (DOMAIN old \ {host}) \cup {after} |->
                        IF h = after THEN old[host] ELSE old[h]]
            new == [draft EXCEPT !.assignments = rows]
<1>1. Editor!Edit(new) /\ host \in DOMAIN old /\ after \notin DOMAIN old
  BY DEF Editor!on_assignment_cell_changed, Editor!Assigned
<1>2. DOMAIN old \subseteq NamedHosts /\ old \in [DOMAIN old -> Seq(Names)]
  BY DraftParts
<1>. HIDE DEF old
<1>3. DOMAIN rows = (DOMAIN old \ {host}) \cup {after}
  OBVIOUS
<1>4. \A h \in DOMAIN rows : rows[h] \in Seq(Names)
  BY <1>1, <1>2
<1>5. DOMAIN rows \subseteq NamedHosts /\ rows \in [DOMAIN rows -> Seq(Names)]
  BY <1>2, <1>3, <1>4
<1>6. \A other \in DOMAIN old \ {host} : rows[other] = old[other]
  BY <1>1
<1>. HIDE DEF rows
<1>7. new = [baseline |-> draft.baseline, templates |-> draft.templates, assignments |-> rows]
  BY DraftParts
<1>. QED  BY <1>1, <1>5, <1>6, <1>7 DEF old, rows

LEMMA RowMoved ==
    ASSUME EditorInv, NEW host \in NamedHosts, NEW after \in NamedHosts,
           Editor!on_assignment_cell_changed(host, after)
    PROVE  EditorInv' /\ NoNewBaseline
<1>. DEFINE old == draft.assignments
            rows == [h \in (DOMAIN old \ {host}) \cup {after} |->
                        IF h = after THEN old[host] ELSE old[h]]
            new == [draft EXCEPT !.assignments = rows]
<1>1. /\ Editor!Edit(new)
      /\ DOMAIN rows \subseteq NamedHosts /\ rows \in [DOMAIN rows -> Seq(Names)]
      /\ new = [baseline |-> draft.baseline, templates |-> draft.templates, assignments |-> rows]
  BY MovedRow
<1>. HIDE DEF new, rows
<1>. QED  BY <1>1, SameTemplates, RowsEdited

LEMMA RowsStay ==
    ASSUME EditorInv, NEW host \in NamedHosts, NEW after \in NamedHosts,
           Editor!on_assignment_cell_changed(host, after)
    PROVE  /\ Editor!Cardinality(DOMAIN draft'.assignments) = Editor!Cardinality(Editor!Assigned)
           /\ \A other \in Editor!Assigned \ {host} :
                 draft'.assignments[other] = draft.assignments[other]
<1>. DEFINE old == draft.assignments
            rows == [h \in (DOMAIN old \ {host}) \cup {after} |->
                        IF h = after THEN old[host] ELSE old[h]]
            new == [draft EXCEPT !.assignments = rows]
<1>1. /\ Editor!Edit(new) /\ host \in DOMAIN old /\ after \notin DOMAIN old
      /\ \A other \in DOMAIN old \ {host} : rows[other] = old[other]
      /\ new = [baseline |-> draft.baseline, templates |-> draft.templates, assignments |-> rows]
  BY MovedRow
<1>2. DOMAIN rows = (DOMAIN old \ {host}) \cup {after}
  OBVIOUS
<1>3. IsFiniteSet(DOMAIN old)
  <2>1. DOMAIN old \subseteq NamedHosts
    BY DraftParts
  <2>2. IsFiniteSet(NamedHosts)
    BY EditorAssumption DEF Editor!EditorAssumption, IsFiniteSet, Editor!IsFiniteSet
  <2>. QED  BY <2>1, <2>2, FS_Subset
<1>. HIDE DEF old, rows
<1>4. draft'.assignments = rows
  <2>1. new.assignments = rows
    BY <1>1
  <2>2. draft' = new
    BY <1>1 DEF Editor!Edit
  <2>. QED  BY <2>1, <2>2
<1>. HIDE DEF new
<1>5. Cardinality((DOMAIN old \ {host}) \cup {after}) = Cardinality(DOMAIN old)
  <2>. DEFINE others == DOMAIN old \ {host}
  <2>1. IsFiniteSet(others) /\ Cardinality(others) = Cardinality(DOMAIN old) - 1
    BY <1>1, <1>3, FS_RemoveElement
  <2>2. Cardinality(others \cup {after}) = Cardinality(others) + 1
    <3>1. after \notin others
      BY <1>1
    <3>. HIDE DEF others
    <3>. QED  BY <2>1, <3>1, FS_AddElement
  <2>3. Cardinality(DOMAIN old) \in Nat
    BY <1>3, FS_CardinalityType
  <2>. QED  BY <2>1, <2>2, <2>3
<1>. QED  BY <1>1, <1>2, <1>4, <1>5, SameCount DEF Editor!Assigned, old

(* The chips of a row change: the reserved name is dropped, and a template *)
(* is made of each name that has none.                                     *)
LEMMA TokensChanged ==
    ASSUME EditorInv, NEW host \in Editor!Assigned, NEW tokens \in Seq(Names),
           Editor!on_assignment_tokens_changed(host, tokens)
    PROVE  EditorInv' /\ NoNewBaseline
<1>. DEFINE set == {name \in Names : ~Editor!is_baseline_name(name)}
            accepted == Editor!kept(tokens, set)
            templates == Editor!created(draft.templates, accepted)
            rows == [draft.assignments EXCEPT ![host] = accepted]
            new == [draft EXCEPT !.templates = templates, !.assignments[host] = accepted]
<1>1. Len(templates) <= MaxTemplates /\ Editor!Edit(new)
  BY DEF Editor!on_assignment_tokens_changed
<1>2. accepted \in Seq(Names) /\ \A name \in Elements(accepted) : ~Editor!is_baseline_name(name)
  <2>. HIDE DEF set, accepted
  <2>1. accepted \in Seq(Names) /\ \E m : KeptFrom(accepted, tokens, set, m)
    BY Kept DEF accepted
  <2>2. \A i \in 1 .. Len(accepted) : accepted[i] \in set
    BY <2>1 DEF KeptFrom
  <2>3. DOMAIN accepted = 1 .. Len(accepted)
    BY <2>1
  <2>. QED  BY <2>1, <2>2, <2>3 DEF Elements, set
<1>. HIDE DEF accepted
<1>3. Extended(templates, draft.templates, accepted)
  BY <1>2, DraftParts, BundleParts, Created
<1>. HIDE DEF templates
<1>4. new = [baseline |-> draft.baseline, templates |-> templates, assignments |-> rows]
  <2>1. new = [draft EXCEPT !.templates = templates, !.assignments = rows]
    OBVIOUS
  <2>2. draft = [baseline |-> draft.baseline, templates |-> draft.templates,
                 assignments |-> draft.assignments]
    BY DraftParts
  <2>. HIDE DEF new, rows
  <2>. QED  BY <2>1, <2>2
<1>5. DOMAIN rows \subseteq NamedHosts /\ rows \in [DOMAIN rows -> Seq(Names)]
  BY <1>2, DraftParts
<1>. HIDE DEF rows, new
<1>. QED  BY <1>1, <1>2, <1>3, <1>4, <1>5, RowsEdited

LEMMA TokenAdded ==
    ASSUME EditorInv, NEW host \in NamedHosts, NEW name \in Names, Editor!add_token(host, name)
    PROVE  EditorInv' /\ NoNewBaseline
<1>1. /\ host \in Editor!Assigned
      /\ Editor!on_assignment_tokens_changed(host, Append(draft.assignments[host], name))
  BY DEF Editor!add_token
<1>2. draft.assignments[host] \in Seq(Names)
  BY <1>1, DraftParts, BundleParts DEF Editor!Assigned
<1>3. Append(draft.assignments[host], name) \in Seq(Names)
  BY <1>2
<1>. QED  BY <1>1, <1>3, TokensChanged

LEMMA TokenRemoved ==
    ASSUME EditorInv, NEW host \in NamedHosts, NEW name \in Names, Editor!remove_token(host, name)
    PROVE  EditorInv' /\ NoNewBaseline
<1>1. /\ host \in Editor!Assigned
      /\ Editor!on_assignment_tokens_changed(
            host, Editor!kept(draft.assignments[host], Names \ {name}))
  BY DEF Editor!remove_token
<1>2. draft.assignments[host] \in Seq(Names)
  BY <1>1, DraftParts, BundleParts DEF Editor!Assigned
<1>3. Editor!kept(draft.assignments[host], Names \ {name}) \in Seq(Names)
  BY <1>2, Kept
<1>. QED  BY <1>1, <1>3, TokensChanged

-----------------------------------------------------------------------------
LEMMA EditorInit == Init => EditorInv
<1>. SUFFICES ASSUME Init PROVE EditorInv
  OBVIOUS
<1>. DEFINE none == Editor!NoTemplates
<1>1. loaded = FALSE /\ draft = none /\ published = none /\ publications = 0 /\ button = FALSE
  BY DEF Init, Editor!Init
<1>2. /\ none.baseline = <<>> /\ none.templates = <<>> /\ DOMAIN none.assignments = {}
      /\ Editor!IsBundle(none)
  <2>1. none = [baseline |-> <<>>, templates |-> <<>>, assignments |-> [h \in {} |-> <<>>]]
    BY DEF Editor!NoTemplates
  <2>. DEFINE rows == [h \in {} |-> <<>>]
              empty == <<>>
  <2>2. DOMAIN rows = {} /\ rows \in [{} -> Seq(Names)]
    OBVIOUS
  <2>3. empty \in Seq(Editor!Rule) /\ empty \in Seq(Editor!Template)
    OBVIOUS
  <2>. HIDE DEF rows, none, empty
  <2>4. /\ Editor!IsBundle(none) /\ none.baseline = empty /\ none.templates = empty
        /\ none.assignments = rows
    <3>1. none = [baseline |-> empty, templates |-> empty, assignments |-> rows]
      BY <2>1 DEF rows, empty
    <3>2. DOMAIN rows \subseteq NamedHosts /\ rows \in [DOMAIN rows -> Seq(Names)]
      BY <2>2
    <3>. QED  BY <2>3, <3>1, <3>2, MadeBundle
  <2>. QED  BY <2>2, <2>4 DEF empty
<1>3. MaxTemplates \in Nat /\ MaxPublished \in Nat
  BY EditorAssumption DEF Editor!EditorAssumption
<1>. HIDE DEF none
<1>4. Places(none) = {0} /\ Editor!RulesIn(none, 0) = <<>>
  BY <1>2 DEF Places, Editor!RulesIn, Editor!Baseline
<1>5. Sound(none)
  <2>1. OneEach(none)
    BY <1>4 DEF OneEach
  <2>2. Editor!SecondIsEmpty(none)
    BY <1>2 DEF Editor!SecondIsEmpty
  <2>. QED  BY <1>2, <2>1, <2>2 DEF Sound
<1>6. Editor!TypeOK
  <2>1. Len(draft.templates) <= MaxTemplates
    BY <1>1, <1>2, <1>3
  <2>2. Editor!IsBundle(draft) /\ Editor!IsBundle(published)
    BY <1>1, <1>2
  <2>3. 0 \in 0 .. MaxPublished
    BY <1>3
  <2>4. publications \in 0 .. MaxPublished
    BY <1>1, <2>3
  <2>5. loaded \in BOOLEAN /\ button \in BOOLEAN
    BY <1>1
  <2>. QED  BY <2>1, <2>2, <2>4, <2>5 DEF Editor!TypeOK
<1>. QED  BY <1>1, <1>5, <1>6 DEF EditorInv, Editor!OfferedMeansChanged

LEMMA BundleLoaded ==
    ASSUME EditorInv, Editor!load_config
    PROVE  EditorInv'
<1>1. /\ ~loaded /\ loaded' = TRUE /\ publications' = publications /\ button' = button
  BY DEF Editor!load_config
<1>2. PICK bundle \in Bundles :
         published' = bundle /\ draft' = Editor!deduplicate_rule_ids(bundle)
  BY DEF Editor!load_config
<1>3. /\ Editor!IsBundle(bundle) /\ Len(bundle.templates) <= MaxTemplates
      /\ Editor!SecondIsEmpty(bundle)
  BY EditorAssumption DEF Editor!EditorAssumption
<1>4. Sound(draft') /\ Len(draft'.templates) <= MaxTemplates
  BY <1>2, <1>3, Deduplicated DEF Sound
<1>5. button = FALSE
  BY <1>1 DEF EditorInv, Editor!TypeOK
<1>6. Editor!TypeOK'
  <2>1. Editor!IsBundle(draft') /\ Editor!IsBundle(published')
    BY <1>2, <1>3, <1>4 DEF Sound
  <2>2. publications' \in 0 .. MaxPublished
    BY <1>1 DEF EditorInv, Editor!TypeOK
  <2>. QED  BY <1>1, <1>4, <1>5, <2>1, <2>2 DEF Editor!TypeOK
<1>. QED  BY <1>1, <1>4, <1>5, <1>6 DEF EditorInv, Editor!OfferedMeansChanged

LEMMA DraftPublished ==
    ASSUME EditorInv, Editor!publish
    PROVE  EditorInv' /\ draft' = draft
<1>1. /\ loaded /\ publications < MaxPublished /\ published' = draft
      /\ publications' = publications + 1 /\ button' = FALSE
      /\ loaded' = loaded /\ draft' = draft
  BY DEF Editor!publish
<1>2. Editor!TypeOK /\ Sound(draft) /\ MaxPublished \in Nat
  BY EditorAssumption DEF EditorInv, Editor!EditorAssumption
<1>3. publications' \in 0 .. MaxPublished
  BY <1>1, <1>2 DEF Editor!TypeOK
<1>4. Editor!TypeOK'
  BY <1>1, <1>2, <1>3 DEF Editor!TypeOK
<1>5. Sound(draft')
  BY <1>1, <1>2
<1>. QED  BY <1>1, <1>4, <1>5 DEF EditorInv, Editor!OfferedMeansChanged

LEMMA EditorMoves == [Next]_vars => Editor!Next \/ UNCHANGED template_editor
  BY Zenon DEF Next, vars

LEMMA EditorStep ==
    ASSUME EditorInv, Editor!Next
    PROVE  EditorInv' /\ (loaded => NoNewBaseline)
<1>1. CASE Editor!load_config
  <2>1. ~loaded
    BY <1>1 DEF Editor!load_config
  <2>. QED  BY <1>1, <2>1, BundleLoaded
<1>2. CASE Editor!TemplateStep
  <2>1. PICK name \in Names :
           Editor!on_add_template_clicked(name) \/ Editor!on_remove_template_clicked(name)
    BY <1>2 DEF Editor!TemplateStep
  <2>. QED  BY <2>1, TemplateAdded, TemplateRemoved
<1>3. CASE Editor!RuleStep
  <2>1. PICK t \in Editor!selected_template, about \in RuleTargets, says \in Sayings :
           \/ Editor!on_add_rule_clicked(t, about, says)
           \/ \E at \in DOMAIN Editor!RulesOf(t) :
                 \/ Editor!on_edit_rule_clicked(t, at, about, says)
                 \/ Editor!on_remove_rule_clicked(t, at)
    BY <1>3 DEF Editor!RuleStep
  <2>. QED  BY <2>1, RuleAdded, RuleEdited, RuleRemoved
<1>4. CASE Editor!AssignmentStep
  <2>1. PICK host \in NamedHosts :
           \/ Editor!on_add_assignment_clicked(host)
           \/ Editor!on_remove_assignment_clicked(host)
           \/ \E after \in NamedHosts : Editor!on_assignment_cell_changed(host, after)
           \/ \E name \in Names : Editor!add_token(host, name) \/ Editor!remove_token(host, name)
    BY <1>4 DEF Editor!AssignmentStep
  <2>. QED  BY <2>1, RowAdded, RowRemoved, RowMoved, TokenAdded, TokenRemoved
<1>5. CASE Editor!publish
  <2>1. EditorInv' /\ draft' = draft
    BY <1>5, DraftPublished
  <2>. QED  BY <2>1 DEF NoNewBaseline, Editor!TemplateNames
<1>. QED  BY <1>1, <1>2, <1>3, <1>4, <1>5 DEF Editor!Next

LEMMA EditorStutters == EditorInv /\ UNCHANGED template_editor => EditorInv'
  BY DEF EditorInv, template_editor, Editor!TypeOK, Editor!OfferedMeansChanged, Editor!can_publish

(* Whatever bundle is loaded and whatever is edited: the rules of the      *)
(* draft have ids of their own, so that a host is checked against each     *)
(* that its row names, no template that reads as the baseline is made, a   *)
(* row that is moved leaves the others, and Publish is offered for a draft *)
(* that differs (template_bundle.cpp, fleet_window.cpp).                   *)
THEOREM TemplatesAreSound == Spec => TemplatesAreKept
<1>1. Init => EditorInv
  BY EditorInit
<1>2. EditorInv /\ [Next]_vars => EditorInv'
  BY EditorMoves, EditorStep, EditorStutters
<1>3. EditorInv => /\ Editor!TypeOK /\ Editor!IdsUnique /\ Editor!NothingDropped
                   /\ Editor!OfferedMeansChanged
  BY IdsAreUnique, NothingIsDropped DEF EditorInv, Sound
<1>4. EditorInv /\ [Next]_vars =>
        [loaded => \A name \in Editor!TemplateNames' \ Editor!TemplateNames :
                      ~Editor!is_baseline_name(name)]_Editor!vars
  <2>1. UNCHANGED template_editor => UNCHANGED Editor!vars
    BY DEF template_editor, Editor!vars
  <2>. QED  BY <2>1, EditorMoves, EditorStep DEF NoNewBaseline
<1>5. EditorInv =>
        [\A host \in NamedHosts :
            (\E after \in NamedHosts : Editor!on_assignment_cell_changed(host, after)) =>
                /\ Editor!Cardinality(DOMAIN draft'.assignments) = Editor!Cardinality(Editor!Assigned)
                /\ \A other \in Editor!Assigned \ {host} :
                      draft'.assignments[other] = draft.assignments[other]]_Editor!vars
  BY RowsStay
<1>. QED
  BY <1>1, <1>2, <1>3, <1>4, <1>5, PTL
  DEF Spec, TemplatesAreKept, Editor!BaselineIsAlone, Editor!RowsAreIndependent
=============================================================================
