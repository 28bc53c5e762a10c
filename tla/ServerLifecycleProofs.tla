------------------------ MODULE ServerLifecycleProofs ------------------------
(***************************************************************************)
(* Proofs about CompileService and ServerLifecycle, for any number of      *)
(* requests, peers, slots, rounds and passes.                              *)
(*                                                                         *)
(* Compile requests come first.  All but the slots is a statement of one   *)
(* request, Sound(r), that an action of another request leaves alone.      *)
(* Then the whole server, which is an environment of its compile requests: *)
(* every step of it is a step of CompileService or leaves its variables    *)
(* alone, so what is shown of a compilation holds in the whole server.     *)
(***************************************************************************)
EXTENDS ServerLifecycle, FiniteSetTheorems, TLAPS

-----------------------------------------------------------------------------
(* The parts of the invariant. *)

\* What DeadlineHeard, StopIsFinal, NothingLeft and RoundLeft say of one request.
Sound(r) ==
  /\ inner[r] => child[r] # "running"
  /\ child[r] = "term" => killer[r] /\ failure[r] # "none"
  /\ child[r] # "none" <=> pc[r] = "run"
  /\ killer[r] => child[r] # "none"
  /\ relay[r] \/ timer[r] => pc[r] \in Guarded
  /\ pc[r] \in Guarded => timer[r] \/ inner[r]
  /\ pc[r] = "resolve" => round[r] < MaxRound

\* The invariant but for the slots says something of each request by itself.
LEMMA InvariantParts ==
  IInv <=> TypeOK /\ SlotsHeld /\ \A r \in Request : Sound(r)
  BY DEF IInv, DeadlineHeard, StopIsFinal, NothingLeft, RoundLeft, Sound

\* So it does of the next state.
LEMMA InvariantPartsNext ==
  TypeOK' /\ SlotsHeld' /\ (\A r \in Request : Sound(r)') => IInv'
  BY DEF IInv, DeadlineHeard, StopIsFinal, NothingLeft, RoundLeft, Sound

\* A request whose variables do not change stays sound.
LEMMA ElsewhereSound ==
  ASSUME NEW s \in Request, Sound(s),
         pc'[s] = pc[s], relay'[s] = relay[s], inner'[s] = inner[s], timer'[s] = timer[s],
         child'[s] = child[s], failure'[s] = failure[s], killer'[s] = killer[s],
         round'[s] = round[s]
  PROVE  Sound(s)'
  BY DEF Sound

\* A step of r that changes nothing of another request keeps that one sound.
LEMMA StepSound ==
  ASSUME IInv, NEW r \in Request, Sound(r)',
         \A s \in Request : s # r =>
           /\ pc'[s] = pc[s] /\ relay'[s] = relay[s] /\ inner'[s] = inner[s]
           /\ timer'[s] = timer[s] /\ child'[s] = child[s] /\ failure'[s] = failure[s]
           /\ killer'[s] = killer[s] /\ round'[s] = round[s]
  PROVE  \A s \in Request : Sound(s)'
  <1> SUFFICES ASSUME NEW s \in Request, s # r
               PROVE  Sound(s)'
    OBVIOUS
  <1>1. Sound(s)
    BY InvariantParts
  <1> QED
    BY <1>1, ElsewhereSound

\* A step that admits nobody and lets nobody go keeps the slots.
LEMMA SlotsKept ==
  ASSUME SlotsHeld, active' = active,
         \A s \in Request : pc'[s] = "idle" <=> pc[s] = "idle"
  PROVE  SlotsHeld'
  BY DEF SlotsHeld

-----------------------------------------------------------------------------
(* Slots taken and given back. *)

\* No request has come at first.
LEMMA InitKeeps ==
  ASSUME Init
  PROVE  IInv
  <1>1. TypeOK
    <2>1. 0 \in 0..MaxRound /\ 0 \in 0..MaxPass
      BY ServiceAssumption
    <2> QED
      BY <2>1 DEF Init, TypeOK
  <1>2. SlotsHeld
    BY ServiceAssumption, FS_EmptySet DEF Init, SlotsHeld
  <1>3. \A r \in Request : Sound(r)
    BY DEF Init, Sound, Guarded
  <1> QED
    BY <1>1, <1>2, <1>3, InvariantParts

\* A request that is admitted had no slot, and there was one.
LEMMA AdmitKeeps ==
  ASSUME IInv, NEW r \in Request, Admit(r)
  PROVE  IInv'
  <1> USE DEF controls, process, progress
  <1>1. TypeOK'
    BY DEF IInv, TypeOK, Admit, GoTo
  <1>2. SlotsHeld'
    <2>1. r \notin active /\ active \subseteq Request /\ Cardinality(active) < MaxActive
      BY DEF IInv, SlotsHeld, TypeOK, Admit
    <2>2. IsFiniteSet(active) /\ Cardinality(active) \in Nat
      BY <2>1, ServiceAssumption, FS_Subset, FS_CardinalityType
    <2>3. Cardinality(active') = Cardinality(active) + 1
      BY <2>1, <2>2, FS_AddElement DEF Admit
    <2>4. active' = {s \in Request : pc'[s] # "idle"}
      BY DEF IInv, SlotsHeld, TypeOK, Admit, GoTo
    <2>5. Cardinality(active') <= MaxActive
      BY <2>1, <2>2, <2>3, ServiceAssumption
    <2> QED
      BY <2>4, <2>5 DEF SlotsHeld
  <1>3. Sound(r)
    BY InvariantParts
  <1>4. Sound(r)'
    BY <1>3 DEF Sound, Guarded, Admit, GoTo, IInv, TypeOK
  <1>5. \A s \in Request : Sound(s)'
    BY <1>4, StepSound DEF Admit, GoTo, IInv, TypeOK
  <1> QED
    BY <1>1, <1>2, <1>5, InvariantPartsNext

\* A request that has nothing left to clean up leaves.
LEMMA LeaveKeeps ==
  ASSUME IInv, NEW r \in Request, pc[r] \in {"probe", "mkdtemp", "rm"}, Leave(r)
  PROVE  IInv'
  <1> USE DEF Leave, Forget, GoTo, Answer
  <1>1. TypeOK'
    BY ServiceAssumption DEF IInv, TypeOK
  <1>2. SlotsHeld'
    <2>1. active \subseteq Request /\ Cardinality(active) <= MaxActive /\ r \in active
      BY DEF IInv, SlotsHeld, TypeOK
    <2>2. IsFiniteSet(active) /\ Cardinality(active) \in Nat
      BY <2>1, ServiceAssumption, FS_Subset, FS_CardinalityType
    <2>3. Cardinality(active') = Cardinality(active) - 1
      BY <2>1, <2>2, FS_RemoveElement
    <2>4. active' = {s \in Request : pc'[s] # "idle"}
      BY DEF IInv, SlotsHeld, TypeOK
    <2>5. Cardinality(active') <= MaxActive
      BY <2>1, <2>2, <2>3, ServiceAssumption
    <2> QED
      BY <2>4, <2>5 DEF SlotsHeld
  <1>3. Sound(r)
    BY InvariantParts
  <1>4. Sound(r)'
    BY <1>3 DEF Sound, Guarded, IInv, TypeOK
  <1>5. \A s \in Request : Sound(s)'
    BY <1>4, StepSound DEF IInv, TypeOK
  <1> QED
    BY <1>1, <1>2, <1>5, InvariantPartsNext

-----------------------------------------------------------------------------
(* The awaits of a compilation. *)

\* An await after which the compilation goes on, with no process under way.
LEMMA OnwardKeeps ==
  ASSUME IInv, NEW r \in Request,
         Probed(r) \/ Mkdtemp(r) \/ Written(r) \/ ToolFound(r) \/ Resolved(r)
  PROVE  IInv'
  <1> USE DEF Probed, Mkdtemp, Written, ToolFound, Resolved, GoTo, admission, controls,
              process, progress
  <1>1. TypeOK'
    <2>1. pass' \in [Request -> 0..MaxPass]
      BY ServiceAssumption DEF IInv, TypeOK
    <2>2. round' \in [Request -> 0..MaxRound]
      BY ServiceAssumption DEF IInv, TypeOK, RoundLeft
    <2>3. pc' \in [Request -> {"idle", "probe", "mkdtemp", "rm"} \cup Guarded]
      BY DEF IInv, TypeOK, Guarded
    <2> QED
      BY <2>1, <2>2, <2>3 DEF IInv, TypeOK
  <1>2. SlotsHeld'
    BY SlotsKept DEF IInv, TypeOK
  <1>3. Sound(r)
    BY InvariantParts
  <1>4. Sound(r)'
    BY <1>3 DEF Sound, Guarded, IInv, TypeOK
  <1>5. \A s \in Request : Sound(s)'
    BY <1>4, StepSound DEF IInv, TypeOK
  <1> QED
    BY <1>1, <1>2, <1>5, InvariantPartsNext

\* The compilation ends in its finally block; a compiler it had is gone.
LEMMA FinallyKeeps ==
  ASSUME IInv, NEW r \in Request, Throws(r) \/ Collected(r) \/ Rejects(r)
  PROVE  IInv'
  <1> USE DEF Throws, Collected, Rejects, Gone, Finally, Output, GoTo, Answer,
              admission, process
  <1>1. PICK what \in {"failed", "ok", "timeout", "limit"} : Finally(r, what)
    BY DEF IInv, TypeOK
  <1>2. /\ UNCHANGED <<active, closing, outer, inner, failure, round, pass>>
        /\ \/ child[r] = "none" /\ UNCHANGED <<child, killer>>
           \/ Gone(r)
    <2>1. pc[r] # "run" => child[r] = "none"
      BY DEF IInv, NothingLeft
    <2> QED
      BY <2>1
  <1>3. TypeOK'
    BY <1>1, <1>2 DEF IInv, TypeOK
  <1>4. pc[r] # "idle"
    BY DEF IInv, NothingLeft
  <1>5. SlotsHeld'
    BY <1>1, <1>2, <1>4, SlotsKept DEF IInv, TypeOK
  <1>6. Sound(r)
    BY InvariantParts
  <1>7. Sound(r)'
    BY <1>1, <1>2, <1>6 DEF Sound, Guarded, IInv, TypeOK
  <1>8. \A s \in Request : Sound(s)'
    BY <1>1, <1>2, <1>7, StepSound DEF IInv, TypeOK
  <1> QED
    BY <1>3, <1>5, <1>8, InvariantPartsNext

-----------------------------------------------------------------------------
(* The process. *)

\* A compiler is started, stopped at once if the deadline is over, and exits.
LEMMA ProcessKeeps ==
  ASSUME IInv, NEW r \in Request, Spawn(r) \/ Succeeds(r) \/ Fails(r) \/ Flood(r) \/ KillTimer(r)
  PROVE  IInv'
  <1> USE DEF Spawn, Succeeds, Fails, Flood, KillTimer, Gone, GoTo, Answer, admission, controls,
              progress
  <1>1. TypeOK'
    <2>1. CASE Succeeds(r)
      <3>1. pass' \in [Request -> 0..MaxPass]
        BY <2>1, ServiceAssumption DEF IInv, TypeOK
      <3> QED
        BY <2>1, <3>1 DEF IInv, TypeOK, Guarded
    <2>2. CASE Spawn(r)
      BY <2>2 DEF IInv, TypeOK, Guarded
    <2>3. CASE Fails(r)
      BY <2>3 DEF IInv, TypeOK, Guarded
    <2>4. CASE Flood(r) \/ KillTimer(r)
      BY <2>4 DEF IInv, TypeOK
    <2> QED
      BY <2>1, <2>2, <2>3, <2>4
  <1>2. pc[r] # "idle"
    BY DEF IInv, NothingLeft
  <1>3. SlotsHeld'
    BY <1>2, SlotsKept DEF IInv, TypeOK
  <1>4. Sound(r)
    BY InvariantParts
  <1>5. Sound(r)'
    BY <1>4 DEF Sound, Guarded, IInv, TypeOK
  <1>6. \A s \in Request : Sound(s)'
    BY <1>5, StepSound DEF IInv, TypeOK
  <1> QED
    BY <1>1, <1>3, <1>6, InvariantPartsNext

\* stop() leaves no compiler of R without a signal and a failure.
LEMMA StopStops ==
  ASSUME IInv, NEW R \in SUBSET Request, Stop(R), NEW s \in Request
  PROVE  /\ s \in R => child'[s] # "running"
         /\ child'[s] # "none" <=> child[s] # "none"
         /\ child'[s] = "running" => child[s] = "running"
         /\ child'[s] = "term" => killer'[s] /\ failure'[s] # "none"
         /\ killer'[s] => child'[s] # "none"
  <1>1. /\ child[s] \in {"none", "running", "term", "kill"}
        /\ child[s] # "none" <=> pc[s] = "run"
        /\ child[s] = "term" => killer[s] /\ failure[s] # "none"
        /\ killer[s] => child[s] # "none"
    BY DEF IInv, TypeOK, NothingLeft, StopIsFinal
  <1> QED
    BY <1>1 DEF Stop

\* What stopping processes leaves of the types.
LEMMA StopType ==
  ASSUME TypeOK, NEW R \in SUBSET Request, Stop(R)
  PROVE  /\ child' \in [Request -> {"none", "running", "term", "kill"}]
         /\ failure' \in [Request -> {"none", "timeout", "limit"}]
         /\ killer' \in [Request -> BOOLEAN]
  BY DEF TypeOK, Stop

-----------------------------------------------------------------------------
(* The deadline and the shutdown. *)

\* The deadline of a request passes.
LEMMA DeadlineKeeps ==
  ASSUME IInv, NEW r \in Request, Deadline(r)
  PROVE  IInv'
  <1> DEFINE R == IF inner[r] THEN {} ELSE {r}
  <1>1. R \in SUBSET Request /\ Stop(R)
    BY DEF Deadline
  <1>2. /\ UNCHANGED <<active, closing, pc, outer, relay, round, pass, result>>
        /\ timer' = [timer EXCEPT ![r] = FALSE] /\ inner' = [inner EXCEPT ![r] = TRUE]
    BY DEF Deadline, admission, progress
  <1> HIDE DEF R
  <1>3. TypeOK'
    <2>1. TypeOK
      BY DEF IInv
    <2> QED
      BY <1>1, <1>2, <2>1, StopType DEF TypeOK
  <1>4. SlotsHeld'
    BY <1>2, SlotsKept DEF IInv
  <1>5. ASSUME NEW s \in Request
        PROVE  Sound(s)'
    <2>1. Sound(s)
      BY InvariantParts
    <2>2. inner'[s] => child'[s] # "running"
      <3>1. CASE s = r /\ ~inner[r]
        BY <3>1, <1>1, StopStops DEF R
      <3>2. CASE inner[s]
        BY <3>2, <1>1, <2>1, StopStops DEF Sound
      <3>3. CASE s # r /\ ~inner[s]
        BY <3>3, <1>2 DEF IInv, TypeOK
      <3> QED
        BY <3>1, <3>2, <3>3
    <2>3. /\ child'[s] # "none" <=> child[s] # "none"
          /\ child'[s] = "term" => killer'[s] /\ failure'[s] # "none"
          /\ killer'[s] => child'[s] # "none"
      BY <1>1, StopStops
    <2>4. /\ relay'[s] \/ timer'[s] => pc[s] \in Guarded
          /\ pc[s] \in Guarded => timer'[s] \/ inner'[s]
      BY <1>2, <2>1 DEF Sound, IInv, TypeOK
    <2> QED
      BY <1>2, <2>1, <2>2, <2>3, <2>4 DEF Sound
  <1> QED
    BY <1>3, <1>4, <1>5, InvariantPartsNext

\* A shutdown aborts the compilations it finds.
LEMMA ShutdownKeeps ==
  ASSUME IInv, Shutdown
  PROVE  IInv'
  <1> DEFINE heard == {r \in active : relay[r]}
             R == {r \in heard : ~inner[r]}
  <1>1. R \in SUBSET Request /\ heard \in SUBSET Request /\ Stop(R)
    BY DEF Shutdown, IInv, TypeOK
  <1>2. /\ UNCHANGED <<active, pc, timer, round, pass, result>> /\ closing' = TRUE
        /\ outer' = [r \in Request |-> outer[r] \/ r \in active]
        /\ inner' = [r \in Request |-> inner[r] \/ r \in heard]
        /\ relay' = [r \in Request |-> relay[r] /\ r \notin heard]
    BY DEF Shutdown, progress
  <1>3. \A s \in Request : s \in R <=> s \in heard /\ ~inner[s]
    OBVIOUS
  <1> HIDE DEF R, heard
  <1>4. TypeOK'
    <2>1. TypeOK
      BY DEF IInv
    <2> QED
      BY <1>1, <1>2, <2>1, StopType DEF TypeOK
  <1>5. SlotsHeld'
    BY <1>2, SlotsKept DEF IInv
  <1>6. ASSUME NEW s \in Request
        PROVE  Sound(s)'
    <2>1. Sound(s)
      BY InvariantParts
    <2>2. inner'[s] => child'[s] # "running"
      <3>1. CASE s \in R
        BY <3>1, <1>1, StopStops
      <3>2. CASE inner[s]
        BY <3>2, <1>1, <2>1, StopStops DEF Sound
      <3>3. CASE s \notin R /\ ~inner[s]
        BY <3>3, <1>2, <1>3
      <3> QED
        BY <3>1, <3>2, <3>3
    <2>3. /\ child'[s] # "none" <=> child[s] # "none"
          /\ child'[s] = "term" => killer'[s] /\ failure'[s] # "none"
          /\ killer'[s] => child'[s] # "none"
      BY <1>1, StopStops
    <2>4. /\ relay'[s] \/ timer'[s] => pc[s] \in Guarded
          /\ pc[s] \in Guarded => timer'[s] \/ inner'[s]
      BY <1>2, <2>1 DEF Sound, IInv, TypeOK
    <2> QED
      BY <1>2, <2>1, <2>2, <2>3, <2>4 DEF Sound
  <1> QED
    BY <1>4, <1>5, <1>6, InvariantPartsNext

-----------------------------------------------------------------------------
(* The theorems. *)

\* Every step of the compile requests keeps the invariant.
LEMMA NextKeeps ==
  ASSUME IInv, [Next]_vars
  PROVE  IInv'
  <1>1. ASSUME NEW r \in Request, Unavailable(r) \/ Removed(r)
        PROVE  IInv'
    BY <1>1, LeaveKeeps DEF Unavailable, Removed
  <1>2. CASE UNCHANGED vars
    BY <1>2 DEF vars, IInv, TypeOK, SlotsHeld, DeadlineHeard, StopIsFinal, NothingLeft, RoundLeft
  <1> QED
    BY <1>1, <1>2, AdmitKeeps, OnwardKeeps, FinallyKeeps, ProcessKeeps, DeadlineKeeps,
       ShutdownKeeps
    DEF Next, Await, Closes

\* The invariant, for any number of requests, slots, rounds and passes.
THEOREM Invariance == Spec => []IInv
  <1>1. Init => IInv
    BY InitKeeps
  <1>2. IInv /\ [Next]_vars => IInv'
    BY NextKeeps
  <1> QED
    BY <1>1, <1>2, PTL DEF Spec

\* A slot is held by a request in progress and by no other, however requests end
\* (server.ts:473-486).
THEOREM SlotsComeBack == Spec => []SlotsHeld
  BY Invariance, PTL DEF IInv

\* No await hides the deadline from the compiler (server.ts:613-615,
\* nativeProcess.ts:156).
THEOREM DeadlinesAreHeard == Spec => []DeadlineHeard
  BY Invariance, PTL DEF IInv

\* No compiler, timer or listener outlives its request, and none of them is
\* there before (compileProject's finally, nativeProcess.ts:160-166).
THEOREM NothingOutlivesRequest == Spec => []NothingLeft
  BY Invariance, PTL DEF IInv

\* A result that is, or may become, a success belongs to a compiler that nobody
\* stopped and that is gone.
Unstopped(r) ==
  result[r] \in {"built", "ok"} => pc[r] \in {"collect", "rm"} /\ failure[r] = "none"

AllUnstopped == \A r \in Request : Unstopped(r)

\* A step of one request leaves the others unstopped.
LEMMA UnstoppedElsewhere ==
  ASSUME NEW s \in Request, Unstopped(s),
         result'[s] = result[s], failure'[s] = failure[s], pc'[s] = pc[s]
  PROVE  Unstopped(s)'
  BY DEF Unstopped

\* Stopping compilers touches only requests that have no result yet.
LEMMA StopUnstopped ==
  ASSUME IInv, AllUnstopped, NEW R \in SUBSET Request, Stop(R),
         UNCHANGED <<pc, result>>
  PROVE  AllUnstopped'
  <1>1. ASSUME NEW s \in Request  PROVE  Unstopped(s)'
    <2>1. Unstopped(s)
      BY DEF AllUnstopped
    <2>2. pc[s] # "run" => failure'[s] = failure[s]
      BY DEF Stop
    <2> QED
      BY <2>1, <2>2 DEF Unstopped
  <1> QED
    BY <1>1 DEF AllUnstopped

\* A request gets a good result only from a compiler nobody stopped.
LEMMA RequestUnstopped ==
  ASSUME IInv, AllUnstopped, NEW r \in Request,
         Admit(r) \/ Await(r) \/ Flood(r) \/ KillTimer(r) \/ Closes(r)
  PROVE  AllUnstopped'
  <1> USE DEF TypeOK
  <1>0. TypeOK /\ (child[r] # "none" <=> pc[r] = "run")
    BY DEF IInv, NothingLeft
  <1>1. ASSUME NEW s \in Request, s # r  PROVE  Unstopped(s)'
    <2>1. Unstopped(s)
      BY DEF AllUnstopped
    <2>2. result'[s] = result[s] /\ failure'[s] = failure[s] /\ pc'[s] = pc[s]
      BY <1>0, <1>1
      DEF Admit, Await, Flood, KillTimer, Closes, Unavailable, Probed, Mkdtemp, Written,
          ToolFound, Throws, Spawn, Resolved, Collected, Removed, Rejects, Succeeds, Fails,
          Gone, Leave, Forget, Finally, GoTo, Answer, progress, process
    <2> QED
      BY <2>1, <2>2, UnstoppedElsewhere
  <1>2. Unstopped(r)
    BY DEF AllUnstopped
  <1>3. ASSUME Admit(r) \/ Probed(r) \/ Mkdtemp(r) \/ Written(r) \/ ToolFound(r)
               \/ Spawn(r) \/ Flood(r) \/ KillTimer(r) \/ Resolved(r)
        PROVE  Unstopped(r)'
    BY <1>0, <1>2, <1>3
    DEF Unstopped, Admit, Probed, Mkdtemp, Written, ToolFound, Spawn, Flood, KillTimer,
        Resolved, GoTo, progress, process
  <1>4. ASSUME Unavailable(r) \/ Removed(r)  PROVE  Unstopped(r)'
    BY <1>0, <1>4 DEF Unstopped, Unavailable, Removed, Leave, Forget, GoTo, Answer
  <1>5. ASSUME Throws(r) \/ Rejects(r) \/ Fails(r)  PROVE  Unstopped(r)'
    BY <1>0, <1>5 DEF Unstopped, Throws, Rejects, Fails, Gone, Finally, GoTo, Answer, process
  <1>6. ASSUME Succeeds(r)  PROVE  Unstopped(r)'
    BY <1>0, <1>2, <1>6 DEF Unstopped, Succeeds, Gone, GoTo, Answer
  <1>7. ASSUME Collected(r)  PROVE  Unstopped(r)'
    BY <1>0, <1>2, <1>7 DEF Unstopped, Collected, Output, Finally, GoTo, Answer, process
  <1>8. Unstopped(r)'
    BY <1>3, <1>4, <1>5, <1>6, <1>7 DEF Await, Closes
  <1> QED
    BY <1>1, <1>8 DEF AllUnstopped

\* Every step keeps that.
LEMMA NextUnstopped ==
  ASSUME IInv, AllUnstopped, [Next]_vars
  PROVE  AllUnstopped'
  <1>1. ASSUME NEW r \in Request, Deadline(r)  PROVE  AllUnstopped'
    <2>1. (IF inner[r] THEN {} ELSE {r}) \in SUBSET Request
      OBVIOUS
    <2> QED
      BY <1>1, <2>1, StopUnstopped DEF Deadline, progress
  <1>2. CASE Shutdown
    <2>1. {r \in {s \in active : relay[s]} : ~inner[r]} \in SUBSET Request
      BY DEF IInv, TypeOK
    <2> QED
      BY <1>2, <2>1, StopUnstopped DEF Shutdown, progress
  <1>3. CASE UNCHANGED vars
    BY <1>3 DEF vars, AllUnstopped, Unstopped
  <1> QED
    BY <1>1, <1>2, <1>3, RequestUnstopped DEF Next

\* A compilation that was stopped is no success, even if its compiler exited with
\* 0 before the signal came (nativeProcess.ts:168-171).
THEOREM StoppedFails == Spec => []StoppedIsNoSuccess
  <1>1. Init => AllUnstopped
    BY DEF Init, AllUnstopped, Unstopped
  <1>2. IInv /\ AllUnstopped /\ [Next]_vars => AllUnstopped'
    BY NextUnstopped
  <1>3. AllUnstopped => StoppedIsNoSuccess
    BY DEF AllUnstopped, Unstopped, StoppedIsNoSuccess
  <1> QED
    BY <1>1, <1>2, <1>3, Invariance, PTL DEF Spec

-----------------------------------------------------------------------------
(* The refinement. *)

\* A step of the server is one of the compile requests or leaves them alone.
LEMMA StepIsService ==
  ASSUME [ServerNext]_serverVars
  PROVE  [Next]_vars
  <1>1. ASSUME NEW r \in Request, Arrive(r) \/ Refuse(r) \/ Accept(r) \/ Work(r) \/ Abandon(r)
        PROVE  [Next]_vars
    BY <1>1 DEF Arrive, Refuse, Accept, Work, Abandon, Next
  <1>2. ASSUME NEW p \in Peer,
               Upgrade(p) \/ Upgraded(p) \/ UpgradeRefused(p)
               \/ SessionCloses(p) \/ SocketCloses(p) \/ SessionClosed(p)
        PROVE  UNCHANGED vars
    BY <1>2 DEF Upgrade, Upgraded, Open, UpgradeRefused, SessionCloses, SocketCloses,
                SessionClosed
  <1>3. CASE BeginShutdown
    BY <1>3 DEF BeginShutdown, Next
  <1>4. CASE ShutdownStep \/ Terminated \/ UNCHANGED serverVars
    BY <1>4 DEF ShutdownStep, SessionsEnded, SocketsEnded, ListenerClosed, Terminated,
                serverVars
  <1> QED
    BY <1>1, <1>2, <1>3, <1>4 DEF ServerNext

\* Compile requests behave in the server, its admission and its shutdown, as
\* CompileService says (handleRequest, shutdownTyprServer).
THEOREM ImplementsService == ServerSpec => Spec
  <1>1. ServerInit => Init
    BY DEF ServerInit
  <1>2. [ServerNext]_serverVars => [Next]_vars
    BY StepIsService
  <1> QED
    BY <1>1, <1>2, PTL DEF ServerSpec, Spec

-----------------------------------------------------------------------------
(* The invariant of the front end. *)

FrontInv == ServerTypeOK /\ LiveWithinLimit

\* The server starts with no peers and no requests.
LEMMA InitFront ==
  ASSUME ServerInit
  PROVE  FrontInv
  <1>1. ServerTypeOK
    BY DEF ServerInit, Init, ServerTypeOK
  <1>2. Cardinality(live) = 0
    BY FS_EmptySet DEF ServerInit
  <1>3. LiveWithinLimit
    BY <1>2, LifecycleAssumption DEF LiveWithinLimit
  <1> QED
    BY <1>1, <1>3 DEF FrontInv

\* Sets of peers are finite, and a smaller one has no more members.
LEMMA FewerPeers ==
  ASSUME NEW S \in SUBSET Peer, NEW T \in SUBSET S, Cardinality(S) <= MaxLive
  PROVE  Cardinality(T) <= MaxLive
  <1>1. IsFiniteSet(S)
    BY LifecycleAssumption, FS_Subset
  <1>2. Cardinality(T) <= Cardinality(S) /\ Cardinality(T) \in Nat /\ Cardinality(S) \in Nat
    BY <1>1, FS_Subset, FS_CardinalityType
  <1> QED
    BY <1>2, LifecycleAssumption

\* With a slot left there is room for one peer more.
LEMMA OnePeerMore ==
  ASSUME NEW S \in SUBSET Peer, NEW p \in Peer, Cardinality(S) < MaxLive
  PROVE  Cardinality(S \cup {p}) <= MaxLive
  <1>1. IsFiniteSet(S)
    BY LifecycleAssumption, FS_Subset
  <1>2. Cardinality(S) \in Nat
    BY <1>1, FS_CardinalityType
  <1>3. Cardinality(S \cup {p}) = Cardinality(S) \/ Cardinality(S \cup {p}) = Cardinality(S) + 1
    BY <1>1, FS_AddElement
  <1> QED
    BY <1>2, <1>3, LifecycleAssumption

\* What a step of the compilation of r does to the place of other requests.
LEMMA WorkPlaces ==
  ASSUME IInv, NEW r \in Request, Accept(r) \/ Work(r)
  PROVE  /\ closing' = closing
         /\ \A s \in Request \ {r} : pc'[s] = pc[s]
         /\ pc[r] = "idle" => Accept(r)
         /\ Accept(r) => pc'[r] # "idle"
  <1>0. TypeOK /\ NothingLeft
    BY DEF IInv
  <1>1. CASE Accept(r)
    BY <1>0, <1>1 DEF Accept, Admit, GoTo, TypeOK
  <1>2. CASE Work(r)
    <2>1. pc[r] # "idle"
      BY <1>0, <1>2
      DEF Work, Await, Flood, KillTimer, Closes, Deadline, Unavailable, Probed, Mkdtemp,
          Written, ToolFound, Throws, Spawn, Resolved, Collected, Removed, Rejects, Succeeds,
          Fails, Gone, NothingLeft, Guarded
    <2>2. closing' = closing
      BY <1>2
      DEF Work, Await, Flood, KillTimer, Closes, Deadline, Unavailable, Probed, Mkdtemp,
          Written, ToolFound, Throws, Spawn, Resolved, Collected, Removed, Rejects, Succeeds,
          Fails, Leave, Forget, admission
    <2>3. \A s \in Request \ {r} : pc'[s] = pc[s]
      BY <1>0, <1>2
      DEF Work, Await, Flood, KillTimer, Closes, Deadline, Unavailable, Probed, Mkdtemp,
          Written, ToolFound, Throws, Spawn, Resolved, Collected, Removed, Rejects, Succeeds,
          Fails, Leave, Forget, Finally, GoTo, TypeOK
    <2>4. Accept(r) => pc'[r] # "idle"
      BY <1>0 DEF Accept, Admit, GoTo, TypeOK
    <2> QED
      BY <2>1, <2>2, <2>3, <2>4
  <1> QED
    BY <1>1, <1>2

\* Steps of HTTP requests.
LEMMA RequestsKeep ==
  ASSUME IInv, FrontInv, NEW r \in Request,
         Arrive(r) \/ Refuse(r) \/ Accept(r) \/ Work(r) \/ Abandon(r)
  PROVE  FrontInv'
  <1> USE DEF FrontInv, ServerTypeOK, LiveWithinLimit, sessions, requests
  <1>1. CASE Arrive(r)
    BY <1>1 DEF Arrive, vars
  <1>2. CASE Refuse(r) \/ Abandon(r)
    BY <1>2 DEF Refuse, Abandon, vars
  <1>3. CASE Accept(r)
    <2>1. /\ closing' = closing /\ pc'[r] # "idle"
          /\ \A s \in Request \ {r} : pc'[s] = pc[s]
      BY <1>3, WorkPlaces
    <2> QED
      BY <1>3, <2>1 DEF Accept
  <1>4. CASE Work(r)
    <2>1. /\ closing' = closing
          /\ \A s \in Request \ {r} : pc'[s] = pc[s]
          /\ r \notin arrived
      <3>1. pc[r] = "idle" => Accept(r)
        BY <1>4, WorkPlaces
      <3>2. Accept(r) => pc'[r] # "idle" /\ arrived' # arrived
        BY <1>4, WorkPlaces DEF Accept
      <3> QED
        BY <1>4, <3>1, <3>2, WorkPlaces DEF Work
    <2> QED
      BY <1>4, <2>1 DEF Work
  <1> QED
    BY <1>1, <1>2, <1>3, <1>4

\* Steps of upgrades, live sessions and their sockets.
LEMMA SessionsKeep ==
  ASSUME FrontInv, NEW p \in Peer,
         Upgrade(p) \/ Upgraded(p) \/ UpgradeRefused(p)
         \/ SessionCloses(p) \/ SocketCloses(p) \/ SessionClosed(p)
  PROVE  FrontInv'
  <1> USE DEF FrontInv, ServerTypeOK, requests, sessions, vars
  <1>1. CASE Upgrade(p) \/ UpgradeRefused(p)
    BY <1>1 DEF Upgrade, UpgradeRefused, LiveWithinLimit, Listening
  <1>2. CASE Upgraded(p)
    <2>1. LiveWithinLimit'
      BY <1>2, OnePeerMore DEF Upgraded, Open, LiveWithinLimit
    <2> QED
      BY <1>2, <2>1 DEF Upgraded, Open
  <1>3. CASE SessionCloses(p) \/ SocketCloses(p)
    BY <1>3 DEF SessionCloses, SocketCloses, LiveWithinLimit
  <1>4. CASE SessionClosed(p)
    <2>1. LiveWithinLimit'
      BY <1>4, FewerPeers DEF SessionClosed, LiveWithinLimit
    <2> QED
      BY <1>4, <2>1 DEF SessionClosed
  <1> QED
    BY <1>1, <1>2, <1>3, <1>4

\* Steps of the shutdown.
LEMMA ShutdownKeepsFront ==
  ASSUME IInv, FrontInv, BeginShutdown \/ ShutdownStep \/ Terminated \/ UNCHANGED serverVars
  PROVE  FrontInv'
  <1> USE DEF FrontInv, ServerTypeOK, LiveWithinLimit, requests, sessions, vars
  <1>1. CASE BeginShutdown
    BY <1>1 DEF BeginShutdown, Shutdown, progress
  <1>2. CASE ShutdownStep
    BY <1>2 DEF ShutdownStep, SessionsEnded, SocketsEnded, ListenerClosed
  <1>3. CASE Terminated \/ UNCHANGED serverVars
    BY <1>3 DEF Terminated, serverVars
  <1> QED
    BY <1>1, <1>2, <1>3

\* Every step of the server keeps the invariant.
LEMMA FrontKeeps ==
  ASSUME IInv, FrontInv, [ServerNext]_serverVars
  PROVE  FrontInv'
  BY RequestsKeep, SessionsKeep, ShutdownKeepsFront DEF ServerNext

-----------------------------------------------------------------------------
(* The theorems. *)

\* The invariant of the whole server, for any number of requests, peers and slots.
THEOREM ServerInvariance == ServerSpec => []ServerInv
  <1>1. ServerInit => FrontInv
    BY InitFront
  <1>2. IInv /\ FrontInv /\ [ServerNext]_serverVars => FrontInv'
    BY FrontKeeps
  <1>3. IInv /\ FrontInv => ServerInv
    BY DEF FrontInv, ServerInv
  <1> QED
    BY <1>1, <1>2, <1>3, ImplementsService, Invariance, PTL DEF ServerSpec

\* The slots for live sessions are never overdrawn, whatever the authorizations
\* that are awaited meanwhile (server.ts:194-209).
THEOREM LiveSlotsHold == ServerSpec => []LiveWithinLimit
  BY ServerInvariance, PTL DEF ServerInv
==============================================================================
