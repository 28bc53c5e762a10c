---------------------------- MODULE CompileService ----------------------------
(***************************************************************************)
(* Compiling a project on request: POST /compile in handleRequest() and    *)
(* compileProject() of typr-server/server.ts, runLatexProject() of         *)
(* latexProject.ts and runNativeProcess() of nativeProcess.ts.             *)
(*                                                                         *)
(* A request takes one of a fixed number of slots, probes for a compiler,  *)
(* makes a temporary directory, writes the project, runs the compiler,     *)
(* lets TexPackageManager install what is missing and runs it again, reads *)
(* the result, removes the directory and gives the slot back.  Each of     *)
(* these awaits something, and between any two the deadline, a shutdown of *)
(* the server and other requests may come.  A compiler is a process group: *)
(* it may run for ever, exit with any code, print too much, and ignore     *)
(* SIGTERM, but not SIGKILL.                                               *)
(***************************************************************************)
EXTENDS Naturals, FiniteSets

CONSTANTS
  Request,    \* requests that may be in progress; each may be sent again
  MaxActive,  \* MAX_ACTIVE_COMPILATIONS
  MaxRound,   \* MAX_PACKAGE_RESOLUTION_ROUNDS
  MaxPass     \* pdflatex runs where there is no latexmk

ASSUME ServiceAssumption ==
  IsFiniteSet(Request) /\ MaxActive \in Nat /\ MaxRound \in Nat /\ MaxPass \in Nat \ {0}

VARIABLES
  active,   \* activeCompilations
  closing,  \* shutdownTyprServer() has aborted the compilations it found
  pc,       \* what each request awaits
  outer,    \* its AbortController in activeCompilations is aborted
  relay,    \* and an abort of it aborts the deadline
  inner,    \* its deadline is aborted
  timer,    \* the timer of the deadline is armed
  child,    \* its compiler: what signal its group has got
  failure,  \* of runNativeProcess
  killer,   \* killTimer is armed
  round,    \* packages were installed so many times
  pass,     \* runs of pdflatex, 0 with latexmk
  result    \* what it is answered

vars == <<active, closing, pc, outer, relay, inner, timer, child, failure, killer,
          round, pass, result>>
controls == <<outer, relay, inner, timer>>
process == <<child, failure, killer>>
admission == <<active, closing>>
progress == <<round, pass, result>>

\* Inside the "try" of compileProject.
Guarded == {"write", "tool", "env", "run", "resolve", "collect"}

Init ==
  /\ active = {} /\ closing = FALSE
  /\ pc = [r \in Request |-> "idle"]
  /\ outer = [r \in Request |-> FALSE] /\ relay = [r \in Request |-> FALSE]
  /\ inner = [r \in Request |-> FALSE] /\ timer = [r \in Request |-> FALSE]
  /\ child = [r \in Request |-> "none"]
  /\ failure = [r \in Request |-> "none"]
  /\ killer = [r \in Request |-> FALSE]
  /\ round = [r \in Request |-> 0] /\ pass = [r \in Request |-> 0]
  /\ result = [r \in Request |-> "none"]

GoTo(r, at) == pc' = [pc EXCEPT ![r] = at]
Answer(r, what) == result' = [result EXCEPT ![r] = what]

-----------------------------------------------------------------------------
(* Admission; a request that is invalid or finds no slot changes nothing. *)

Admit(r) ==
  /\ pc[r] = "idle"
  /\ Cardinality(active) < MaxActive
  /\ active' = active \cup {r}
  /\ GoTo(r, "probe")
  /\ UNCHANGED <<closing, controls, process, progress>>

\* The request is answered; its controllers and its variables are no more.
Forget(r) ==
  /\ GoTo(r, "idle") /\ Answer(r, "none")
  /\ outer' = [outer EXCEPT ![r] = FALSE] /\ inner' = [inner EXCEPT ![r] = FALSE]
  /\ failure' = [failure EXCEPT ![r] = "none"]
  /\ round' = [round EXCEPT ![r] = 0] /\ pass' = [pass EXCEPT ![r] = 0]
  /\ UNCHANGED <<closing, relay, timer, child, killer>>

\* Mutant: the slot is given back only after a compilation that succeeded.
LeaveOnSuccess(r) ==
  /\ active' = IF result[r] = "ok" THEN active \ {r} ELSE active
  /\ Forget(r)

\* The finally of handleRequest: the slot is free.
Leave(r) == active' = active \ {r} /\ Forget(r)

\* No compiler on this host, or no temporary directory: nothing to clean up.
Unavailable(r) ==
  /\ pc[r] \in {"probe", "mkdtemp"}
  /\ Leave(r)

Probed(r) ==
  /\ pc[r] = "probe"
  /\ GoTo(r, "mkdtemp")
  /\ UNCHANGED <<admission, controls, process, progress>>

\* The directory exists: the deadline starts, the listener is registered. An
\* abort that came before has been and gone.
Mkdtemp(r) ==
  /\ pc[r] = "mkdtemp"
  /\ GoTo(r, "write")
  /\ timer' = [timer EXCEPT ![r] = TRUE] /\ relay' = [relay EXCEPT ![r] = TRUE]
  /\ UNCHANGED <<admission, outer, inner, process, progress>>

\* materializeProjectFiles; then runLatexProjectOnce looks for latexmk.
Written(r) ==
  /\ pc[r] = "write"
  /\ GoTo(r, "tool")
  /\ UNCHANGED <<admission, controls, process, progress>>

\* latexmk was found, or else pdflatex has its first pass.
ToolFound(r) ==
  /\ pc[r] = "tool"
  /\ GoTo(r, "env")
  /\ \E first \in {0, 1} : pass' = [pass EXCEPT ![r] = first]
  /\ UNCHANGED <<admission, controls, process, round, result>>

\* Mutant: the timer of the deadline is left armed.
FinallyKeepsTimer(r, what) ==
  /\ GoTo(r, "rm") /\ Answer(r, what)
  /\ relay' = [relay EXCEPT ![r] = FALSE] /\ UNCHANGED timer

\* The finally of compileProject up to its await: timer and listener are gone.
Finally(r, what) ==
  /\ GoTo(r, "rm") /\ Answer(r, what)
  /\ timer' = [timer EXCEPT ![r] = FALSE] /\ relay' = [relay EXCEPT ![r] = FALSE]

\* Writing a file, preparing the environment or reading the output throws.
Throws(r) ==
  /\ pc[r] \in {"write", "env", "collect"}
  /\ Finally(r, "failed")
  /\ UNCHANGED <<admission, outer, inner, process, round, pass>>

-----------------------------------------------------------------------------
(* The compiler process. *)

\* Mutant: only an abort after the spawn is heard.
SpawnUnchecked(r) ==
  /\ pc[r] = "env"
  /\ GoTo(r, "run")
  /\ child' = [child EXCEPT ![r] = "running"]
  /\ failure' = [failure EXCEPT ![r] = "none"]
  /\ UNCHANGED <<admission, controls, killer, progress>>

\* spawn, and a deadline that has passed already stops what it started.
Spawn(r) ==
  /\ pc[r] = "env"
  /\ GoTo(r, "run")
  /\ child' = [child EXCEPT ![r] = IF inner[r] THEN "term" ELSE "running"]
  /\ failure' = [failure EXCEPT ![r] = IF inner[r] THEN "timeout" ELSE "none"]
  /\ killer' = [killer EXCEPT ![r] = inner[r]]
  /\ UNCHANGED <<admission, controls, progress>>

\* Mutant: SIGTERM, and no timer for what ignores it.
StopGently(R) ==
  LET S == {r \in R : pc[r] = "run" /\ child[r] # "none"}
  IN  /\ child' = [r \in Request |->
                     IF r \in S /\ child[r] = "running" THEN "term" ELSE child[r]]
      /\ failure' = [r \in Request |->
                       IF r \in S /\ failure[r] = "none" THEN "timeout" ELSE failure[r]]
      /\ UNCHANGED killer

\* stop() of every r in R whose compiler runs.
Stop(R) ==
  LET S == {r \in R : pc[r] = "run" /\ child[r] # "none"}
  IN  /\ child' = [r \in Request |->
                     IF r \in S /\ child[r] = "running" THEN "term" ELSE child[r]]
      /\ failure' = [r \in Request |->
                       IF r \in S /\ failure[r] = "none" THEN "timeout" ELSE failure[r]]
      /\ killer' = [r \in Request |-> killer[r] \/ r \in S]

\* More output than runNativeProcess keeps.
Flood(r) ==
  /\ child[r] # "none" /\ failure[r] = "none"
  /\ child' = [child EXCEPT ![r] = "kill"]
  /\ failure' = [failure EXCEPT ![r] = "limit"]
  /\ UNCHANGED <<admission, pc, controls, killer, progress>>

KillTimer(r) ==
  /\ killer[r]
  /\ killer' = [killer EXCEPT ![r] = FALSE]
  /\ child' = [child EXCEPT ![r] = "kill"]
  /\ UNCHANGED <<admission, pc, controls, failure, progress>>

\* The group is gone, by itself or by a signal, and its pipes are closed.
Gone(r) ==
  /\ child[r] # "none"
  /\ child' = [child EXCEPT ![r] = "none"] /\ killer' = [killer EXCEPT ![r] = FALSE]

\* The process was stopped or could not be started: runNativeProcess rejects.
Rejects(r) ==
  /\ Gone(r)
  /\ Finally(r, IF failure[r] = "none" THEN "failed" ELSE failure[r])
  /\ UNCHANGED <<admission, outer, inner, failure, round, pass>>

\* Mutant: the exit code is looked at, the failure is not.
SucceedsThoughStopped(r) ==
  /\ Gone(r)
  /\ IF pass[r] \in 1..(MaxPass - 1)
     THEN GoTo(r, "env") /\ pass' = [pass EXCEPT ![r] = @ + 1] /\ UNCHANGED result
     ELSE GoTo(r, "collect") /\ Answer(r, "built") /\ UNCHANGED pass
  /\ UNCHANGED <<admission, controls, failure, round>>

\* It exits with 0: pdflatex runs again up to the last pass.
Succeeds(r) ==
  /\ Gone(r) /\ failure[r] = "none"
  /\ IF pass[r] \in 1..(MaxPass - 1)
     THEN GoTo(r, "env") /\ pass' = [pass EXCEPT ![r] = @ + 1] /\ UNCHANGED result
     ELSE GoTo(r, "collect") /\ Answer(r, "built") /\ UNCHANGED pass
  /\ UNCHANGED <<admission, controls, failure, round>>

\* It exits otherwise: the package manager may help.
Fails(r) ==
  /\ Gone(r) /\ failure[r] = "none"
  /\ GoTo(r, IF round[r] < MaxRound THEN "resolve" ELSE "collect")
  /\ Answer(r, "unbuilt")
  /\ UNCHANGED <<admission, controls, failure, round, pass>>

-----------------------------------------------------------------------------
(* After the compiler. *)

\* resolveCompilerFailure() returns: packages were installed, or not.
Resolved(r) ==
  /\ pc[r] = "resolve"
  /\ \/ GoTo(r, "tool") /\ round' = [round EXCEPT ![r] = @ + 1]
     \/ GoTo(r, "collect") /\ UNCHANGED round
  /\ UNCHANGED <<admission, controls, process, pass, result>>

\* What the PDF and the SyncTeX data allow to answer: the PDF of a compiler that
\* failed is not looked at, and one that is missing is a failure.
Output(r) == {"failed"} \cup (IF result[r] = "built" THEN {"ok"} ELSE {})

\* The log, the PDF and the SyncTeX data are read.
Collected(r) ==
  /\ pc[r] = "collect"
  /\ \E what \in Output(r) : Finally(r, what)
  /\ UNCHANGED <<admission, outer, inner, process, round, pass>>

\* The directory is removed.
Removed(r) ==
  /\ pc[r] = "rm"
  /\ Leave(r)

-----------------------------------------------------------------------------
(* The deadline and the shutdown. *)

Deadline(r) ==
  /\ timer[r]
  /\ timer' = [timer EXCEPT ![r] = FALSE]
  /\ inner' = [inner EXCEPT ![r] = TRUE]
  /\ Stop(IF inner[r] THEN {} ELSE {r})
  /\ UNCHANGED <<admission, pc, outer, relay, progress>>

\* shutdownTyprServer(): every compilation in activeCompilations is aborted, and
\* relayAbort aborts the deadline of those that registered it.
Shutdown ==
  /\ ~closing /\ closing' = TRUE
  /\ outer' = [r \in Request |-> outer[r] \/ r \in active]
  /\ LET heard == {r \in active : relay[r]}
     IN  /\ inner' = [r \in Request |-> inner[r] \/ r \in heard]
         /\ relay' = [r \in Request |-> relay[r] /\ r \notin heard]
         /\ Stop({r \in heard : ~inner[r]})
  /\ UNCHANGED <<active, pc, timer, progress>>

\* Awaits that end by themselves.
Await(r) ==
  \/ Unavailable(r) \/ Probed(r) \/ Mkdtemp(r) \/ Written(r) \/ ToolFound(r)
  \/ Throws(r) \/ Spawn(r) \/ Resolved(r) \/ Collected(r) \/ Removed(r)

Closes(r) == Rejects(r) \/ Succeeds(r) \/ Fails(r)

Next ==
  \/ \E r \in Request :
       Admit(r) \/ Await(r) \/ Flood(r) \/ KillTimer(r) \/ Closes(r) \/ Deadline(r)
  \/ Shutdown

Spec == Init /\ [][Next]_vars

-----------------------------------------------------------------------------
(* Properties. *)

TypeOK ==
  /\ active \subseteq Request /\ closing \in BOOLEAN
  /\ pc \in [Request -> {"idle", "probe", "mkdtemp", "rm"} \cup Guarded]
  /\ outer \in [Request -> BOOLEAN] /\ relay \in [Request -> BOOLEAN]
  /\ inner \in [Request -> BOOLEAN] /\ timer \in [Request -> BOOLEAN]
  /\ child \in [Request -> {"none", "running", "term", "kill"}]
  /\ failure \in [Request -> {"none", "timeout", "limit"}]
  /\ killer \in [Request -> BOOLEAN]
  /\ round \in [Request -> 0..MaxRound] /\ pass \in [Request -> 0..MaxPass]
  /\ result \in [Request -> {"none", "built", "unbuilt", "ok", "failed", "timeout", "limit"}]

\* The slots are those of the requests in progress, and no more than there are:
\* however a compilation ends, it gives its slot back (server.ts:473-486).
SlotsHeld ==
  /\ active = {r \in Request : pc[r] # "idle"}
  /\ Cardinality(active) <= MaxActive

\* A compiler whose deadline has passed has been told to stop, whichever await
\* the deadline fell into (server.ts:613-615, nativeProcess.ts:156).
DeadlineHeard == \A r \in Request : inner[r] => child[r] # "running"

\* A compiler told to stop is killed if it does not: unless that was done, the
\* timer for it is armed (nativeProcess.ts:135-143).
StopIsFinal == \A r \in Request : child[r] = "term" => killer[r] /\ failure[r] # "none"

\* Nothing of a request outlives it: no compiler, no timer, no listener.
NothingLeft ==
  \A r \in Request :
    /\ child[r] # "none" <=> pc[r] = "run"
    /\ killer[r] => child[r] # "none"
    /\ relay[r] \/ timer[r] => pc[r] \in Guarded
    /\ pc[r] \in Guarded => timer[r] \/ inner[r]

\* The package manager is asked only while rounds are left (runLatexProject).
RoundLeft == \A r \in Request : pc[r] = "resolve" => round[r] < MaxRound

IInv == TypeOK /\ SlotsHeld /\ DeadlineHeard /\ StopIsFinal /\ NothingLeft /\ RoundLeft

\* No compilation that was stopped is answered as a success, even if its
\* compiler exited with 0 before the signal came (nativeProcess.ts:168-171).
StoppedIsNoSuccess ==
  \A r \in Request : result[r] \in {"built", "ok"} => failure[r] = "none"

\* A server whose slots are all taken does not stay busy: a request comes to its
\* end, be its compiler ever so stubborn.
BusyEnds == Cardinality(active) = MaxActive ~> Cardinality(active) < MaxActive

\* "terminating active LaTeX compiler process groups before the listener closes"
\* (docs/companion-protocol.md:141): a compilation that the shutdown aborted has
\* no compiler that was not told to stop.
ShutdownHeard == \A r \in Request : outer[r] => child[r] # "running"
==============================================================================
