----------------------------- MODULE LiveBackend -----------------------------
(***************************************************************************)
(* What a live session has beneath it: startLiveLatexSession() of          *)
(* typr-server/liveLatexSession.ts starts TeXpresso where the platform has *)
(* it and the session that compiles everything otherwise.  The properties  *)
(* are those the live session relies on, whichever of the two it got.      *)
(***************************************************************************)
EXTENDS Naturals, Sequences

CONSTANTS Client, Page, MaxEdit, MaxWaiter, Nobody

ASSUME BackendAssumption ==
  MaxEdit \in Nat \ {0} /\ MaxWaiter \in Nat /\ Page \subseteq Nat \ {0} /\ Nobody \notin Client

VARIABLES
  backend,  \* "probing", "texpresso" or "full"
  child, stdin, stdout, compiled, edits, flushes, seen, waiters, cache, clean,
  closed, exitError, closing, told, request, answer,
  buffers, disk, pdf, result, usable, pages, started, shut, call, pc, built, reply

Tex == INSTANCE TexpressoSession
Full == INSTANCE LatexmkSession

ofTex == <<child, stdin, stdout, compiled, edits, flushes, seen, waiters, cache, clean,
           closed, exitError, closing, told, request, answer>>
ofFull == <<buffers, disk, pdf, result, usable, pages, started, shut, call, pc, built, reply>>
vars == <<backend, ofTex, ofFull>>

Init == backend = "probing" /\ Tex!Init /\ Full!Init

\* The platform, TYPR_COMPANION_LIVE_BACKEND and commandCanSpawn() decide.
Choose ==
  /\ backend = "probing"
  /\ backend' \in {"texpresso", "full"}
  /\ UNCHANGED <<ofTex, ofFull>>

Texpresso == backend = "texpresso" /\ Tex!Next /\ UNCHANGED <<backend, ofFull>>
FullCompile == backend = "full" /\ Full!Next /\ UNCHANGED <<backend, ofTex>>

Next == Choose \/ Texpresso \/ FullCompile

Spec == Init /\ [][Next]_vars

\* A step of the backend that was chosen.
OfTex(A) == backend = "texpresso" /\ A /\ UNCHANGED <<backend, ofFull>>
OfFull(A) == backend = "full" /\ A /\ UNCHANGED <<backend, ofTex>>

\* Fairness is that of TexpressoSession, and of the awaits of LatexmkSession that
\* end by themselves; nothing ends a compilation but close().
FairSpec ==
  /\ Spec
  /\ \A c \in Client \cup {Nobody} : WF_vars(OfTex(Tex!Timeout(c)))
  /\ WF_vars(OfTex(Tex!HandleLine)) /\ WF_vars(OfTex(Tex!CloseEvent))
  /\ WF_vars(OfTex(Tex!GraceOver)) /\ WF_vars(OfTex(Tex!ForceOver))
  /\ WF_vars(OfTex(Tex!StartFails)) /\ WF_vars(OfFull(Full!Await))

-----------------------------------------------------------------------------
(* Properties. *)

\* The types of both; every call under way is waited for.
TypeOK ==
  /\ backend \in {"probing", "texpresso", "full"}
  /\ Tex!TypeOK /\ Full!TypeOK

\* An answer is never older than its request: a change returns a snapshot that
\* contains it, a page count is of a document with every edit that had returned
\* when it was asked for, and a page is not older than the last of those that
\* compiled (waitForFlush and the FIFO matching of handleProtocolLine; compile
\* and openPdf).
Fresh == Tex!Fresh /\ Full!Fresh

\* A page stays cached only while no edit compiled after it was rasterized,
\* although a rasterization may be under way when the cache is emptied
\* (renderPage of either session).
CacheFresh == Tex!CacheFresh /\ Full!CacheFresh

\* An exit nobody asked for leaves no waiter and is told to the owner; close()
\* has begun otherwise (fail and the close event).
ExitNoticed == Tex!ExitNoticed

\* Every request to TeXpresso ends although the process may hang or die at any
\* point, before or after close().
RequestsEnd ==
  \A c \in Client :
    backend = "texpresso" /\ request[c] # Tex!None ~> request[c] = Tex!None

\* close() resolves, and leaves no process behind: TeXpresso is dead, and the
\* call that awaited a compiler is over.
CloseEnds ==
  closed \/ shut ~> IF shut THEN pc = "none" ELSE closing = "done" /\ child # "up"
=============================================================================
