-------------------------- MODULE TexpressoSession --------------------------
(***************************************************************************)
(* The adapter of one TeXpresso process: class TexpressoSession of         *)
(* typr-server/texpressoSession.ts, from the spawn of the process on.      *)
(*                                                                         *)
(* Callers write commands to the process and await the line that answers   *)
(* them; nothing but its order and its page ties a line to a waiter.       *)
(* Waiters also end by their own timeout, which closes the session, and by *)
(* the exit of the process.  A caller goes on before the next event, so a  *)
(* line and what its waiter does next are one step.  Edits are issued one  *)
(* at a time ("the POC serializes edits"), other requests need not be.     *)
(* Documents, rasters and snapshots are represented by the number of edits *)
(* they contain, the first version of the files counting as one.  The      *)
(* process answers commands in order, may hang, and may die.               *)
(***************************************************************************)
EXTENDS Naturals, Sequences, FiniteSetsExt

CONSTANTS
  Client,     \* requests that can be under way at once
  Page,       \* pages asked for
  MaxEdit,    \* bound on the edits
  MaxWaiter,  \* bound on the waiters of requests that threw
  Nobody

Edit == 0..MaxEdit

\* since: how many edits the answer must at least contain.
Request == [op : {"none", "start", "change", "count", "render"}, page : Page \cup {0}, since : Edit]
Req(o, p, n) == [op |-> o, page |-> p, since |-> n]
None == Req("none", 0, 0)

VARIABLES
  child,     \* the process: "up", "dead", or "gone" once its close event came
  stdin,     \* commands it has not read
  stdout,    \* lines the session has not handled
  compiled,  \* edits its document contains
  edits,     \* edits applied to TexpressoSession.buffers
  flushes, seen,   \* flushCount; edits in the output at the last flush
  waiters,   \* the three waiter sets, in the order of registration
  cache,     \* renderedPages: edits a cached page contains, 0 when not cached
  clean,     \* edits of the last change that returned without a LaTeX error
  closed, exitError,
  closing,   \* close(): "no", "graceful", "term", "done"
  told,      \* the listeners of onUnexpectedExit were called
  request,   \* per client: its request under way
  answer     \* the outcome of the last one that ended, history

vars == <<child, stdin, stdout, compiled, edits, flushes, seen, waiters, cache, clean,
          closed, exitError, closing, told, request, answer>>
process == <<child, stdin, stdout, compiled>>
output  == <<flushes, seen, cache, clean>>
ending  == <<closed, exitError, closing, told>>

Answer(ok, r, shows) == [ok |-> ok, req |-> r, shows |-> shows]
NoAnswer == Answer(FALSE, None, 0)
Waiter(c, r, after) == [client |-> c, req |-> r, after |-> after]

\* The constructor has run; start() has sent register, open and resume.
Init ==
  /\ child = "up" /\ stdin = <<Req("start", 0, 1)>> /\ stdout = <<>>
  /\ compiled = 0 /\ edits = 1 /\ flushes = 0 /\ seen = 0
  /\ cache = [p \in Page |-> 0] /\ clean = 0
  /\ closed = FALSE /\ exitError = FALSE /\ closing = "no" /\ told = FALSE
  /\ answer = NoAnswer
  /\ \E c \in Client :
       /\ request = [d \in Client |-> IF d = c THEN Req("start", 0, 1) ELSE None]
       /\ waiters = <<Waiter(c, Req("start", 0, 1), 0)>>

-----------------------------------------------------------------------------
(* Requests. *)

Idle(c) == request[c] = None
Started == flushes > 0 /\ \A c \in Client : request[c].op # "start"

\* send() throws.
Refused == closed \/ exitError

\* Mutant of Reached: the flush seen before the command counts.
ReachedBefore(count, after) == count >= after

\* A flush waiter is served by any flush after `after`.
Reached(count, after) == count > after

Return(c, r, ok, shows) ==
  /\ request' = [request EXCEPT ![c] = None]
  /\ answer' = Answer(ok, r, shows)

Await(c, r, after) ==
  /\ request' = [request EXCEPT ![c] = r]
  /\ waiters' = Append(waiters, Waiter(c, r, after))
  /\ UNCHANGED answer

\* applyRangeChange, for a range that lies in the file.
Change(c) ==
  LET r == Req("change", 0, edits + 1)
  IN /\ Idle(c) /\ Started /\ edits < MaxEdit
     /\ \A d \in Client : request[d].op # "change"
     /\ IF Refused
        THEN Return(c, r, FALSE, 0) /\ UNCHANGED <<stdin, edits, waiters>>
        ELSE /\ stdin' = Append(stdin, r)
             /\ edits' = edits + 1
             /\ IF Reached(flushes, flushes)
                THEN Return(c, r, TRUE, seen) /\ UNCHANGED waiters
                ELSE Await(c, r, flushes)
     /\ UNCHANGED <<child, stdout, compiled, output, ending>>

Orphans == {i \in 1..Len(waiters) : waiters[i].client = Nobody}

\* getPageCount, and renderPage of a page that is not cached.  The waiter is
\* registered first; on a closed session it stays although send() throws.
Ask(c, r) ==
  /\ Idle(c) /\ Started
  /\ IF Refused
     THEN /\ Return(c, r, FALSE, 0)
          /\ waiters' = IF exitError \/ Cardinality(Orphans) >= MaxWaiter THEN waiters
                        ELSE Append(waiters, Waiter(Nobody, r, 0))
          /\ UNCHANGED stdin
     ELSE stdin' = Append(stdin, r) /\ Await(c, r, 0)
  /\ UNCHANGED <<child, stdout, compiled, edits, output, ending>>

\* A count asked for while an edit is under way may be of the document before it.
Count(c) == Ask(c, Req("count", 0, seen))

RenderPage(c, p) ==
  LET r == Req("render", p, clean)
  IN \/ cache[p] = 0 /\ Ask(c, r)
     \/ /\ cache[p] # 0 /\ Idle(c) /\ Started
        /\ Return(c, r, TRUE, cache[p])
        /\ UNCHANGED <<process, edits, output, waiters, ending>>

-----------------------------------------------------------------------------
(* The process. *)

Line(o, p, good) == [op |-> o, page |-> p, shows |-> compiled', good |-> good]

\* It reads one command and writes the line that answers it.
NativeStep ==
  /\ child = "up" /\ stdin # <<>>
  /\ stdin' = Tail(stdin)
  /\ LET r == Head(stdin)
     IN \/ /\ r.op \in {"start", "change"}
           /\ compiled' = r.since
           /\ \E good \in BOOLEAN : stdout' = Append(stdout, Line("flush", 0, good))
        \/ /\ r.op = "count" /\ UNCHANGED compiled
           /\ stdout' = Append(stdout, Line("count", 0, TRUE))
        \/ /\ r.op = "render" /\ UNCHANGED compiled
           /\ \E good \in BOOLEAN : stdout' = Append(stdout, Line("render", r.page, good))
  /\ UNCHANGED <<child, edits, output, waiters, ending, request, answer>>

NativeDies ==
  /\ child = "up" /\ child' = "dead"
  /\ UNCHANGED <<stdin, stdout, compiled, edits, output, waiters, ending, request, answer>>

-----------------------------------------------------------------------------
(* Lines: handleProtocolLine. *)

Serves(line, w) ==
  \/ line.op = "flush" /\ w.req.op \in {"start", "change"} /\ Reached(flushes + 1, w.after)
  \/ line.op \in {"count", "render"} /\ w.req.op = line.op /\ w.req.page = line.page

Without(s, i) == SubSeq(s, 1, i - 1) \o SubSeq(s, i + 1, Len(s))

\* Mutant of Invalidated: an edit leaves the cache as it is.
KeptCache(w, line) == cache

\* The cache after the change of w returned.
Invalidated(w, line) ==
  IF w.req.op = "change" /\ line.good THEN [p \in Page |-> 0] ELSE cache

\* The waiter of w goes on with the line: applyRangeChange empties the cache,
\* renderPage fills it.
Resumed(w, line) ==
  /\ IF w.client = Nobody THEN UNCHANGED <<request, answer>>
     ELSE Return(w.client, w.req, line.op # "render" \/ line.good, line.shows)
  /\ cache' = IF w.req.op # "render" THEN Invalidated(w, line)
              ELSE IF line.good /\ w.client # Nobody THEN [cache EXCEPT ![w.req.page] = line.shows]
              ELSE cache
  /\ clean' = IF w.req.op \in {"start", "change"} /\ line.good THEN line.shows ELSE clean

HandleLine ==
  /\ stdout # <<>> /\ stdout' = Tail(stdout)
  /\ LET line == Head(stdout)
         served == {i \in 1..Len(waiters) : Serves(line, waiters[i])}
     IN /\ flushes' = IF line.op = "flush" THEN flushes + 1 ELSE flushes
        /\ seen' = IF line.op = "flush" THEN line.shows ELSE seen
        /\ IF served = {} THEN UNCHANGED <<waiters, cache, clean, request, answer>>
           ELSE /\ waiters' = Without(waiters, Min(served))
                /\ Resumed(waiters[Min(served)], line)
  /\ UNCHANGED <<child, stdin, compiled, edits, ending>>

-----------------------------------------------------------------------------
(* Ends. *)

\* close(), up to its first timer.
Close == closed' = TRUE /\ closing' = IF closing = "no" THEN "graceful" ELSE closing

\* The owner closes the session.
CloseSession ==
  /\ Started /\ ~closed /\ Close
  /\ UNCHANGED <<process, edits, output, waiters, exitError, told, request, answer>>

\* The clients of waiters that are rejected; start() fails only once it closed.
Rejected(cs) ==
  /\ request' = [c \in Client |-> IF c \in cs /\ request[c].op # "start" THEN None ELSE request[c]]
  /\ answer' = NoAnswer

\* The timer of a waiter fires, the caller's or that of one without a caller.
Timeout(c) ==
  /\ \E i \in 1..Len(waiters) :
       waiters[i].client = c /\ waiters' = Without(waiters, i) /\ Rejected({c})
  /\ Close
  /\ UNCHANGED <<process, edits, output, exitError, told>>

\* Mutant of Fail: the waiters are dropped without an answer.
FailSilently ==
  /\ exitError' = TRUE /\ waiters' = <<>> /\ told' = Started
  /\ IF Started THEN UNCHANGED <<closed, closing>> ELSE Close
  /\ UNCHANGED <<request, answer>>

\* Mutant of Fail: the waiters are left to their timers.
FailKeepsWaiters ==
  /\ exitError' = TRUE /\ told' = Started
  /\ UNCHANGED <<waiters, closed, closing, request, answer>>

\* fail(): every waiter is rejected, the listeners are told.
Fail ==
  /\ exitError' = TRUE
  /\ waiters' = <<>> /\ Rejected({waiters[i].client : i \in 1..Len(waiters)})
  /\ told' = Started
  /\ IF Started THEN UNCHANGED <<closed, closing>> ELSE Close

\* The child's close event.  Once close() has begun it ends close(), and the
\* waiters are left to their timers.
CloseEvent ==
  /\ child = "dead" /\ stdout = <<>> /\ child' = "gone"
  /\ IF ~closed THEN Fail
     ELSE closing' = "done" /\ UNCHANGED <<waiters, request, answer, closed, exitError, told>>
  /\ UNCHANGED <<stdin, stdout, compiled, edits, output>>

\* The timers of close(): SIGTERM, which the process may ignore, then SIGKILL.
GraceOver ==
  /\ closing = "graceful" /\ closing' = "term"
  /\ child' \in {child, IF child = "up" THEN "dead" ELSE child}
  /\ UNCHANGED <<stdin, stdout, compiled, edits, output, waiters, closed, exitError, told,
                 request, answer>>

\* Mutant of ForceOver: SIGTERM again.
ForceTerm ==
  /\ closing = "term" /\ closing' = "done"
  /\ child' \in {child, IF child = "up" THEN "dead" ELSE child}
  /\ UNCHANGED <<stdin, stdout, compiled, edits, output, waiters, closed, exitError, told,
                 request, answer>>

ForceOver ==
  /\ closing = "term" /\ closing' = "done"
  /\ child' = IF child = "up" THEN "dead" ELSE child
  /\ UNCHANGED <<stdin, stdout, compiled, edits, output, waiters, closed, exitError, told,
                 request, answer>>

\* start() has closed the session and throws.
StartFails ==
  /\ closing = "done"
  /\ \E c \in Client : /\ request[c].op = "start"
                       /\ \A i \in 1..Len(waiters) : waiters[i].client # c
                       /\ Return(c, request[c], FALSE, 0)
  /\ UNCHANGED <<process, edits, output, waiters, ending>>

\* The session is over.
Over == closing = "done" /\ child = "gone" /\ UNCHANGED vars

Next ==
  \/ \E c \in Client : Change(c) \/ Count(c) \/ \E p \in Page : RenderPage(c, p)
  \/ \E c \in Client \cup {Nobody} : Timeout(c)
  \/ NativeStep \/ NativeDies \/ HandleLine
  \/ CloseSession \/ CloseEvent \/ GraceOver \/ ForceOver \/ StartFails
  \/ Over

Spec == Init /\ [][Next]_vars

(* Timers fire and the event loop handles lines and events; the process need  *)
(* not answer anything.                                                       *)
FairSpec ==
  /\ Spec
  /\ \A c \in Client \cup {Nobody} : WF_vars(Timeout(c))
  /\ WF_vars(HandleLine) /\ WF_vars(CloseEvent)
  /\ WF_vars(GraceOver) /\ WF_vars(ForceOver) /\ WF_vars(StartFails)

-----------------------------------------------------------------------------
(* Properties. *)

\* Types; every request under way has a waiter, except a start that is closing.
TypeOK ==
  /\ child \in {"up", "dead", "gone"} /\ closing \in {"no", "graceful", "term", "done"}
  /\ compiled \in Edit /\ edits \in Edit /\ seen \in Edit /\ clean \in Edit /\ flushes \in Nat
  /\ cache \in [Page -> Edit]
  /\ \A i \in 1..Len(stdin) : stdin[i] \in Request
  /\ request \in [Client -> Request]
  /\ closed \in BOOLEAN /\ exitError \in BOOLEAN /\ told \in BOOLEAN
  /\ \A c \in Client : request[c] # None =>
       \/ \E i \in 1..Len(waiters) : waiters[i].client = c /\ waiters[i].req = request[c]
       \/ request[c].op = "start" /\ closed

\* An answer is never older than its request: a change returns a snapshot that
\* contains it, a page count is of a document with every edit that had returned
\* when it was asked for, and a page is not older than the last of those that
\* compiled (waitForFlush and the FIFO matching of handleProtocolLine).
Fresh == answer.ok => answer.shows >= answer.req.since

\* A page stays cached only while no edit compiled after it was rasterized,
\* although a rasterization may be under way when the cache is emptied.
CacheFresh == \A p \in Page : cache[p] = 0 \/ cache[p] >= clean

\* An exit nobody asked for leaves no waiter and is told to the owner; close()
\* has begun otherwise (fail and the close event).
ExitNoticed == child = "gone" => closed \/ (told /\ waiters = <<>>)

\* Every request ends although the process may hang or die at any point, before
\* or after close().
RequestsEnd == \A c \in Client : request[c] # None ~> request[c] = None

\* close() resolves, and the process is dead by then.
CloseEnds == closed ~> closing = "done" /\ child # "up"
=============================================================================
