---------------------------- MODULE WorkspaceCAS ----------------------------
(***************************************************************************)
(* What the workspace file API promises its clients (the preconditions     *)
(* If-None-Match and If-Match of docs/companion-protocol.md:14, and        *)
(* "same-directory atomic replacement" of line 16): every request acts     *)
(* atomically at one moment between its call and its answer.  The          *)
(* abstract specification that WorkspaceStore implements.                  *)
(***************************************************************************)
CONSTANTS Client, Path, Request, Absent, NoRequest

VARIABLES
  files,   \* [path -> content or Absent]
  call,    \* [client -> its request]
  out      \* [client -> outcome so far and the <<path, content>> pairs it shows]

vars == <<files, call, out>>

Pending == [kind |-> "none", shown |-> {}]
Refused == [kind |-> "error", shown |-> {}]

Init ==
  /\ files = [p \in Path |-> Absent]
  /\ call = [c \in Client |-> NoRequest]
  /\ out = [c \in Client |-> Pending]

Called(c) == call[c] # NoRequest /\ out[c].kind = "none"

\* A request is made; a malformed or oversized one is refused at once.
Call(c, q) ==
  /\ call[c] = NoRequest
  /\ call' = [call EXCEPT ![c] = q]
  /\ \E o \in {Pending, Refused} : out' = [out EXCEPT ![c] = o]
  /\ UNCHANGED files

\* The content a request demands to find before it changes the file.
Demanded(q) == IF q.kind = "create" THEN Absent ELSE q.tag

Mutates(q) == q.kind \in {"create", "update", "delete"}

\* What its answer shows: the metadata of the file written.
Result(q) == IF q.kind = "delete" THEN {} ELSE {<<q.path, q.body>>}

Apply(c) ==
  LET q == call[c]
  IN /\ Called(c) /\ Mutates(q)
     /\ files[q.path] = Demanded(q)
     /\ files' = [files EXCEPT ![q.path] = q.body]
     /\ out' = [out EXCEPT ![c] = [kind |-> "ok", shown |-> Result(q)]]
     /\ UNCHANGED call

\* 412: the file is not what the request demands.
Conflict(c) ==
  /\ Called(c) /\ Mutates(call[c])
  /\ files[call[c].path] # Demanded(call[c])
  /\ out' = [out EXCEPT ![c].kind = "conflict"]
  /\ UNCHANGED <<files, call>>

Read(c) ==
  LET q == call[c]
  IN /\ Called(c) /\ q.kind = "read"
     /\ out' = [out EXCEPT ![c] =
          IF files[q.path] = Absent
          THEN [kind |-> "missing", shown |-> {}]
          ELSE [kind |-> "ok", shown |-> {<<q.path, files[q.path]>>}]]
     /\ UNCHANGED <<files, call>>

\* A listing is not a snapshot: each entry is what the file held at a moment of
\* its own.
Visit(c) ==
  /\ Called(c) /\ call[c].kind = "list"
  /\ \E p \in {p \in Path : files[p] # Absent} :
       out' = [out EXCEPT ![c].shown = @ \cup {<<p, files[p]>>}]
  /\ UNCHANGED <<files, call>>

Listed(c) ==
  /\ Called(c) /\ call[c].kind = "list"
  /\ out' = [out EXCEPT ![c].kind = "ok"]
  /\ UNCHANGED <<files, call>>

\* Any other refusal or failure: nothing changed.
Error(c) ==
  /\ Called(c)
  /\ out' = [out EXCEPT ![c] = Refused]
  /\ UNCHANGED <<files, call>>

\* A change that was made can still be answered with an error.
LoseResult(c) ==
  /\ call[c] # NoRequest /\ out[c].kind = "ok" /\ Mutates(call[c])
  /\ out' = [out EXCEPT ![c] = Refused]
  /\ UNCHANGED <<files, call>>

Answer(c) ==
  /\ call[c] # NoRequest /\ out[c].kind # "none"
  /\ call' = [call EXCEPT ![c] = NoRequest]
  /\ out' = [out EXCEPT ![c] = Pending]
  /\ UNCHANGED files

\* The server dies: requests under way end unanswered.
Crash ==
  /\ call' = [c \in Client |-> NoRequest]
  /\ out' = [c \in Client |-> Pending]
  /\ UNCHANGED files

Next ==
  \/ \E c \in Client :
       \/ \E q \in Request : Call(c, q)
       \/ Apply(c) \/ Conflict(c) \/ Read(c) \/ Visit(c) \/ Listed(c)
       \/ Error(c) \/ LoseResult(c) \/ Answer(c)
  \/ Crash

Spec == Init /\ [][Next]_vars
=============================================================================
