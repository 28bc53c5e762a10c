--------------------------- MODULE WorkspaceStore ---------------------------
(***************************************************************************)
(* The mapped project workspace: class WorkspaceStore of                   *)
(* typr-server/workspaceStore.ts, used by many HTTP requests at once.      *)
(*                                                                         *)
(* Mutations run one at a time behind withMutationLock, a chain of         *)
(* promises: prev[c] is the request whose release c awaits, tail the last  *)
(* request of the chain; a promise that is resolved is NoClient.  Reads    *)
(* and listings take no lock and interleave with everything.  An ETag is   *)
(* the hash of the content and is represented by it.  A request that holds *)
(* the lock is alone in changing files, so each of its looks at the disk   *)
(* is one step.  Its temporary file is its own until it is renamed and     *)
(* scan passes over it, so it is no more than the stage "rename".          *)
(***************************************************************************)
EXTENDS Integers, FiniteSetsExt

CONSTANTS
  Client,         \* requests that can be under way at once
  Path, Above,    \* paths, and the directories above each
  Content, Size,  \* file contents, and the bytes of each
  Request,        \* requests that clients make
  MaxFileBytes, MaxEntries, MaxBytes,   \* WorkspaceLimits
  CrashBound,     \* bound on the crashes of the process
  Absent, NoClient, NoRequest

RequestShape ==
  [kind : {"create", "update"}, path : Path, body : Content, tag : Content]
  \cup [kind : {"delete"}, path : Path, body : {Absent}, tag : Content]
  \cup [kind : {"read", "list"}, path : Path, body : {Absent}, tag : {Absent}]

ASSUME StoreAssumption ==
  /\ Above \in [Path -> SUBSET Path] /\ \A p \in Path : p \notin Above[p]
  /\ Size \in [Content -> Nat]
  /\ Request \subseteq RequestShape
  /\ MaxFileBytes \in Nat /\ MaxEntries \in Nat /\ MaxBytes \in Nat
  /\ CrashBound \in Nat
  /\ Absent \notin Content /\ NoClient \notin Client /\ NoRequest \notin Request

VARIABLES
  files,      \* contents of the regular files
  dirs,       \* directories below the root
  request,    \* per client: its request, NoRequest when it has none
  pc,         \* per client: how far its request is
  prev, tail, \* the promise chain of withMutationLock
  todo,       \* per client: entries its listing has still to visit
  out,        \* per client: its outcome, with the files it shows
  crashes

vars == <<files, dirs, request, pc, prev, tail, todo, out, crashes>>
lock == <<prev, tail>>

\* Stages in which a request holds the mutation lock.
Holding == {"scan", "prepare", "rename", "readback", "unlink"}

Stage == Holding \cup {"idle", "wait", "lstat", "open", "readdir", "visit", "reply"}

Outcome(k, s) == [kind |-> k, shown |-> s]
Pending == Outcome("none", {})

Init ==
  /\ files = [p \in Path |-> Absent] /\ dirs = {}
  /\ request = [c \in Client |-> NoRequest]
  /\ pc = [c \in Client |-> "idle"]
  /\ prev = [c \in Client |-> NoClient] /\ tail = NoClient
  /\ todo = [c \in Client |-> {}]
  /\ out = [c \in Client |-> Pending]
  /\ crashes = 0

-----------------------------------------------------------------------------
(* The disk and the lock. *)

Present == {p \in Path : files[p] # Absent}

\* Mutant of Blocked: the directories above the path are not looked at.
BlockedItself(p) == p \in dirs

\* resolveExistingFile finds a directory, or a file on the way to the path.
Blocked(p) == p \in dirs \/ \E a \in Above[p] : files[a] # Absent

Bytes(shown) == FoldSet(LAMBDA e, n : n + Size[e[2]], 0, shown)

Stored == {<<p, files[p]>> : p \in Present}

\* The entries readdir returns for the root, and for a directory.
RootEntries == {p \in Present \cup dirs : Above[p] = {}}
Entries(d) == {p \in Present \cup dirs : Above[p] = Above[d] \cup {d}}

Mutates(q) == q.kind \in {"create", "update", "delete"}
Demanded(q) == IF q.kind = "create" THEN Absent ELSE q.tag

\* withMutationLock, up to its await: the request joins the chain.
Join(c) == prev' = [prev EXCEPT ![c] = tail] /\ tail' = c

\* Mutant of Release: the tail is reset although others have joined.
ReleaseTail(c) ==
  /\ prev' = [d \in Client |-> IF prev[d] = c THEN NoClient ELSE prev[d]]
  /\ tail' = NoClient

\* release(): the promise of c resolves, for whoever awaits it and as tail.
Release(c) ==
  /\ prev' = [d \in Client |-> IF prev[d] = c THEN NoClient ELSE prev[d]]
  /\ tail' = IF tail = c THEN NoClient ELSE tail

\* The request is through, with outcome o.
Settle(c, o) == pc' = [pc EXCEPT ![c] = "reply"] /\ out' = [out EXCEPT ![c] = o]

\* The same for a request that holds the lock: its finally block releases.
SettleHolding(c, o) == Settle(c, o) /\ Release(c)

Advance(c, s) == pc' = [pc EXCEPT ![c] = s]

-----------------------------------------------------------------------------
(* Requests. *)

\* A content over the file limit is refused before the lock.
Call(c, q) ==
  /\ pc[c] = "idle"
  /\ request' = [request EXCEPT ![c] = q]
  /\ IF ~Mutates(q)
     THEN /\ Advance(c, IF q.kind = "read" THEN "lstat" ELSE "readdir")
          /\ UNCHANGED <<lock, out>>
     ELSE IF q.body # Absent /\ Size[q.body] > MaxFileBytes
     THEN Settle(c, Outcome("error", {})) /\ UNCHANGED lock
     ELSE Join(c) /\ Advance(c, "wait") /\ UNCHANGED out
  /\ UNCHANGED <<files, dirs, todo, crashes>>

Reply(c) ==
  /\ pc[c] = "reply"
  /\ Advance(c, "idle")
  /\ request' = [request EXCEPT ![c] = NoRequest]
  /\ out' = [out EXCEPT ![c] = Pending]
  /\ UNCHANGED <<files, dirs, lock, todo, crashes>>

-----------------------------------------------------------------------------
(* write and delete. *)

\* Mutant of HasLock: the promise is not awaited.
HasLockAtOnce(c) == pc[c] = "wait"

HasLock(c) == pc[c] = "wait" /\ prev[c] = NoClient

\* The lock is acquired; readIfExists, then the precondition.
Check(c) ==
  LET q == request[c]
  IN /\ HasLock(c)
     /\ \/ Blocked(q.path) /\ SettleHolding(c, Outcome("error", {}))
        \/ /\ ~Blocked(q.path) /\ files[q.path] # Demanded(q)
           /\ SettleHolding(c, Outcome("conflict", {}))
        \/ /\ ~Blocked(q.path) /\ files[q.path] = Demanded(q)
           /\ Advance(c, IF q.kind = "delete" THEN "unlink" ELSE "scan")
           /\ UNCHANGED <<lock, out>>
     /\ UNCHANGED <<files, dirs, request, todo, crashes>>

\* Mutant of OverLimits: the entry limit is off by one.
OverLimitsByOne(q) ==
  \/ files[q.path] = Absent /\ Cardinality(Present) > MaxEntries
  \/ Bytes(Stored) - (IF files[q.path] = Absent THEN 0 ELSE Size[files[q.path]])
       + Size[q.body] > MaxBytes

\* The limits a write would exceed, given what scan returned.
OverLimits(q) ==
  \/ files[q.path] = Absent /\ Cardinality(Present) >= MaxEntries
  \/ Bytes(Stored) - (IF files[q.path] = Absent THEN 0 ELSE Size[files[q.path]])
       + Size[q.body] > MaxBytes

Scan(c) ==
  /\ pc[c] = "scan"
  /\ IF OverLimits(request[c])
     THEN SettleHolding(c, Outcome("error", {}))
     ELSE Advance(c, "prepare") /\ UNCHANGED <<lock, out>>
  /\ UNCHANGED <<files, dirs, request, todo, crashes>>

\* resolveForWrite makes the directories, the temporary file is opened.
Prepare(c) ==
  /\ pc[c] = "prepare"
  /\ dirs' = dirs \cup Above[request[c].path]
  /\ Advance(c, "rename")
  /\ UNCHANGED <<files, request, lock, todo, out, crashes>>

\* The temporary file is written, synced, and renamed over the destination.
Rename(c) ==
  /\ pc[c] = "rename"
  /\ files' = [files EXCEPT ![request[c].path] = request[c].body]
  /\ Advance(c, "readback")
  /\ UNCHANGED <<dirs, request, lock, todo, out, crashes>>

\* The answer is what a read of the destination returns.
ReadBack(c) ==
  LET p == request[c].path
  IN /\ pc[c] = "readback"
     /\ SettleHolding(c, Outcome("ok", {<<p, files[p]>>}))
     /\ UNCHANGED <<files, dirs, request, todo, crashes>>

Unlink(c) ==
  /\ pc[c] = "unlink"
  /\ files' = [files EXCEPT ![request[c].path] = Absent]
  /\ SettleHolding(c, Outcome("ok", {}))
  /\ UNCHANGED <<dirs, request, todo, crashes>>

\* A file operation of a request that holds the lock rejects.  Directories made
\* for it stay.
Fail(c) ==
  /\ HasLock(c) \/ pc[c] \in Holding
  /\ dirs' \in {dirs, IF pc[c] = "prepare" THEN dirs \cup Above[request[c].path]
                                          ELSE dirs}
  /\ SettleHolding(c, Outcome("error", {}))
  /\ UNCHANGED <<files, request, todo, crashes>>

-----------------------------------------------------------------------------
(* read and list: no lock. *)

Lstat(c) ==
  LET p == request[c].path
  IN /\ pc[c] = "lstat"
     /\ \/ Blocked(p) /\ Settle(c, Outcome("error", {}))
        \/ ~Blocked(p) /\ files[p] = Absent /\ Settle(c, Outcome("missing", {}))
        \/ ~Blocked(p) /\ files[p] # Absent /\ Advance(c, "open") /\ UNCHANGED out
     /\ UNCHANGED <<files, dirs, request, lock, todo, crashes>>

\* open, stat and readFile: the open file is not changed by a later rename.  A
\* file deleted since lstat is an internal error, not a 404.
Open(c) ==
  LET p == request[c].path
  IN /\ pc[c] = "open"
     /\ Settle(c, IF files[p] = Absent THEN Outcome("error", {})
                                       ELSE Outcome("ok", {<<p, files[p]>>}))
     /\ UNCHANGED <<files, dirs, request, lock, todo, crashes>>

ReadRoot(c) ==
  /\ pc[c] = "readdir"
  /\ todo' = [todo EXCEPT ![c] = RootEntries]
  /\ Advance(c, "visit")
  /\ UNCHANGED <<files, dirs, request, lock, out, crashes>>

\* Mutant of Visit: a file stays among the entries to visit.
VisitAgain(c) ==
  /\ pc[c] = "visit"
  /\ \E p \in todo[c] :
       \/ /\ p \in dirs
          /\ todo' = [todo EXCEPT ![c] = (@ \ {p}) \cup Entries(p)]
          /\ UNCHANGED <<pc, out>>
       \/ /\ files[p] # Absent
          /\ out' = [out EXCEPT ![c].shown = @ \cup {<<p, files[p]>>}]
          /\ UNCHANGED <<pc, todo>>
  /\ UNCHANGED <<files, dirs, request, lock, crashes>>

\* scan visits one more entry of those its readdir calls returned.
Visit(c) ==
  /\ pc[c] = "visit"
  /\ \E p \in todo[c] :
       LET shown == out[c].shown \cup {<<p, files[p]>>}
       IN \/ /\ p \in dirs
             /\ todo' = [todo EXCEPT ![c] = (@ \ {p}) \cup Entries(p)]
             /\ UNCHANGED <<pc, out>>
          \/ /\ files[p] # Absent
             /\ Cardinality(out[c].shown) < MaxEntries /\ Bytes(shown) <= MaxBytes
             /\ todo' = [todo EXCEPT ![c] = @ \ {p}]
             /\ out' = [out EXCEPT ![c].shown = shown]
             /\ UNCHANGED pc
  /\ UNCHANGED <<files, dirs, request, lock, crashes>>

\* The entry is gone, or files seen at different times exceed a limit together.
VisitFails(c) ==
  /\ pc[c] = "visit"
  /\ \E p \in todo[c] :
       /\ p \notin dirs
       /\ \/ files[p] = Absent
          \/ files[p] # Absent /\ Cardinality(out[c].shown) >= MaxEntries
          \/ files[p] # Absent /\ Bytes(out[c].shown \cup {<<p, files[p]>>}) > MaxBytes
  /\ todo' = [todo EXCEPT ![c] = {}]
  /\ Settle(c, Outcome("error", {}))
  /\ UNCHANGED <<files, dirs, request, lock, crashes>>

Listed(c) ==
  /\ pc[c] = "visit" /\ todo[c] = {}
  /\ Settle(c, Outcome("ok", out[c].shown))
  /\ UNCHANGED <<files, dirs, request, lock, todo, crashes>>

-----------------------------------------------------------------------------
\* The process dies and is started again.
Crash ==
  /\ crashes < CrashBound /\ crashes' = crashes + 1
  /\ request' = [c \in Client |-> NoRequest]
  /\ pc' = [c \in Client |-> "idle"]
  /\ prev' = [c \in Client |-> NoClient] /\ tail' = NoClient
  /\ todo' = [c \in Client |-> {}]
  /\ out' = [c \in Client |-> Pending]
  /\ UNCHANGED <<files, dirs>>

Progress(c) ==
  \/ Check(c) \/ Scan(c) \/ Prepare(c) \/ Rename(c) \/ ReadBack(c) \/ Unlink(c)
  \/ Fail(c) \/ Lstat(c) \/ Open(c) \/ ReadRoot(c) \/ Visit(c) \/ VisitFails(c)
  \/ Listed(c) \/ Reply(c)

Next ==
  \/ \E c \in Client : Progress(c) \/ \E q \in Request : Call(c, q)
  \/ Crash

Spec == Init /\ [][Next]_vars

\* File operations end, one way or the other; clients need not call.
FairSpec == Spec /\ \A c \in Client : WF_vars(Progress(c))

-----------------------------------------------------------------------------
(* Properties. *)

TypeOK ==
  /\ files \in [Path -> Content \cup {Absent}] /\ dirs \subseteq Path
  /\ request \in [Client -> Request \cup {NoRequest}]
  /\ pc \in [Client -> Stage]
  /\ prev \in [Client -> Client \cup {NoClient}]
  /\ tail \in Client \cup {NoClient}
  /\ todo \in [Client -> SUBSET Path]
  /\ out \in [Client -> [kind : {"none", "ok", "conflict", "missing", "error"},
                         shown : SUBSET (Path \X Content)]]
  /\ crashes \in 0..CrashBound

\* At most one mutation is past `await previous` at any time, whatever fails or
\* is overtaken (withMutationLock).
OneMutation ==
  \A c, d \in Client : pc[c] \in Holding /\ pc[d] \in Holding => c = d

\* The part of the invariant that makes it inductive: no two requests in the
\* chain await the same promise (or are both past it), none awaits the tail, and
\* what is awaited is in the chain.
InChain == {c \in Client : pc[c] = "wait" \/ pc[c] \in Holding}
ChainOrder ==
  /\ \A c, d \in InChain : prev[c] = prev[d] => c = d
  /\ \A c \in InChain : prev[c] # tail /\ prev[c] \in InChain \cup {NoClient}
  /\ tail \in InChain \cup {NoClient}
  /\ \A c \in Client : pc[c] \in Holding \/ c \notin InChain => prev[c] = NoClient

\* What the stage of a request says of it, of its file after the checks it has
\* passed, and of its outcome.
Knows(c) ==
  LET q == request[c]
  IN /\ IF pc[c] = "idle" THEN q = NoRequest ELSE q \in Request
     /\ pc[c] \in {"lstat", "open"} => q.kind = "read"
     /\ pc[c] \in {"readdir", "visit"} => q.kind = "list"
     /\ pc[c] = "wait" \/ pc[c] \in Holding => Mutates(q)
     /\ pc[c] \in Holding => (pc[c] = "unlink" <=> q.kind = "delete")
     /\ pc[c] \in {"scan", "prepare", "rename", "unlink"} =>
          files[q.path] = Demanded(q)
     /\ pc[c] \in {"scan", "prepare", "rename"} => ~Blocked(q.path)
     /\ pc[c] = "rename" => Above[q.path] \subseteq dirs
     /\ pc[c] = "readback" => files[q.path] = q.body
     /\ pc[c] \notin {"visit", "reply"} => out[c] = Pending
     /\ pc[c] = "visit" => out[c].kind = "none"
     /\ pc[c] = "reply" => out[c].kind # "none"
Checked == \A c \in Client : Knows(c)

\* No path is a file and a directory, and no file has a file above it.
TreeShaped ==
  \A p \in Path : files[p] # Absent => ~Blocked(p) /\ Above[p] \subseteq dirs

\* The workspace stays within the limits the status route advertises, however
\* many writes were checked against it at once (write).
WithinLimits ==
  /\ Cardinality(Present) <= MaxEntries /\ Bytes(Stored) <= MaxBytes
  /\ \A p \in Present : Size[files[p]] <= MaxFileBytes

\* The inductive invariant.
IInv == TypeOK /\ ChainOrder /\ Checked /\ TreeShaped

\* Every request is answered, or dies with the process: no failure keeps the
\* lock (the finally block of withMutationLock).
Answered ==
  \A c \in Client : request[c] # NoRequest ~> request[c] = NoRequest

\* The outcome of a write is settled by its rename.
Settled ==
  [c \in Client |->
     IF pc[c] = "readback"
     THEN Outcome("ok", {<<request[c].path, request[c].body>>})
     ELSE out[c]]

Store == INSTANCE WorkspaceCAS WITH call <- request, out <- Settled

\* Conditional requests are atomic: a write or deletion takes effect only if the
\* file is at that moment what its precondition demands, a refused or failed one
\* changes nothing, and a read shows content the file really held.
ImplementsCAS == Store!Spec
=============================================================================
