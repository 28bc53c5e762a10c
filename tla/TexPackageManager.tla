-------------------------- MODULE TexPackageManager --------------------------
(***************************************************************************)
(* Installing TeX packages: class TexPackageManager and                    *)
(* activeTexPackageManager() of typr-server/texPackageManager.ts.          *)
(*                                                                         *)
(* A compilation that failed for a missing file (resolveCompilerFailure)   *)
(* and the management console (updateAll) run tlmgr commands that change   *)
(* the TeX tree.  The callers of one manager take turns: each replaces     *)
(* installQueue by a promise of its own, its ticket, waits for the one it  *)
(* replaced, and releases its own when it returns, however it returns.     *)
(* A manager works on the tree whose tlmgr was the active one when the     *)
(* manager was made; activating another provider makes the next caller     *)
(* make a manager.  A tlmgr command is external: it may succeed or fail,   *)
(* and always ends, because its timer or its caller's signal kills it.     *)
(***************************************************************************)
EXTENDS Naturals, FiniteSets

CONSTANTS
  Caller,       \* requests that may call a manager
  Updater,      \* those of the management console, the others compile
  Tree,         \* TeX trees, each with its tlmgr
  File,         \* files the compilers may miss
  MaxManager, MaxTicket  \* bounds on managers made, and on calls to each

ASSUME ManagerAssumption ==
  /\ Updater \subseteq Caller
  /\ Tree # {}
  /\ MaxManager \in Nat \ {0} /\ MaxTicket \in Nat

Manager == 1..MaxManager

\* A tlmgr command of the caller is running, its turn having come.
Running == {"search", "install", "selfUpdate", "reinstall", "update"}
\* Those that change the tree.
Mutating == Running \ {"search"}

VARIABLES
  active,    \* the tree of nativeTool("tlmgr"), set by the active provider
  made,      \* managers made so far; the latest one is sharedManager
  tree,      \* command of each manager
  tail,      \* installQueue of each manager: the latest ticket
  released,  \* tickets whose promise is resolved
  pc,        \* where each caller is
  manager,   \* the manager it called
  ticket,    \* its own promise
  left,      \* files it has yet to search for
  found,     \* files for which the search named a package
  aborted    \* its signal is aborted: the deadline, a shutdown, a timeout

vars == <<active, made, tree, tail, released, pc, manager, ticket, left, found, aborted>>
managers == <<active, made, tree>>
request == <<manager, ticket>>

Init ==
  /\ active \in Tree
  /\ made = 0
  /\ tree = [m \in Manager |-> active]
  /\ tail = [m \in Manager |-> 0]
  /\ released = [m \in Manager |-> {}]
  /\ pc = [c \in Caller |-> "idle"]
  /\ manager = [c \in Caller |-> 1]
  /\ ticket = [c \in Caller |-> 0]
  /\ left = [c \in Caller |-> {}]
  /\ found = [c \in Caller |-> {}]
  /\ aborted = [c \in Caller |-> FALSE]

-----------------------------------------------------------------------------
(* Taking and leaving the turn. *)

\* activeTexPackageManager(): the shared manager serves the active tree.
Current == made > 0 /\ tree[made] = active

\* Mutant: every caller waits for the first one only.
ReadyAfterFirst(c) == ticket[c] = 1 \/ 1 \in released[manager[c]]

\* The promise the caller replaced is resolved.
Ready(c) == ticket[c] = 1 \/ ticket[c] - 1 \in released[manager[c]]

\* Mutant: a cancelled call returns without releasing its turn.
ReleaseUnlessCancelled(c) ==
  IF aborted[c] THEN UNCHANGED released
  ELSE released' = [released EXCEPT ![manager[c]] = @ \cup {ticket[c]}]

\* The promise of the caller itself is resolved: finally { releaseQueue() }.
Release(c) == released' = [released EXCEPT ![manager[c]] = @ \cup {ticket[c]}]

Return(c) ==
  /\ pc' = [pc EXCEPT ![c] = "idle"]
  /\ left' = [left EXCEPT ![c] = {}] /\ found' = [found EXCEPT ![c] = {}]
  /\ Release(c)

Continue(c, at) ==
  /\ pc' = [pc EXCEPT ![c] = at]
  /\ UNCHANGED released

\* extractMissingTexFiles(): the log of the compiler names some files; an update
\* of the management console searches for none.
Missing(c) == IF c \in Updater THEN {{}} ELSE SUBSET File \ {{}}

\* packageForExactFile(): the search for f named a package with that very file,
\* or it did not.
Matched(c, f) == {found[c], found[c] \cup {f}}

\* A call; one that has nothing to resolve, or is disabled, changes nothing.
Call(c) ==
  /\ pc[c] = "idle"
  /\ made' = IF Current THEN made ELSE made + 1
  /\ made' \in Manager /\ tail[made'] < MaxTicket
  /\ tree' = [tree EXCEPT ![made'] = active]
  /\ tail' = [tail EXCEPT ![made'] = @ + 1]
  /\ pc' = [pc EXCEPT ![c] = "waiting"]
  /\ manager' = [manager EXCEPT ![c] = made']
  /\ ticket' = [ticket EXCEPT ![c] = tail[made'] + 1]
  /\ \E files \in Missing(c) : left' = [left EXCEPT ![c] = files]
  /\ aborted' = [aborted EXCEPT ![c] = FALSE]
  /\ UNCHANGED <<active, released, found>>

\* The turn comes: an update starts, and so does the first search, unless the
\* compilation was cancelled meanwhile.
Turn(c) ==
  /\ pc[c] = "waiting" /\ Ready(c)
  /\ IF c \in Updater THEN Continue(c, "update") /\ UNCHANGED <<left, found>>
     ELSE IF aborted[c] THEN Return(c)
     ELSE Continue(c, "search") /\ UNCHANGED <<left, found>>
  /\ UNCHANGED <<managers, tail, request, aborted>>

-----------------------------------------------------------------------------
(* The commands of a turn. *)

\* The search for f ends well, with or without a package for it; the loop goes
\* on to the next file, and after the last one to the installation.
Searched(c) ==
  /\ pc[c] = "search"
  /\ \E f \in left[c] : \E hits \in Matched(c, f) :
       LET rest == left[c] \ {f}
       IN  IF (rest # {} /\ aborted[c]) \/ (rest = {} /\ hits = {})
           THEN Return(c)
           ELSE /\ Continue(c, IF rest = {} THEN "install" ELSE "search")
                /\ left' = [left EXCEPT ![c] = rest] /\ found' = [found EXCEPT ![c] = hits]
  /\ UNCHANGED <<managers, tail, request, aborted>>

\* tlmgr asks to be updated first, and the installation is tried once more.
NeedsSelfUpdate(c) ==
  /\ pc[c] = "install"
  /\ Continue(c, "selfUpdate")
  /\ UNCHANGED <<managers, tail, request, left, found, aborted>>

SelfUpdated(c) ==
  /\ pc[c] = "selfUpdate"
  /\ Continue(c, "reinstall")
  /\ UNCHANGED <<managers, tail, request, left, found, aborted>>

\* The last command ends, or one fails, is killed or cannot be started.
Ends(c) ==
  /\ pc[c] \in Running
  /\ Return(c)
  /\ UNCHANGED <<managers, tail, request, aborted>>

-----------------------------------------------------------------------------
(* The surroundings. *)

\* The deadline of the request passes, or the server shuts down.
Abort(c) ==
  /\ pc[c] # "idle" /\ ~aborted[c]
  /\ aborted' = [aborted EXCEPT ![c] = TRUE]
  /\ UNCHANGED <<managers, tail, released, pc, request, left, found>>

\* applyEnvironment() puts another provider's tlmgr in the environment.
Activate(t) ==
  /\ active' = t
  /\ UNCHANGED <<made, tree, tail, released, pc, request, left, found, aborted>>

Command(c) == Searched(c) \/ NeedsSelfUpdate(c) \/ SelfUpdated(c) \/ Ends(c)

Next ==
  \/ \E c \in Caller : Call(c) \/ Turn(c) \/ Command(c) \/ Abort(c)
  \/ \E t \in Tree : Activate(t)

Spec == Init /\ [][Next]_vars

\* Waiting is an await of a promise, a command is killed in time.
FairSpec == Spec /\ \A c \in Caller : WF_vars(Turn(c) \/ Command(c))

-----------------------------------------------------------------------------
(* Properties. *)

TypeOK ==
  /\ active \in Tree /\ made \in 0..MaxManager /\ tree \in [Manager -> Tree]
  /\ tail \in [Manager -> Nat] /\ released \in [Manager -> SUBSET Nat]
  /\ pc \in [Caller -> {"idle", "waiting"} \cup Running]
  /\ manager \in [Caller -> Manager] /\ ticket \in [Caller -> Nat]
  /\ left \in [Caller -> SUBSET File] /\ found \in [Caller -> SUBSET File]
  /\ aborted \in [Caller -> BOOLEAN]

\* A caller's ticket is its own, issued by its manager and not yet released.
OwnTicket ==
  \A c \in Caller : pc[c] # "idle" =>
    /\ 1 <= ticket[c] /\ ticket[c] <= tail[manager[c]]
    /\ ticket[c] \notin released[manager[c]]
    /\ \A d \in Caller \ {c} :
         pc[d] # "idle" /\ manager[d] = manager[c] => ticket[d] # ticket[c]

\* Tickets are released in order, each after the turn of the one before.
InOrder ==
  /\ \A m \in Manager : \A n \in released[m] :
       n <= tail[m] /\ \A k \in 1..n : k \in released[m]
  /\ \A c \in Caller : pc[c] \in Running => Ready(c)

\* What the promises of installQueue maintain: the inductive invariant.
IInv == TypeOK /\ OwnTicket /\ InOrder

\* At most one caller of a manager runs tlmgr, whoever is cancelled, fails or
\* returns early (installQueue, texPackageManager.ts:76-79 and 157-160).
OneTlmgrPerManager ==
  \A c, d \in Caller :
    pc[c] \in Running /\ pc[d] \in Running /\ manager[c] = manager[d] => c = d

\* No caller gets its turn before one that called the same manager earlier.
NoOvertaking ==
  [][\A c, d \in Caller :
       pc[c] = "waiting" /\ pc[d] = "waiting" /\ manager[c] = manager[d]
       /\ ticket[c] < ticket[d] => pc'[d] = "waiting"]_vars

\* Every call returns: the turn is passed on however the calls before it end,
\* for "finally" releases it (texPackageManager.ts:149-151 and 175-177).
EveryCallReturns == \A c \in Caller : pc[c] = "waiting" ~> pc[c] = "idle"
=============================================================================
