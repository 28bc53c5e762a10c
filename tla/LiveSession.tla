---------------------------- MODULE LiveSession ----------------------------
(***************************************************************************)
(* One private live-preview connection: class TexpressoLiveSession of      *)
(* typr-server/texpressoLiveSession.ts.                                    *)
(*                                                                         *)
(* JavaScript runs one handler at a time, so an action is the code between *)
(* two awaits.  Three coroutines can be suspended at once: initialize      *)
(* ("init"), drainChanges ("drain") and close (variable closer); frame     *)
(* handlers run to their first await and leave at most one protocol-error  *)
(* frame behind.  pc[o] names what coroutine o awaits.  Every outbound     *)
(* frame is appended to one promise chain (variable outbound); an entry's  *)
(* field k names the coroutine that awaits it.                             *)
(***************************************************************************)
EXTENDS Integers, Sequences

CONSTANTS
  MaxRevision,    \* bound on the revisions a client sends
  QueueLimit,     \* TEXPRESSO_WS_LIMITS.maxQueuedRevisions
  PageLimit,      \* TEXPRESSO_WS_LIMITS.maxPages
  OutboundBound   \* bound on the frames pending when a client sends another

ASSUME LiveAssumption ==
  /\ MaxRevision \in Nat \ {0}
  /\ QueueLimit \in Nat \ {0}
  /\ PageLimit \in Nat \ {0}
  /\ OutboundBound \in Nat \ {0}

Revision  == 1..MaxRevision
Coroutine == {"init", "drain"}

\* What a coroutine awaits.  The first row is initialize's own file and
\* process work, the second native requests, the others the frame it sent.
Await ==
  {"idle", "done", "mkdtemp", "materialize", "start", "lateclose",
   "apply", "page", "count",
   "ready", "started", "refused", "notrendered", "coalesced", "pending",
   "error", "doc", "send", "complete", "failing"}

FrameType ==
  {"session-ready", "revision-started", "revision-applied", "compile-error",
   "document", "page", "png", "revision-complete", "protocol-error",
   "session-error", "session-closed"}

\* Who awaits a frame: a coroutine, a frame handler (non-fatal or fatal
\* protocol error), the exit listener, close, or nobody (the first of the
\* two frames of one sendPage task).
Waiter == Coroutine \cup {"frame", "fatal", "exit", "close", "none"}

Frame == [type : FrameType, rev : 0..MaxRevision, n : Nat, k : Waiter]

VARIABLES
  socket,       \* "open"; "broken": peer gone, event not yet seen; "closed"
  closer,       \* "open" until close() runs; then what close() awaits
  reapSession,  \* close() still awaits session.close()
  reapDir,      \* close() still awaits rm(workspace)
  workspace,    \* this.workspace is set
  dir,          \* the temporary directory exists on disk
  native,       \* the TeXpresso process
  pages,        \* pages of the native document, as last compiled
  latexError,   \* the native log of the last compilation holds an error
  edits,        \* revisions the native buffers hold, oldest first
  initialized,  \* this.initialized; this.session is set with it
  pc, rev,      \* per coroutine: what it awaits, and its revision
  shot,         \* per coroutine: pages rasterized, as the revision each shows
  queue,        \* accepted revisions not yet dequeued
  latest,       \* latestReceivedRevision
  applied,      \* appliedRevision
  lastGood,     \* lastGoodRevision, 0 for null
  outbound,     \* frames of the outbound promise chain, not yet sent
  accepted,     \* history: every revision accepted, in order
  seen          \* what the peer has received (see Observe)

vars == <<socket, closer, reapSession, reapDir, workspace, dir, native, pages,
          latexError, edits, initialized, pc, rev, shot, queue, latest,
          applied, lastGood, outbound, accepted, seen>>

closeVars  == <<closer, reapSession, reapDir>>
nativeVars == <<native, pages, latexError, edits>>
revVars    == <<latest, applied, lastGood, accepted>>
diskVars   == <<workspace, dir>>

Init ==
  /\ socket = "open" /\ closer = "open"
  /\ reapSession = FALSE /\ reapDir = FALSE
  /\ workspace = FALSE /\ dir = FALSE
  /\ native = "none" /\ pages = 0 /\ latexError = FALSE /\ edits = <<>>
  /\ initialized = FALSE
  /\ pc = [o \in Coroutine |-> "idle"]
  /\ rev = [o \in Coroutine |-> 0]
  /\ shot = [o \in Coroutine |-> <<>>]
  /\ queue = <<>> /\ outbound = <<>> /\ accepted = <<>>
  /\ latest = 0 /\ applied = 0 /\ lastGood = 0
  /\ seen = [last |-> "none", rev |-> 0, begun |-> 0, commit |-> 0, doc |-> 0,
             want |-> 0, got |-> 0, told |-> 0]

-----------------------------------------------------------------------------
(* Helpers shared by the actions. *)

Msg(t, r, n, k) == [type |-> t, rev |-> r, n |-> n, k |-> k]

initializing == pc["init"] \notin {"idle", "done"}
processing   == pc["drain"] # "idle"

\* The value pc takes when coroutine o returns.
Return(p, o) == [p EXCEPT ![o] = IF o = "init" THEN "done" ELSE "idle"]

\* close(reason, notify), with out the outbound chain it finds.
Close(out, notify) ==
  IF closer # "open"
  THEN outbound' = out /\ UNCHANGED <<closeVars, queue>>
  ELSE /\ queue' = <<>>
       /\ IF notify /\ socket = "open"
          THEN /\ closer' = "notify"
               /\ outbound' = Append(out, Msg("session-closed", 0, 0, "close"))
               /\ UNCHANGED <<reapSession, reapDir>>
          ELSE /\ closer' = "reap"
               /\ outbound' = out
               /\ reapSession' = initialized
               /\ reapDir' = workspace

\* The while loop of drainChanges up to its first await, entered with the pc
\* values p, the queue q and the outbound chain out.
TakeNext(p, q, out) ==
  IF closer = "open" /\ q # <<>>
  THEN /\ queue' = Tail(q)
       /\ pc' = [p EXCEPT !["drain"] = "started"]
       /\ rev' = [rev EXCEPT !["drain"] = Head(q)]
       /\ outbound' = Append(out, Msg("revision-started", Head(q), 0, "drain"))
  ELSE queue' = q /\ pc' = p /\ outbound' = out /\ UNCHANGED rev

\* Mutant of Drain: the initializing flag is not looked at.
DrainWhileInitializing(p, q, out) ==
  IF p["drain"] = "idle" /\ initialized
  THEN TakeNext(p, q, out)
  ELSE queue' = q /\ pc' = p /\ outbound' = out /\ UNCHANGED rev

\* void drainChanges(): its guards, then the loop.
Drain(p, q, out) ==
  IF p["drain"] = "idle" /\ p["init"] \in {"idle", "done"} /\ initialized
  THEN TakeNext(p, q, out)
  ELSE queue' = q /\ pc' = p /\ outbound' = out /\ UNCHANGED rev

\* Mutant of Finish: the finally block of initialize does not drain.
FinishNoDrain(o, out) ==
  IF o = "drain" THEN TakeNext(Return(pc, o), queue, out)
  ELSE pc' = Return(pc, o) /\ outbound' = out /\ UNCHANGED <<queue, rev>>

\* Coroutine o is through with its revision: initialize ends in its finally
\* block, drainChanges goes round its loop; either may dequeue a change.
Finish(o, out) ==
  IF o = "drain" THEN TakeNext(Return(pc, o), queue, out)
                 ELSE Drain(Return(pc, o), queue, out)

\* sessionFailure(...) called by coroutine o.
FailSession(o, out) ==
  IF closer # "open"
  THEN pc' = Return(pc, o) /\ outbound' = out
  ELSE /\ pc' = [pc EXCEPT ![o] = "failing"]
       /\ outbound' = Append(out, Msg("session-error", applied, 0, o))

\* Coroutine o appends one frame and awaits it in state s.
Send(o, s, out, m) == pc' = [pc EXCEPT ![o] = s] /\ outbound' = Append(out, m)

\* renderRevision(...) called by coroutine o, up to its first await.
StartRender(o, out) ==
  /\ shot' = [shot EXCEPT ![o] = <<>>]
  /\ IF closer = "open"
     THEN pc' = [pc EXCEPT ![o] = "page"] /\ outbound' = out
                /\ UNCHANGED <<queue, rev>>
     ELSE Finish(o, out)

\* The peer's view after frame m: the last frame, the last revision begun or
\* declared ready, the committed revision, the document being received, and
\* the lastGoodRevision it was last told.
Observe(s, m) ==
  LET t == [s EXCEPT !.last = m.type, !.rev = m.rev]
  IN CASE m.type \in {"session-ready", "revision-started"} ->
            [t EXCEPT !.begun = m.rev]
       [] m.type = "document" -> [t EXCEPT !.doc = m.rev, !.want = m.n, !.got = 0]
       [] m.type = "png" -> [t EXCEPT !.got = @ + 1]
       [] m.type = "revision-complete" ->
            [t EXCEPT !.commit = m.rev, !.doc = 0, !.want = 0, !.got = 0]
       [] m.type = "compile-error" -> [t EXCEPT !.told = m.n]
       [] OTHER -> t

-----------------------------------------------------------------------------
(* Frames from the peer: handleFrame.  Once closing is set they are dropped. *)

Receiving == closer = "open" /\ socket # "closed" /\ Len(outbound) < OutboundBound

ProtocolFailure(k) ==
  outbound' = Append(outbound, Msg("protocol-error", 0, 0, k))

\* The first initialize message: initialize() runs up to mkdtemp.
Initialize(r) ==
  /\ Receiving /\ ~initialized /\ ~initializing
  /\ pc' = [pc EXCEPT !["init"] = "mkdtemp"]
  /\ rev' = [rev EXCEPT !["init"] = r]
  /\ UNCHANGED <<socket, closeVars, diskVars, nativeVars, initialized, shot,
                 queue, revVars, outbound, seen>>

\* Mutant of Change: the limit is compared with > instead of >=.
ChangeOverLimit(r) ==
  /\ Receiving /\ initialized /\ r > latest /\ Len(queue) <= QueueLimit
  /\ latest' = r
  /\ accepted' = Append(accepted, r)
  /\ Drain(pc, Append(queue, r), outbound)
  /\ UNCHANGED <<socket, closeVars, diskVars, nativeVars, initialized, shot,
                 applied, lastGood, seen>>

\* A change that is accepted, and dequeued at once if nothing else runs.
Change(r) ==
  /\ Receiving /\ initialized /\ r > latest /\ Len(queue) < QueueLimit
  /\ latest' = r
  /\ accepted' = Append(accepted, r)
  /\ Drain(pc, Append(queue, r), outbound)
  /\ UNCHANGED <<socket, closeVars, diskVars, nativeVars, initialized, shot,
                 applied, lastGood, seen>>

\* revision-queue-full.
QueueFull(r) ==
  /\ Receiving /\ initialized /\ r > latest /\ Len(queue) >= QueueLimit
  /\ ProtocolFailure("fatal")
  /\ UNCHANGED <<socket, closeVars, diskVars, nativeVars, initialized, pc, rev,
                 shot, queue, revVars, seen>>

\* A frame refused with an error: non-fatal (bad JSON, invalid message, second
\* initialize, not initialized, stale revision, unknown file) or fatal (binary).
RefuseFrame(k) ==
  /\ Receiving
  /\ ProtocolFailure(k)
  /\ UNCHANGED <<socket, closeVars, diskVars, nativeVars, initialized, pc, rev,
                 shot, queue, revVars, seen>>

\* A shutdown message, the idle or lifetime timer, or the server's shutdown.
CloseRequested ==
  /\ closer = "open"
  /\ Close(outbound, TRUE)
  /\ UNCHANGED <<socket, diskVars, nativeVars, initialized, pc, rev, shot,
                 revVars, seen>>

PeerVanishes ==
  /\ socket = "open" /\ socket' = "broken"
  /\ UNCHANGED <<closeVars, diskVars, nativeVars, initialized, pc, rev, shot,
                 queue, revVars, outbound, seen>>

\* The socket's "close" or "error" event.
SocketEvent ==
  /\ socket = "broken" /\ socket' = "closed"
  /\ Close(outbound, FALSE)
  /\ UNCHANGED <<diskVars, nativeVars, initialized, pc, rev, shot, revVars, seen>>

PeerStep ==
  \/ \E r \in Revision : Initialize(r) \/ Change(r) \/ QueueFull(r)
  \/ \E k \in {"frame", "fatal"} : RefuseFrame(k)
  \/ CloseRequested
  \/ PeerVanishes

-----------------------------------------------------------------------------
(* initialize: directory, files, native process. *)

Mkdtemp ==
  /\ pc["init"] = "mkdtemp"
  /\ workspace' = TRUE /\ dir' = TRUE
  /\ pc' = [pc EXCEPT !["init"] = "materialize"]
  /\ UNCHANGED <<socket, closeVars, nativeVars, initialized, rev, shot, queue,
                 revVars, outbound, seen>>

\* materializeProjectFiles ends: its last mkdir -p recreates a directory that
\* close() removed meanwhile.  startLiveLatexSession spawns the process.
Materialize ==
  /\ pc["init"] = "materialize"
  /\ dir' = TRUE
  /\ native' = "starting"
  /\ pc' = [pc EXCEPT !["init"] = "start"]
  /\ UNCHANGED <<socket, closeVars, workspace, pages, latexError, edits,
                 initialized, rev, shot, queue, revVars, outbound, seen>>

\* What the native process compiled: any page count, errors or none.
Compiled(e) ==
  /\ edits' = e
  /\ pages' \in 0..(PageLimit + 1)
  /\ latexError' \in BOOLEAN

\* Mutant of Started: closing is not looked at again after the await.
StartedUnchecked ==
  /\ pc["init"] = "start"
  /\ native' = "up"
  /\ Compiled(<<rev["init"]>>)
  /\ initialized' = TRUE
  /\ latest' = rev["init"] /\ applied' = rev["init"]
  /\ accepted' = <<rev["init"]>>
  /\ Send("init", "ready", outbound, Msg("session-ready", rev["init"], 0, "init"))
  /\ UNCHANGED <<socket, closeVars, diskVars, rev, shot, queue, lastGood, seen>>

\* startLiveLatexSession resolves.
Started ==
  /\ pc["init"] = "start"
  /\ native' = "up"
  /\ Compiled(<<rev["init"]>>)
  /\ IF closer # "open"
     THEN /\ pc' = [pc EXCEPT !["init"] = "lateclose"]
          /\ UNCHANGED <<initialized, revVars, outbound>>
     ELSE /\ initialized' = TRUE
          /\ latest' = rev["init"] /\ applied' = rev["init"]
          /\ accepted' = <<rev["init"]>>
          /\ Send("init", "ready", outbound,
                  Msg("session-ready", rev["init"], 0, "init"))
          /\ UNCHANGED lastGood
  /\ UNCHANGED <<socket, closeVars, diskVars, rev, shot, queue, seen>>

\* The session of a connection that closed meanwhile is closed at once.
LateClose ==
  /\ pc["init"] = "lateclose"
  /\ native' = "down"
  /\ pc' = Return(pc, "init")
  /\ UNCHANGED <<socket, closeVars, diskVars, pages, latexError, edits,
                 initialized, rev, shot, queue, revVars, outbound, seen>>

\* mkdtemp, a file write or the native start rejects.
InitFails ==
  /\ pc["init"] \in {"mkdtemp", "materialize", "start"}
  /\ native' = IF pc["init"] = "start" THEN "down" ELSE native
  /\ FailSession("init", outbound)
  /\ UNCHANGED <<socket, closeVars, diskVars, pages, latexError, edits,
                 initialized, rev, shot, queue, revVars, seen>>

InitStep == Mkdtemp \/ Materialize \/ Started \/ LateClose \/ InitFails

-----------------------------------------------------------------------------
(* Answers of the native session to the coroutine that awaits them. *)

\* A request the native session cannot answer ends with an error reply, or in
\* a timeout that closes the native session without telling its exit listener.
MayDie == native' \in {native, IF native = "up" THEN "down" ELSE native}

\* Mutant of ApplyOk: a newer change in the queue makes it skip the edit too.
ApplyUnlessNewer ==
  /\ pc["drain"] = "apply" /\ native = "up"
  /\ IF queue = <<>> THEN Compiled(Append(edits, rev["drain"]))
     ELSE UNCHANGED <<edits, pages, latexError>>
  /\ applied' = rev["drain"]
  /\ Send("drain", IF queue # <<>> THEN "coalesced" ELSE "pending", outbound,
          Msg("revision-applied", rev["drain"], 0, "drain"))
  /\ UNCHANGED <<socket, closeVars, diskVars, native, initialized, rev, shot,
                 queue, latest, lastGood, accepted, seen>>

\* applyRangeChange resolves with the recompiled snapshot.
ApplyOk ==
  /\ pc["drain"] = "apply" /\ native = "up"
  /\ Compiled(Append(edits, rev["drain"]))
  /\ applied' = rev["drain"]
  /\ LET s == CASE latexError'  -> "notrendered"
               [] ~latexError' /\ queue # <<>> -> "coalesced"
               [] OTHER -> "pending"
     IN Send("drain", s, outbound,
             Msg("revision-applied", rev["drain"], 0, "drain"))
  /\ UNCHANGED <<socket, closeVars, diskVars, native, initialized, rev, shot,
                 queue, latest, lastGood, accepted, seen>>

\* applyRangeChange rejects, for whatever reason: invalid-change-range.
ApplyFails ==
  /\ pc["drain"] = "apply"
  /\ MayDie
  /\ Send("drain", "refused", outbound,
          Msg("protocol-error", rev["drain"], 0, "drain"))
  /\ UNCHANGED <<socket, closeVars, diskVars, pages, latexError, edits,
                 initialized, rev, shot, queue, revVars, seen>>

\* A page is rasterized; before the next one renderRevision looks for a newer
\* revision and gives up if there is one.
PageOk(o) ==
  /\ pc[o] = "page" /\ native = "up"
  /\ Len(shot[o]) < pages /\ Len(shot[o]) < PageLimit
  /\ IF rev[o] # latest
     THEN shot' = [shot EXCEPT ![o] = <<>>] /\ Finish(o, outbound)
     ELSE /\ shot' = [shot EXCEPT ![o] = Append(@, edits[Len(edits)])]
          /\ UNCHANGED <<pc, rev, queue, outbound>>
  /\ UNCHANGED <<socket, closeVars, diskVars, nativeVars, initialized, revVars,
                 seen>>

\* The page does not exist, is too large, lies past the page limit, or the
\* request failed: the catch block asks for the page count.
PageFails(o) ==
  /\ pc[o] = "page"
  /\ MayDie
  /\ pc' = [pc EXCEPT ![o] = "count"]
  /\ UNCHANGED <<socket, closeVars, diskVars, pages, latexError, edits,
                 initialized, rev, shot, queue, revVars, outbound, seen>>

\* Mutant of WholeDocument: the page count is not compared.
AnyPages(o) == Len(shot[o]) < PageLimit /\ Len(shot[o]) > 0

\* The catch block: every page is there, and the loop did not reach the limit.
WholeDocument(o) ==
  /\ Len(shot[o]) < PageLimit
  /\ pages = Len(shot[o]) /\ Len(shot[o]) > 0

\* getPageCount resolves: publish, drop a document made stale, or fail.
CountOk(o) ==
  /\ pc[o] = "count" /\ native = "up"
  /\ IF ~WholeDocument(o)
     THEN FailSession(o, outbound) /\ UNCHANGED <<shot, rev, queue, lastGood>>
     ELSE IF rev[o] # latest
     THEN /\ shot' = [shot EXCEPT ![o] = <<>>]
          /\ Finish(o, outbound) /\ UNCHANGED lastGood
     ELSE /\ lastGood' = rev[o]
          /\ Send(o, "doc", outbound, Msg("document", rev[o], Len(shot[o]), o))
          /\ UNCHANGED <<shot, rev, queue>>
  /\ UNCHANGED <<socket, closeVars, diskVars, nativeVars, initialized, latest,
                 applied, accepted, seen>>

\* Mutant of CountFails: the failure is taken for a missing page.
CountRetries(o) ==
  /\ pc[o] = "count"
  /\ native' = "down"
  /\ pc' = [pc EXCEPT ![o] = "page"]
  /\ UNCHANGED <<socket, closeVars, diskVars, pages, latexError, edits,
                 initialized, rev, shot, queue, revVars, outbound, seen>>

\* getPageCount rejects: the native session is gone or timed out.
CountFails(o) ==
  /\ pc[o] = "count"
  /\ native' = "down"
  /\ FailSession(o, outbound)
  /\ UNCHANGED <<socket, closeVars, diskVars, pages, latexError, edits,
                 initialized, rev, shot, queue, revVars, seen>>

NativeReply ==
  \/ ApplyOk \/ ApplyFails
  \/ \E o \in Coroutine : PageOk(o) \/ PageFails(o) \/ CountOk(o) \/ CountFails(o)

\* The process dies by itself: the exit listener reports it and closes.
NativeExit ==
  /\ native = "up" /\ native' = "down"
  /\ outbound' = IF initialized /\ closer = "open"
                 THEN Append(outbound, Msg("session-error", applied, 0, "exit"))
                 ELSE outbound
  /\ UNCHANGED <<socket, closeVars, diskVars, pages, latexError, edits,
                 initialized, pc, rev, shot, queue, revVars, seen>>

-----------------------------------------------------------------------------
(* The outbound chain: its first frame is written and whoever awaits it goes  *)
(* on.  Frames find the socket open, are skipped, or, once it broke, reject.  *)

Head1 == Head(outbound)
Rest  == Tail(outbound)

Transmit(k) ==
  /\ outbound # <<>> /\ Head1.k = k
  /\ seen' = IF socket = "open" THEN Observe(seen, Head1) ELSE seen

Reject(k) == outbound # <<>> /\ Head1.k = k /\ socket # "open" /\ UNCHANGED seen

\* A frame nobody goes on from: the JSON half of a page, a non-fatal error.
PlainSent ==
  /\ Transmit("none") \/ Transmit("frame")
  /\ outbound' = Rest
  /\ UNCHANGED <<socket, closeVars, diskVars, nativeVars, initialized, pc, rev,
                 shot, queue, revVars>>

\* protocolFailure's catch block.
PlainRejected ==
  /\ Reject("frame")
  /\ Close(Rest, FALSE)
  /\ UNCHANGED <<socket, diskVars, nativeVars, initialized, pc, rev, shot, revVars>>

\* A fatal protocol error or the exit report is out: close("error").
FatalSent ==
  /\ Transmit("fatal") \/ Transmit("exit")
  /\ Close(Rest, TRUE)
  /\ UNCHANGED <<socket, diskVars, nativeVars, initialized, pc, rev, shot, revVars>>

\* session-closed is out: close() shuts the socket and starts reaping.
ClosedSent ==
  /\ closer = "notify" /\ Transmit("close")
  /\ socket' = "closed" /\ closer' = "reap"
  /\ reapSession' = initialized /\ reapDir' = workspace
  /\ outbound' = Rest
  /\ UNCHANGED <<diskVars, nativeVars, initialized, pc, rev, shot, queue, revVars>>

\* Mutant of SendPage: the image goes out before its announcement.
SendPageSwapped(o, out) ==
  /\ pc' = [pc EXCEPT ![o] = "send"]
  /\ shot' = [shot EXCEPT ![o] = Tail(@)]
  /\ outbound' = out \o << Msg("png", Head(shot[o]), 0, "none"),
                            Msg("page", rev[o], 0, o) >>

\* One sendPage task of coroutine o: two adjacent frames.
SendPage(o, out) ==
  /\ pc' = [pc EXCEPT ![o] = "send"]
  /\ shot' = [shot EXCEPT ![o] = Tail(@)]
  /\ outbound' = out \o << Msg("page", rev[o], 0, "none"),
                            Msg("png", Head(shot[o]), 0, o) >>

\* Coroutine o goes on to its next frame or native request.
StepSent(o) ==
  /\ Transmit(o)
  /\ \/ /\ pc[o] = "started"
        /\ pc' = [pc EXCEPT ![o] = "apply"] /\ outbound' = Rest
        /\ UNCHANGED <<shot, rev, queue>>
     \/ /\ pc[o] = "notrendered" \/ (pc[o] = "ready" /\ latexError)
        /\ Send(o, "error", Rest, Msg("compile-error", rev[o], lastGood, o))
        /\ UNCHANGED <<shot, rev, queue>>
     \/ /\ pc[o] = "pending" \/ (pc[o] = "ready" /\ ~latexError)
        /\ StartRender(o, Rest)
     \/ /\ pc[o] \in {"coalesced", "error", "complete"}
        /\ Finish(o, Rest) /\ UNCHANGED shot
     \/ /\ pc[o] \in {"doc", "send"} /\ shot[o] # <<>>
        /\ SendPage(o, Rest) /\ UNCHANGED <<rev, queue>>
     \/ /\ pc[o] \in {"doc", "send"} /\ shot[o] = <<>>
        /\ Send(o, "complete", Rest, Msg("revision-complete", rev[o], 0, o))
        /\ UNCHANGED <<shot, rev, queue>>
  /\ UNCHANGED <<socket, closeVars, diskVars, nativeVars, initialized, revVars>>

\* The frame coroutine o awaits rejects: its catch block fails the session.
StepRejected(o) ==
  /\ Reject(o)
  /\ pc[o] \in {"ready", "started", "notrendered", "coalesced", "pending",
                "error", "doc", "send", "complete"}
  /\ FailSession(o, Rest)
  /\ UNCHANGED <<socket, closeVars, diskVars, nativeVars, initialized, rev, shot,
                 queue, revVars>>

\* The error report of coroutine o is out, or lost: close("error").
FailureSent(o) ==
  /\ Transmit(o)
  /\ pc[o] \in {"refused", "failing"}
  /\ Close(Rest, TRUE)
  /\ pc' = Return(pc, o)
  /\ UNCHANGED <<socket, diskVars, nativeVars, initialized, rev, shot, revVars>>

Deliver ==
  \/ PlainSent \/ PlainRejected \/ FatalSent \/ ClosedSent
  \/ \E o \in Coroutine : StepSent(o) \/ StepRejected(o) \/ FailureSent(o)

-----------------------------------------------------------------------------
(* close(): the native session and the directory go, in either order. *)

ReapSession ==
  /\ reapSession /\ reapSession' = FALSE
  /\ native' = "down"
  /\ UNCHANGED <<socket, closer, reapDir, diskVars, pages, latexError, edits,
                 initialized, pc, rev, shot, queue, revVars, outbound, seen>>

ReapDir ==
  /\ reapDir /\ reapDir' = FALSE
  /\ dir' = FALSE
  /\ UNCHANGED <<socket, closer, reapSession, workspace, nativeVars, initialized,
                 pc, rev, shot, queue, revVars, outbound, seen>>

\* onClosed and resolveClosed.
CloseDone ==
  /\ closer = "reap" /\ ~reapSession /\ ~reapDir
  /\ closer' = "closed"
  /\ socket' = IF socket = "open" THEN "closed" ELSE socket
  /\ UNCHANGED <<reapSession, reapDir, diskVars, nativeVars, initialized, pc, rev,
                 shot, queue, revVars, outbound, seen>>

Reap == ReapSession \/ ReapDir \/ CloseDone

\* The connection is over and no coroutine is left.
Terminated ==
  /\ closer = "closed" /\ outbound = <<>> /\ socket = "closed"
  /\ pc["init"] \in {"idle", "done"} /\ pc["drain"] = "idle"
  /\ UNCHANGED vars

Next ==
  \/ PeerStep \/ SocketEvent \/ InitStep \/ NativeReply \/ NativeExit
  \/ Deliver \/ Reap \/ Terminated

Spec == Init /\ [][Next]_vars

(* The event loop runs what is ready; native requests and the native start    *)
(* end by their own 30 s timeouts; a peer that stays connected reads.  Frames *)
(* from the peer, timers and exits need not happen.                           *)
Fairness ==
  /\ WF_vars(SocketEvent) /\ WF_vars(InitStep) /\ WF_vars(NativeReply)
  /\ WF_vars(Deliver) /\ WF_vars(Reap)

FairSpec == Spec /\ Fairness

-----------------------------------------------------------------------------
(* Properties. *)

\* Every variable has its type, and the queue never exceeds its limit.
TypeOK ==
  /\ socket \in {"open", "broken", "closed"}
  /\ closer \in {"open", "notify", "reap", "closed"}
  /\ reapSession \in BOOLEAN /\ reapDir \in BOOLEAN
  /\ workspace \in BOOLEAN /\ dir \in BOOLEAN
  /\ native \in {"none", "starting", "up", "down"}
  /\ pages \in 0..(PageLimit + 1) /\ latexError \in BOOLEAN
  /\ edits \in Seq(Revision) /\ initialized \in BOOLEAN
  /\ pc \in [Coroutine -> Await]
  /\ rev \in [Coroutine -> 0..MaxRevision]
  /\ shot \in [Coroutine -> Seq(Revision)]
  /\ queue \in Seq(Revision) /\ Len(queue) <= QueueLimit
  /\ latest \in 0..MaxRevision /\ applied \in 0..MaxRevision
  /\ lastGood \in 0..MaxRevision
  /\ outbound \in Seq(Frame) /\ accepted \in Seq(Revision)

\* The change drainChanges has dequeued and not yet applied.
InFlight ==
  IF pc["drain"] \in {"started", "apply", "refused"} THEN <<rev["drain"]>>
                                                    ELSE <<>>

\* "Changes are always dequeued and applied in order, so coalescing never loses
\* source edits": while the session is open, the revisions in the native
\* buffers, then the one in flight, then the queued ones are exactly the
\* revisions the session accepted, in order (enqueueChange and drainChanges).
NoEditLost ==
  closer = "open" /\ initialized /\ pc["drain"] # "failing"
    => accepted = edits \o InFlight \o queue

\* The initial render and drainChanges never run at the same time, so native
\* requests of two revisions never interleave (the initializing and processing
\* guards of drainChanges).
OneRenderer == ~(initializing /\ processing)

\* No wakeup is lost: an open session in which neither coroutine runs has an
\* empty queue, and the newest accepted revision is either the one last
\* published or one that does not compile (the drainChanges calls in the
\* finally blocks and in enqueueChange, and every "newer revision" return of
\* renderRevision).
SettledIsShown ==
  closer = "open" /\ initialized /\ ~initializing /\ ~processing
    => /\ queue = <<>> /\ applied = latest
       /\ latexError \/ lastGood = latest

\* A connection that was initialized leaves nothing behind: once close()
\* resolves, its process is gone and its directory removed.
Reaped == closer = "closed" /\ initialized => native = "down" /\ ~dir

\* docs/companion-protocol.md:335: the directory "exists only for that
\* connection, and is recursively removed at teardown".  Stated of every
\* connection whose close() resolved and whose initialize() returned.
DirectoryRemoved ==
  closer = "closed" /\ pc["init"] \in {"idle", "done"} => ~dir

(* The strengthening of OneRenderer, SettledIsShown and Reaped that is        *)
(* inductive, in parts.                                                       *)

InitAwait  == {"idle", "done", "mkdtemp", "materialize", "start", "lateclose",
               "ready", "page", "count", "error", "doc", "send", "complete",
               "failing"}
DrainAwait == {"idle", "started", "apply", "refused", "notrendered", "coalesced",
               "pending", "page", "count", "error", "doc", "send", "complete",
               "failing"}
Rendering  == {"ready", "notrendered", "coalesced", "pending", "page", "count",
               "error", "doc", "send", "complete"}

\* Which coroutine can be where, before and after initialization.
Stages ==
  /\ pc["init"] \in InitAwait /\ pc["drain"] \in DrainAwait
  /\ ~initialized => queue = <<>> /\ ~processing
  /\ pc["init"] \in {"idle", "mkdtemp", "materialize", "start", "lateclose"}
       => ~initialized
  /\ pc["init"] \in {"ready", "page", "count", "error", "doc", "send", "complete"}
       => initialized
  /\ pc["init"] \in {"materialize", "start"} \/ initialized => workspace
  /\ closer # "open" => queue = <<>>
  /\ initialized => edits # <<>>
  /\ pc["init"] # "idle" => rev["init"] \in Revision
  /\ processing => rev["drain"] \in Revision

\* The newest accepted revision is the last one queued, else the one in flight,
\* else the one applied.
Newest ==
  closer = "open" /\ initialized /\ pc["drain"] # "failing" =>
    latest = IF queue # <<>> THEN queue[Len(queue)]
             ELSE IF InFlight # <<>> THEN rev["drain"] ELSE applied

\* What a coroutine past its native request knows of its revision.
Working(o) ==
  /\ pc[o] \in Rendering => applied = rev[o]
  /\ pc[o] \in {"notrendered", "error"} => latexError
  /\ pc[o] \in {"doc", "send", "complete"} => lastGood = rev[o]
  /\ pc[o] = "coalesced" /\ closer = "open" => queue # <<>>

\* What close() has still to do.
Reaping ==
  /\ closer \in {"reap", "closed"} /\ initialized =>
       (native = "down" \/ reapSession) /\ (~dir \/ reapDir)
  /\ closer = "closed" => ~reapSession /\ ~reapDir
  /\ reapSession \/ reapDir => closer = "reap"

\* The inductive invariant: types, stages and what each stage has established.
IInv ==
  /\ TypeOK /\ Stages /\ OneRenderer /\ Newest
  /\ \A o \in Coroutine : Working(o)
  /\ SettledIsShown /\ Reaping

\* A document is announced only while its revision is the newest accepted one,
\* and its pages are all the pages of the native document, each rasterized
\* when the native buffers stood at that revision (renderRevision).
PublishedWhole ==
  [][\A o \in Coroutine : pc[o] # "doc" /\ pc'[o] = "doc" =>
       /\ rev[o] = latest /\ Len(shot[o]) = pages
       /\ \A i \in 1..Len(shot[o]) : shot[o][i] = edits[Len(edits)]
       /\ edits[Len(edits)] = rev[o]]_vars

\* docs/companion-protocol.md:431 limits a document to 64 pages: a document
\* within the limit, all of whose pages are rasterized and whose page count the
\* native session confirms, does not fail the session.
DocumentWithinLimitAccepted ==
  [][\A o \in Coroutine :
       /\ pc[o] = "count" /\ native' = "up"
       /\ pages \in 1..PageLimit /\ Len(shot[o]) = pages
       => pc'[o] # "failing"]_vars

\* Every session that begins to close ends: the socket and close() are done, no
\* coroutine is left and the native process is gone, even one whose start was
\* still pending (close() and the closing branch of initialize).
CloseCompletes ==
  closer # "open" ~> /\ closer = "closed" /\ native \in {"none", "down"}
                     /\ ~initializing /\ ~processing

\* An accepted change is worked off: an open session comes to rest or closes.
WorkSettles ==
  processing \/ initializing ~> (~processing /\ ~initializing) \/ closer # "open"
=============================================================================
