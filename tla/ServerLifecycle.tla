--------------------------- MODULE ServerLifecycle ---------------------------
(***************************************************************************)
(* The front end of the companion, from the first request to the end of    *)
(* the shutdown: createTyprServer(), handleUpgrade() and                   *)
(* shutdownTyprServer() of typr-server/server.ts, around the compile       *)
(* requests of CompileService.                                             *)
(*                                                                         *)
(* A request is read and authorized before it is admitted; its peer may go *)
(* away while it is worked on.  A WebSocket is authorized, then given one  *)
(* of the slots for live sessions; LiveSession has what happens in one,    *)
(* here it begins to close and, later, calls onClosed().  The shutdown     *)
(* aborts, then awaits in turn the live sessions it found, the sockets of  *)
(* the WebSocket server, and the connections of the HTTP server; until the *)
(* last of these the listener goes on accepting.                           *)
(***************************************************************************)
EXTENDS CompileService

CONSTANTS
  Peer,     \* peers that may open a live session, one after the other
  MaxLive   \* MAX_ACTIVE_LIVE_SESSIONS

ASSUME LifecycleAssumption == IsFiniteSet(Peer) /\ MaxLive \in Nat

VARIABLES
  stage,        \* what shutdownTyprServer() awaits
  arrived,      \* requests being authorized and read, not yet admitted
  connected,    \* activeRequests: neither answered nor abandoned by its peer
  authorizing,  \* upgrades that await authorize()
  live,         \* activeLiveSessions
  ending,       \* those of them whose close() has begun
  clients,      \* sockets the WebSocket server tracks
  awaited       \* the sessions the shutdown awaits

requests == <<arrived, connected>>
sessions == <<live, ending, clients, awaited>>
serverVars == <<vars, stage, requests, authorizing, sessions>>

ServerInit ==
  /\ Init /\ stage = "serving"
  /\ arrived = {} /\ connected = {} /\ authorizing = {}
  /\ live = {} /\ ending = {} /\ clients = {} /\ awaited = {}

\* server.close() has not been called.
Listening == stage \in {"serving", "sessions", "sockets"}

-----------------------------------------------------------------------------
(* Requests. *)

Arrive(r) ==
  /\ Listening /\ pc[r] = "idle" /\ r \notin arrived
  /\ arrived' = arrived \cup {r} /\ connected' = connected \cup {r}
  /\ UNCHANGED <<vars, stage, authorizing, sessions>>

\* It is refused, or is of another kind: 401, 400, 413, 422, 429.
Refuse(r) ==
  /\ r \in arrived
  /\ arrived' = arrived \ {r} /\ connected' = connected \ {r}
  /\ UNCHANGED <<vars, stage, authorizing, sessions>>

Accept(r) ==
  /\ r \in arrived /\ arrived' = arrived \ {r}
  /\ Admit(r)
  /\ UNCHANGED <<stage, connected, authorizing, sessions>>

\* A step of its compilation; the last one answers it.
Work(r) ==
  /\ Await(r) \/ Flood(r) \/ KillTimer(r) \/ Closes(r) \/ Deadline(r)
  /\ connected' = IF pc'[r] = "idle" THEN connected \ {r} ELSE connected
  /\ UNCHANGED <<stage, arrived, authorizing, sessions>>

\* Its response closes unanswered: a body cut short ends the request, one that
\* has been received is worked on all the same.
Abandon(r) ==
  /\ r \in connected
  /\ connected' = connected \ {r} /\ arrived' \in {arrived, arrived \ {r}}
  /\ UNCHANGED <<vars, stage, authorizing, sessions>>

-----------------------------------------------------------------------------
(* Live sessions. *)

Upgrade(p) ==
  /\ Listening /\ p \notin authorizing \cup live \cup clients
  /\ authorizing' = authorizing \cup {p}
  /\ UNCHANGED <<vars, stage, requests, sessions>>

\* A session for p: in the set of the server before anything else can run.
Open(p) ==
  /\ live' = live \cup {p} /\ clients' = clients \cup {p}
  /\ authorizing' = authorizing \ {p}
  /\ UNCHANGED <<vars, stage, requests, ending, awaited>>

\* Mutant: the slots are counted before authorize() is awaited.
UpgradedUncounted(p) ==
  /\ p \in authorizing /\ stage \in {"serving", "sessions"}
  /\ Open(p)

\* authorize() resolves: the origin is allowed, a slot is free and the WebSocket
\* server is running.
Upgraded(p) ==
  /\ p \in authorizing /\ stage \in {"serving", "sessions"}
  /\ Cardinality(live) < MaxLive
  /\ Open(p)

\* Not authorized, not allowed, no slot, WebSocket server closed, or no peer.
UpgradeRefused(p) ==
  /\ p \in authorizing /\ authorizing' = authorizing \ {p}
  /\ UNCHANGED <<vars, stage, requests, sessions>>

\* close() of a session: a timer, a shutdown message, an error.
SessionCloses(p) ==
  /\ p \in live \ ending /\ ending' = ending \cup {p}
  /\ UNCHANGED <<vars, stage, requests, authorizing, live, clients, awaited>>

\* Mutant: nobody listens to the socket's "close" event.
SocketClosesUnheard(p) ==
  /\ p \in clients /\ clients' = clients \ {p}
  /\ UNCHANGED <<vars, stage, requests, authorizing, live, ending, awaited>>

\* A socket is closed, by its peer or by the session; close() begins if it had
\* not begun.
SocketCloses(p) ==
  /\ p \in clients /\ clients' = clients \ {p}
  /\ ending' = IF p \in live THEN ending \cup {p} ELSE ending
  /\ UNCHANGED <<vars, stage, requests, authorizing, live, awaited>>

\* Mutant: the promise of close() is resolved, onClosed() is not called.
ClosedForgotten(p) ==
  /\ p \in ending
  /\ awaited' = awaited \ {p}
  /\ UNCHANGED <<vars, stage, requests, authorizing, live, ending, clients>>

\* onClosed(): the slot is free, and a shutdown need not wait for this one.
SessionClosed(p) ==
  /\ p \in ending
  /\ ending' = ending \ {p} /\ live' = live \ {p} /\ awaited' = awaited \ {p}
  /\ UNCHANGED <<vars, stage, requests, authorizing, clients>>

-----------------------------------------------------------------------------
(* The shutdown. *)

\* Up to the first await: compilations are aborted, live sessions told to close.
BeginShutdown ==
  /\ Shutdown
  /\ stage' = "sessions" /\ awaited' = live /\ ending' = live
  /\ UNCHANGED <<requests, authorizing, live, clients>>

\* webSocketServer.close(): upgrades are refused from here on.
SessionsEnded ==
  /\ stage = "sessions" /\ awaited = {} /\ stage' = "sockets"
  /\ UNCHANGED <<vars, requests, authorizing, sessions>>

\* server.close(): nobody can connect from here on.
SocketsEnded ==
  /\ stage = "sockets" /\ clients = {} /\ stage' = "listener"
  /\ UNCHANGED <<vars, requests, authorizing, sessions>>

\* The last connection is gone.
ListenerClosed ==
  /\ stage = "listener" /\ connected = {} /\ authorizing = {} /\ stage' = "closed"
  /\ UNCHANGED <<vars, requests, authorizing, sessions>>

ShutdownStep == SessionsEnded \/ SocketsEnded \/ ListenerClosed

\* Nothing is left to do, and nobody can connect.
AtRest == stage = "closed" /\ arrived = {} /\ active = {} /\ live = {}

Terminated ==
  /\ AtRest
  /\ UNCHANGED serverVars

ServerNext ==
  \/ \E r \in Request : Arrive(r) \/ Refuse(r) \/ Accept(r) \/ Work(r) \/ Abandon(r)
  \/ \E p \in Peer : \/ Upgrade(p) \/ Upgraded(p) \/ UpgradeRefused(p)
                     \/ SessionCloses(p) \/ SocketCloses(p) \/ SessionClosed(p)
  \/ BeginShutdown \/ ShutdownStep \/ Terminated

ServerSpec == ServerInit /\ [][ServerNext]_serverVars

\* What a request has next that comes by itself: it is read or given up, an await
\* ends, SIGKILL follows SIGTERM, and a killed compiler is gone.  The deadline
\* runs beside it.
Proceed(r) ==
  \/ Refuse(r) \/ Accept(r)
  \/ Work(r) /\ (Await(r) \/ KillTimer(r) \/ (child[r] = "kill" /\ Closes(r)))

\* And a live session: an upgrade is decided, the lifetime timer closes a session
\* at the latest, and its close() ends (CloseCompletes of LiveSession).  Beside
\* it the socket of a session that is over is closed, by its peer or by the
\* timeout of the closing handshake.
ProceedLive(p) ==
  Upgraded(p) \/ UpgradeRefused(p) \/ SessionCloses(p) \/ SessionClosed(p)

\* The event loop runs what is due, timers fire, SIGKILL kills.  Nothing is
\* assumed of a compiler that was not killed.
FairServer ==
  /\ ServerSpec
  /\ \A r \in Request :
       WF_serverVars(Proceed(r)) /\ WF_serverVars(Work(r) /\ Deadline(r))
  /\ \A p \in Peer :
       WF_serverVars(ProceedLive(p)) /\ WF_serverVars(p \notin live \ ending /\ SocketCloses(p))
  /\ WF_serverVars(ShutdownStep)

-----------------------------------------------------------------------------
(* Properties. *)

\* Sockets, sessions and requests are where the shutdown and the connections
\* allow them: a session that has not begun to close has its socket, the ones
\* awaited have begun, and what is awaited belongs to the stage.
ServerTypeOK ==
  /\ stage \in {"serving", "sessions", "sockets", "listener", "closed"}
  /\ closing = (stage # "serving")
  /\ arrived \subseteq Request /\ connected \subseteq Request
  /\ \A r \in arrived : pc[r] = "idle"
  /\ \A r \in connected \ arrived : pc[r] # "idle"
  /\ authorizing \subseteq Peer /\ clients \subseteq Peer
  /\ authorizing \cap (live \cup clients) = {}
  /\ awaited \subseteq ending /\ ending \subseteq live /\ live \subseteq Peer
  /\ live \ ending \subseteq clients
  /\ awaited # {} => stage = "sessions"
  /\ clients # {} => stage \in {"serving", "sessions", "sockets"}

\* There are never more live sessions than slots: between the count and the entry
\* in the set nothing is awaited, although the authorization before it is
\* (server.ts:194-209).
LiveWithinLimit == Cardinality(live) <= MaxLive

\* The invariant of the whole server.
ServerInv == IInv /\ ServerTypeOK /\ LiveWithinLimit

\* A shutdown ends, although requests and sessions are still admitted while it
\* waits; and then nothing is left to run: no request, no compilation, no live
\* session (server.ts:229-243).
ShutdownEnds == closing ~> AtRest
==============================================================================
