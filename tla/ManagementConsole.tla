-------------------------- MODULE ManagementConsole --------------------------
(***************************************************************************)
(* The management console: its API (typr-server/managementServer.ts), the  *)
(* log of activity (activity.ts), the probes of installed tools            *)
(* (serviceCatalog.ts) and the page that shows them (managementUi.ts).     *)
(*                                                                         *)
(* The page learns what the server knows in two ways that race: snapshots, *)
(* each put together around an await and answered on a connection of its   *)
(* own, and a stream of events that is resumed when it breaks.  Tools are  *)
(* a number that grows with each change of what is installed or active; a  *)
(* probe sees them as they are at some moment while it runs.  There is one *)
(* provider to install; ProviderManager has the steps of its installation. *)
(***************************************************************************)
EXTENDS Naturals, Sequences, SequencesExt

CONSTANTS
  Request,      \* requests of the page that may be under way
  MaxEvents,    \* maxEvents of ActivityBus and of the page
  MaxTools, MaxClicks, MaxActivity  \* bounds: changes, clicks, other events

ASSUME ConsoleAssumption ==
  /\ MaxEvents \in Nat \ {0}
  /\ MaxTools \in Nat /\ MaxClicks \in Nat /\ MaxActivity \in Nat

VARIABLES
  tools,   \* what is installed and active
  probes,  \* every probe started; the last is ServiceCatalog.probes
  job,     \* the last installation
  nextId,  \* ActivityBus.nextId: events holds those before it
  stream,  \* the EventSource, and what the server has written to it
  req,     \* the requests of the page
  page,    \* state and providerPoll of the page
  clicks   \* counts what the user did (bound)

vars == <<tools, probes, job, nextId, stream, req, page, clicks>>

Pending == {"queued", "installing", "checking"}
Idle == [stage |-> "idle"]

Init ==
  /\ tools = 0 /\ probes = <<>> /\ nextId = 1 /\ clicks = 0
  /\ job = [status |-> "none", gen |-> 0, probe |-> 0]
  /\ stream = [status |-> "closed", wire |-> <<>>, lastId |-> 0]
  /\ req = [q \in Request |-> Idle]
  /\ page = [loaded |-> FALSE, job |-> [status |-> "none", gen |-> 0],
             services |-> 0, log |-> <<>>, polling |-> FALSE]

-----------------------------------------------------------------------------
(* The log of activity and its stream. *)

\* snapshot(): those of the retained events that are after one, when the next is n.
Events(after, n) ==
  LET from == IF after + MaxEvents < n THEN n - 1 - MaxEvents ELSE after
  IN  [i \in 1..(n - 1 - from) |-> from + i]

\* publish(): the stream's listener writes the event.  Bound: no more events are
\* on their way than the page holds, which are 1000.
Publish ==
  /\ Len(stream.wire) < MaxEvents
  /\ nextId' = nextId + 1
  /\ stream' = IF stream.status = "open"
               THEN [stream EXCEPT !.wire = Append(@, nextId)] ELSE stream

\* What the rest of the server publishes.
Activity ==
  /\ nextId <= MaxActivity /\ Publish
  /\ UNCHANGED <<tools, probes, job, req, page, clicks>>

\* Mutant: the stream starts with the next event.
ConnectWithoutReplay ==
  /\ stream.status = "connecting"
  /\ stream' = [stream EXCEPT !.status = "open"]
  /\ UNCHANGED <<tools, probes, job, nextId, req, page, clicks>>

\* openActivityStream: the events after Last-Event-ID are written, and from then
\* on each new one.
Connect ==
  /\ stream.status = "connecting"
  /\ stream' = [stream EXCEPT !.status = "open",
       !.wire = Events(stream.lastId, nextId)]
  /\ UNCHANGED <<tools, probes, job, nextId, req, page, clicks>>

\* The connection ends, at either side; the browser will connect again.
Break ==
  /\ stream.status = "open"
  /\ stream' = [stream EXCEPT !.status = "connecting", !.wire = <<>>]
  /\ UNCHANGED <<tools, probes, job, nextId, req, page, clicks>>

\* Mutant: compares with the newest event only.
ReceivedNewest(log, id) ==
  IF log # <<>> /\ Last(log) = id THEN log ELSE Append(log, id)

\* What the page shows after an event: one that it knows is skipped, and the oldest
\* makes room.
Received(log, id) ==
  IF \E i \in 1..Len(log) : log[i] = id THEN log
  ELSE LET more == Append(log, id)
       IN  IF Len(more) > MaxEvents THEN Tail(more) ELSE more

Deliver ==
  /\ stream.wire # <<>>
  /\ stream' = [stream EXCEPT !.wire = Tail(@), !.lastId = Head(stream.wire)]
  /\ page' = [page EXCEPT !.log = Received(@, Head(stream.wire))]
  /\ UNCHANGED <<tools, probes, job, nextId, req, clicks>>

-----------------------------------------------------------------------------
(* Probes. *)

Probed(p) == probes[p].done

\* Mutant: joins a probe that is running.
ForcedToJoin(now) ==
  IF probes # <<>> /\ ~Last(probes).done THEN probes
  ELSE Append(probes, [done |-> FALSE, seen |-> now])

\* snapshot(true): a new probe, whatever is cached or running.
Forced(now) == Append(probes, [done |-> FALSE, seen |-> now])

\* snapshot(): a probe is started only if there is none.
Cached == IF probes = <<>> THEN Forced(tools) ELSE probes

\* A probe reads the tools at some moment since it was started.
ProbeEnds(p) ==
  /\ ~Probed(p)
  /\ \E seen \in probes[p].seen..tools :
       probes' = [probes EXCEPT ![p] = [done |-> TRUE, seen |-> seen]]
  /\ UNCHANGED <<tools, job, nextId, stream, req, page, clicks>>

-----------------------------------------------------------------------------
(* The installation. *)

Downloads ==
  /\ job.status = "queued" /\ Publish
  /\ job' = [job EXCEPT !.status = "installing"]
  /\ UNCHANGED <<tools, probes, req, page, clicks>>

\* The provider is in place: onChanged() forces a probe, and is awaited.
Installs ==
  /\ job.status = "installing" /\ tools < MaxTools
  /\ tools' = tools + 1 /\ probes' = Forced(tools + 1)
  /\ job' = [status |-> "checking", gen |-> tools + 1, probe |-> Len(probes')]
  /\ UNCHANGED <<nextId, stream, req, page, clicks>>

Completes ==
  /\ job.status = "checking" /\ Probed(job.probe) /\ Publish
  /\ job' = [job EXCEPT !.status = "completed", !.probe = 0]
  /\ UNCHANGED <<tools, probes, req, page, clicks>>

\* It fails, before it has changed anything or after.
JobFails ==
  /\ job.status \in {"queued", "installing"} /\ Publish
  /\ job' = [job EXCEPT !.status = "failed"]
  /\ tools' \in {tools, tools + 1} /\ tools' <= MaxTools
  /\ UNCHANGED <<probes, req, page, clicks>>

-----------------------------------------------------------------------------
(* What the page asks for. *)

\* A snapshot, which is to show the tools as they are due; the first one, or another.
Ask(q, first, due) ==
  req' = [req EXCEPT ![q] = [stage |-> "asked", first |-> first, due |-> due]]

\* The page is opened, or opened again when that failed.
Load(q) ==
  /\ ~page.loaded /\ \A r \in Request : req[r] = Idle
  /\ Ask(q, TRUE, 0)
  /\ UNCHANGED <<tools, probes, job, nextId, stream, page, clicks>>

\* The timer of renderProviders.
Poll(q) ==
  /\ page.polling /\ req[q] = Idle /\ Ask(q, FALSE, 0)
  /\ page' = [page EXCEPT !.polling = FALSE]
  /\ UNCHANGED <<tools, probes, job, nextId, stream, clicks>>

\* A button.  "Install" is there while the provider is neither installed nor being
\* installed, as far as the page knows.
Click(q, kind) ==
  /\ page.loaded /\ req[q] = Idle /\ clicks < MaxClicks
  /\ kind = "install" => page.job.status \in {"none", "failed"}
  /\ req' = [req EXCEPT ![q] = [stage |-> "posted", kind |-> kind,
                                due |-> IF kind = "refresh" THEN tools ELSE 0]]
  /\ clicks' = clicks + 1
  /\ UNCHANGED <<tools, probes, job, nextId, stream, page>>

\* Its request succeeded: the page asks for a snapshot.
Refresh(q) ==
  /\ req[q].stage = "done"
  /\ Ask(q, FALSE, req[q].due)
  /\ UNCHANGED <<tools, probes, job, nextId, stream, page, clicks>>

\* A request fails, there or on its way: the page says so, or it was a poll and
\* nobody does.
RequestFails(q) ==
  /\ req[q].stage \in {"posted", "done", "asked", "answered"}
  /\ req' = [req EXCEPT ![q] = Idle]
  /\ UNCHANGED <<tools, probes, job, nextId, stream, page, clicks>>

-----------------------------------------------------------------------------
(* The routes. *)

Posted(q, kind) == req[q].stage = "posted" /\ req[q].kind = kind
Done(q, due) == req' = [req EXCEPT ![q] = [stage |-> "done", due |-> due]]

\* The route waits for the probe that was started last.
Waits(q, due) ==
  req' = [req EXCEPT ![q] = [stage |-> "forcing", due |-> due, probe |-> Len(probes')]]

\* POST /api/services/refresh
ForceRefresh(q) ==
  /\ Posted(q, "refresh")
  /\ probes' = Forced(tools) /\ Waits(q, req[q].due)
  /\ UNCHANGED <<tools, job, nextId, stream, page, clicks>>

\* PATCH /api/providers/..: the other distribution is active, and its probe awaited.
Activate(q) ==
  /\ Posted(q, "activate") /\ tools < MaxTools
  /\ tools' = tools + 1 /\ probes' = Forced(tools + 1) /\ Waits(q, tools + 1)
  /\ UNCHANGED <<job, nextId, stream, page, clicks>>

\* Both publish when the probe is done.
ForcedDone(q) ==
  /\ req[q].stage = "forcing" /\ Probed(req[q].probe) /\ Publish
  /\ Done(q, req[q].due)
  /\ UNCHANGED <<tools, probes, job, page, clicks>>

\* POST /api/providers/../install, refused while the provider is being installed.
Install(q) ==
  /\ Posted(q, "install") /\ job.status \notin Pending /\ Publish
  /\ job' = [status |-> "queued", gen |-> 0, probe |-> 0]
  /\ Done(q, 0)
  /\ UNCHANGED <<tools, probes, page, clicks>>

\* POST /api/texlive/update: its end is published, whatever it is, and no probe
\* is forced.
Update(q) ==
  /\ Posted(q, "update") /\ Publish
  /\ \/ Done(q, 0) /\ tools' = tools + 1 /\ tools < MaxTools
     \/ req' = [req EXCEPT ![q] = Idle] /\ UNCHANGED tools
  /\ UNCHANGED <<probes, job, page, clicks>>

\* Users, keys and settings: AccessStore has what they change.
Access(q) ==
  /\ Posted(q, "access") /\ Publish /\ Done(q, 0)
  /\ UNCHANGED <<tools, probes, job, page, clicks>>

View == [status |-> job.status, gen |-> job.gen]

\* GET /api/snapshot: the jobs as they are now, and then the services are awaited.
Snapshot(q) ==
  /\ req[q].stage = "asked"
  /\ probes' = Cached
  /\ req' = [req EXCEPT ![q] = [stage |-> "probing", first |-> req[q].first,
               due |-> req[q].due, job |-> View, probe |-> Len(probes')]]
  /\ UNCHANGED <<tools, job, nextId, stream, page, clicks>>

Answered(q, view) ==
  /\ req[q].stage = "probing" /\ Probed(req[q].probe)
  /\ req' = [req EXCEPT ![q] = [stage |-> "answered", first |-> req[q].first,
               due |-> req[q].due, job |-> view,
               services |-> probes[req[q].probe].seen, nextId |-> nextId]]
  /\ UNCHANGED <<tools, probes, job, nextId, stream, page, clicks>>

\* Mutant: the services are awaited before the jobs are read.
AnswerWithJobs(q) == Answered(q, View)

\* The services are known: the activity as it is now.
Answer(q) == Answered(q, req[q].job)

\* The page shows the snapshot and nothing else, and polls while an installation is
\* pending; a page that was loaded connects to the stream.
Show(q) ==
  LET r == req[q]
  IN  /\ r.stage = "answered"
      /\ page' = [loaded |-> TRUE, job |-> r.job, services |-> r.services,
                  log |-> Events(0, r.nextId), polling |-> r.job.status \in Pending]
      /\ stream' = IF r.first THEN [stream EXCEPT !.status = "connecting"] ELSE stream
      /\ req' = [req EXCEPT ![q] = Idle]
      /\ UNCHANGED <<tools, probes, job, nextId, clicks>>

Next ==
  \/ Activity \/ Connect \/ Break \/ Deliver
  \/ \E p \in 1..Len(probes) : ProbeEnds(p)
  \/ Downloads \/ Installs \/ Completes \/ JobFails
  \/ \E q \in Request :
       \/ Load(q) \/ Poll(q) \/ Refresh(q) \/ RequestFails(q)
       \/ \E kind \in {"refresh", "install", "activate", "update", "access"} : Click(q, kind)
       \/ ForceRefresh(q) \/ Activate(q) \/ ForcedDone(q)
       \/ Install(q) \/ Update(q) \/ Access(q)
       \/ Snapshot(q) \/ Answer(q) \/ Show(q)

Spec == Init /\ [][Next]_vars

-----------------------------------------------------------------------------
(* Properties. *)

Increasing(s) == \A i, j \in 1..Len(s) : i < j => s[i] < s[j]

\* A page that is connected misses no event: each one retained was delivered or is
\* on its way, once and in order, however often the stream broke
\* (managementServer.ts:299-301, "The GUI reconnects automatically if the event
\* stream is interrupted", docs/companion-management.md:104).
StreamWhole ==
  stream.status = "open" =>
    /\ Increasing(stream.wire)
    /\ \A i \in 1..Len(stream.wire) : stream.wire[i] > stream.lastId
    /\ \A id \in ToSet(Events(0, nextId)) : id <= stream.lastId \/ id \in ToSet(stream.wire)

\* Snapshots, replays and new events come together to a log without repetition and
\* in order, whichever of them overtakes the other (managementUi.ts:311-314, 322).
LogOrdered == Increasing(page.log)

\* A page that shows an installation as completed shows the services as they are
\* with it: the jobs are read before the services are awaited, and a job is
\* completed after they were probed again (managementServer.ts:162-163,
\* providerManager.ts:302-303).
ShownTogether ==
  page.job.status = "completed" => page.services >= page.job.gen

\* What the user asked to see is seen: a refresh shows the tools as they were when
\* it was clicked or later, and an activation what it activated, whatever probes
\* were running (serviceCatalog.ts:33-35, managementServer.ts:180-190, 222).
RefreshShows ==
  [][\A q \in Request : Show(q) => page'.services >= req[q].due]_vars
==============================================================================
