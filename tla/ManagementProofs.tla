------------------------- MODULE ManagementProofs -------------------------
(***************************************************************************)
(* Proofs about what the management console shows (ManagementConsole), for *)
(* any number of requests, events, clicks and changes, and about who may   *)
(* open it (ManagementAuthenticator), for any number of logins and clients *)
(* that overlap in any way, and any limits.                                *)
(*                                                                         *)
(* What is shown of the tools rests on the newest probe never having       *)
(* started before what is to be shown (Tools); what is shown of the events *)
(* on the stream carrying consecutive ones (Events).  What is counted      *)
(* against a client rests on what holds of its record holding too of the   *)
(* records its pending logins have read, in the map or not (Refers).       *)
(***************************************************************************)
EXTENDS ManagementConsole, ManagementAuthenticator, SequenceTheorems, FiniteSetTheorems, TLAPS

-----------------------------------------------------------------------------
(* The tools: what is known of the probes, the jobs and the requests. *)

Probe == [done : BOOLEAN, seen : Nat]
Newest == IF probes = <<>> THEN 0 ELSE probes[Len(probes)].seen

ProbeType ==
  /\ tools \in Nat
  /\ probes \in Seq(Probe)
  /\ \A p \in 1..Len(probes) : probes[p].seen <= tools
  /\ DOMAIN req = Request

JobSeen ==
  /\ DOMAIN job = {"status", "gen", "probe"}
  /\ job.gen \in Nat
  /\ job.status \in {"checking", "completed"} => job.gen <= Newest

\* What a view of the jobs says is completed is seen by s.
ViewSeen(view, s) ==
  view.gen \in Nat /\ (view.status = "completed" => view.gen <= s)

\* What a request is due to show, it will.
WillShow(q) ==
  LET r == req[q]
  IN  /\ r.stage # "idle" => r.due \in Nat
      /\ r.stage = "posted" => r.due <= tools
      /\ r.stage \in {"forcing", "done", "asked"} => r.due <= Newest
      /\ r.stage = "probing" =>
           /\ r.probe \in 1..Len(probes)
           /\ r.due <= probes[r.probe].seen /\ ViewSeen(r.job, probes[r.probe].seen)
      /\ r.stage = "answered" =>
           r.services \in Nat /\ r.due <= r.services /\ ViewSeen(r.job, r.services)

PageSeen ==
  /\ DOMAIN page = {"loaded", "job", "services", "log", "polling"}
  /\ page.services \in Nat /\ ViewSeen(page.job, page.services)

ToolsInv == ProbeType /\ JobSeen /\ PageSeen /\ \A q \in Request : WillShow(q)

\* Probes are only added, and see more.
Grows ==
  /\ ProbeType'
  /\ Len(probes) <= Len(probes')
  /\ \A p \in 1..Len(probes) : probes[p].seen <= probes'[p].seen
  /\ Newest <= Newest' /\ tools <= tools'

\* What the newest probe has seen is no later than the tools.
LEMMA NewestType ==
  ASSUME ProbeType
  PROVE  Newest \in Nat /\ Newest <= tools
  <1>1. CASE probes = <<>>
    BY <1>1 DEF ProbeType, Newest
  <1>2. CASE probes # <<>>
    <2>1. Len(probes) \in 1..Len(probes)
      BY <1>2, EmptySeq DEF ProbeType
    <2>2. probes[Len(probes)] \in Probe
      BY <2>1, ElementOfSeq DEF ProbeType
    <2> QED
      BY <1>2, <2>1, <2>2 DEF ProbeType, Newest, Probe
  <1> QED
    BY <1>1, <1>2

\* Probes that stay as they are see no less.
LEMMA SameGrows ==
  ASSUME ProbeType, probes' = probes, tools' \in Nat, tools <= tools', DOMAIN req' = Request
  PROVE  Grows
  <1>1. \A p \in 1..Len(probes) : probes[p] \in Probe
    BY ElementOfSeq DEF ProbeType
  <1>2. ProbeType'
    BY <1>1 DEF ProbeType, Probe
  <1>3. Newest' = Newest /\ Newest \in Nat
    BY NewestType DEF Newest
  <1>4. \A p \in 1..Len(probes) : probes[p].seen <= probes'[p].seen
    BY <1>1 DEF Probe
  <1> QED
    BY <1>2, <1>3, <1>4 DEF Grows, ProbeType

\* A probe is started that sees what the tools are to be.
LEMMA ForcedGrows ==
  ASSUME ProbeType, tools' \in Nat, tools <= tools', probes' = Forced(tools'),
         DOMAIN req' = Request
  PROVE  Grows /\ Newest' = tools' /\ Len(probes') \in 1..Len(probes')
         /\ probes'[Len(probes')].seen = tools'
  <1> DEFINE new == [done |-> FALSE, seen |-> tools']
  <1>1. new \in Probe /\ new.seen = tools'
    BY DEF Probe
  <1>2. Len(probes) \in Nat
    BY DEF ProbeType
  <1>3. probes' = Append(probes, new)
    BY DEF Forced
  <1> HIDE DEF new
  <1>4. /\ probes' \in Seq(Probe) /\ Len(probes') = Len(probes) + 1
        /\ probes'[Len(probes) + 1] = new
        /\ \A p \in 1..Len(probes) : probes'[p] = probes[p]
    BY <1>1, <1>3, AppendProperties DEF ProbeType
  <1>5. probes' # <<>>
    BY <1>2, <1>4, EmptySeq
  <1>6. Newest' = tools'
    BY <1>1, <1>4, <1>5 DEF Newest
  <1>7. \A p \in 1..Len(probes) : probes[p] \in Probe
    BY ElementOfSeq DEF ProbeType
  <1>8. \A p \in 1..Len(probes) : probes[p].seen <= probes'[p].seen
    BY <1>4, <1>7 DEF Probe
  <1>9. \A p \in 1..Len(probes') : probes'[p].seen <= tools'
    <2>1. TAKE p \in 1..Len(probes')
    <2>2. CASE p = Len(probes) + 1
      BY <1>1, <1>4, <2>2
    <2>3. CASE p # Len(probes) + 1
      <3>1. p \in 1..Len(probes)
        BY <1>2, <1>4, <2>1, <2>3
      <3> QED
        BY <1>4, <1>7, <3>1 DEF ProbeType, Probe
    <2> QED
      BY <2>2, <2>3
  <1>10. ProbeType'
    BY <1>4, <1>9 DEF ProbeType
  <1>11. Newest <= Newest'
    BY <1>6, NewestType DEF ProbeType
  <1> QED
    BY <1>1, <1>2, <1>4, <1>6, <1>8, <1>10, <1>11 DEF Grows

\* A probe that ends sees the tools as they were while it ran.
LEMMA ProbeEndsGrows ==
  ASSUME ProbeType, NEW p \in 1..Len(probes), ProbeEnds(p)
  PROVE  Grows
  <1>1. PICK seen \in probes[p].seen..tools :
          probes' = [probes EXCEPT ![p] = [done |-> TRUE, seen |-> seen]]
    BY DEF ProbeEnds
  <1>2. probes[p] \in Probe
    BY ElementOfSeq DEF ProbeType
  <1>3. seen \in Nat /\ probes[p].seen <= seen /\ seen <= tools
    BY <1>1, <1>2 DEF Probe, ProbeType
  <1>4. [done |-> TRUE, seen |-> seen] \in Probe
    BY <1>3 DEF Probe
  <1>5. /\ probes' \in Seq(Probe) /\ Len(probes') = Len(probes)
        /\ \A i \in 1..Len(probes) :
             probes'[i] = IF i = p THEN [done |-> TRUE, seen |-> seen] ELSE probes[i]
    BY <1>1, <1>4, ExceptSeq DEF ProbeType
  <1>6. \A i \in 1..Len(probes) : probes[i] \in Probe
    BY ElementOfSeq DEF ProbeType
  <1>7. \A i \in 1..Len(probes) : probes[i].seen <= probes'[i].seen /\ probes'[i].seen <= tools
    BY <1>3, <1>5, <1>6 DEF Probe, ProbeType
  <1>8. tools' = tools /\ req' = req
    BY DEF ProbeEnds
  <1>9. ProbeType'
    BY <1>5, <1>7, <1>8 DEF ProbeType
  <1>10. Newest <= Newest'
    <2>1. probes # <<>> /\ probes' # <<>> /\ Len(probes) \in 1..Len(probes)
      BY <1>5, EmptySeq DEF ProbeType
    <2> QED
      BY <1>5, <1>7, <2>1 DEF Newest
  <1> QED
    BY <1>5, <1>7, <1>8, <1>9, <1>10 DEF Grows, ProbeType

\* A request that does not step is not affected.
LEMMA OthersWillShow ==
  ASSUME ProbeType, Grows, NEW q \in Request, WillShow(q), req'[q] = req[q]
  PROVE  WillShow(q)'
  <1>1. Newest \in Nat /\ Newest' \in Nat /\ Newest <= Newest'
    <2>1. Newest \in Nat
      BY NewestType
    <2>2. Newest' \in Nat
      <3>1. CASE probes' = <<>>
        BY <3>1 DEF Newest
      <3>2. CASE probes' # <<>>
        <4>1. Len(probes') \in 1..Len(probes') /\ probes' \in Seq(Probe)
          BY <3>2, EmptySeq DEF Grows, ProbeType
        <4>2. probes'[Len(probes')] \in Probe
          BY <4>1, ElementOfSeq
        <4> QED
          BY <3>2, <4>2 DEF Newest, Probe
      <3> QED
        BY <3>1, <3>2
    <2> QED
      BY <2>1, <2>2 DEF Grows
  <1>2. tools \in Nat /\ tools' \in Nat /\ tools <= tools'
    BY DEF Grows, ProbeType
  <1>3. /\ Len(probes) \in Nat /\ Len(probes') \in Nat /\ Len(probes) <= Len(probes')
        /\ \A p \in 1..Len(probes) :
             probes[p].seen \in Nat /\ probes'[p].seen \in Nat /\ probes[p].seen <= probes'[p].seen
    <2>1. /\ probes \in Seq(Probe) /\ probes' \in Seq(Probe)
          /\ Len(probes) \in Nat /\ Len(probes') \in Nat /\ Len(probes) <= Len(probes')
      BY DEF Grows, ProbeType
    <2>2. \A p \in 1..Len(probes) : probes[p] \in Probe /\ probes'[p] \in Probe
      BY <2>1, ElementOfSeq
    <2> QED
      BY <2>1, <2>2 DEF Grows, Probe
  <1>4. req'[q].stage = "probing" =>
          /\ req[q].probe \in 1..Len(probes')
          /\ req[q].due <= probes'[req[q].probe].seen
          /\ ViewSeen(req[q].job, probes'[req[q].probe].seen)
    BY <1>3 DEF WillShow, ViewSeen
  <1> QED
    BY <1>1, <1>2, <1>4 DEF WillShow, ViewSeen

\* The newest probe sees no less than the newest before.
LEMMA NewestGrows ==
  ASSUME ProbeType, Grows
  PROVE  Newest \in Nat /\ Newest' \in Nat /\ Newest <= Newest'
  <1>1. Newest \in Nat
    BY NewestType
  <1>2. CASE probes' = <<>>
    BY <1>1, <1>2 DEF Newest, Grows
  <1>3. CASE probes' # <<>>
    <2>1. Len(probes') \in 1..Len(probes') /\ probes' \in Seq(Probe)
      BY <1>3, EmptySeq DEF Grows, ProbeType
    <2>2. probes'[Len(probes')] \in Probe
      BY <2>1, ElementOfSeq
    <2> QED
      BY <1>1, <1>3, <2>2 DEF Newest, Probe, Grows
  <1> QED
    BY <1>2, <1>3

\* Nothing has been probed or asked for at first.
LEMMA InitTools ==
  ASSUME Init
  PROVE  ToolsInv
  <1>1. ProbeType
    BY EmptySeq DEF Init, ProbeType
  <1>2. JobSeen /\ PageSeen
    BY DEF Init, JobSeen, PageSeen, ViewSeen
  <1>3. \A q \in Request : WillShow(q)
    BY DEF Init, WillShow, Idle
  <1> QED
    BY <1>1, <1>2, <1>3 DEF ToolsInv

\* What has to be shown of a step: what its request and its job know.
LEMMA RequestSteps ==
  ASSUME ToolsInv, Grows, JobSeen', PageSeen', NEW q \in Request, NEW r,
         req' = [req EXCEPT ![q] = r], WillShow(q)'
  PROVE  ToolsInv'
  <1>1. \A o \in Request : o # q => req'[o] = req[o]
    BY DEF ToolsInv, ProbeType
  <1>2. \A o \in Request : WillShow(o)'
    <2>1. TAKE o \in Request
    <2>2. CASE o = q
      BY <2>2
    <2>3. CASE o # q
      BY <1>1, <2>3, OthersWillShow DEF ToolsInv
    <2> QED
      BY <2>2, <2>3
  <1> QED
    BY <1>2 DEF ToolsInv, Grows

\* The requests are due no more than before while the probes grow.
LEMMA NoRequestSteps ==
  ASSUME ToolsInv, Grows, JobSeen', PageSeen', req' = req
  PROVE  ToolsInv'
  <1>1. \A o \in Request : WillShow(o)'
    BY OthersWillShow DEF ToolsInv
  <1> QED
    BY <1>1 DEF ToolsInv, Grows

\* A job that does not step, or that does not claim anything.
LEMMA JobStays ==
  ASSUME ToolsInv, Grows, job' = job
  PROVE  JobSeen'
  BY NewestGrows DEF ToolsInv, JobSeen

\* A page that shows the same of the tools.
LEMMA PageStays ==
  ASSUME ToolsInv, page'.job = page.job, page'.services = page.services, DOMAIN page' = DOMAIN page
  PROVE  PageSeen'
  BY DEF ToolsInv, PageSeen, ViewSeen

-----------------------------------------------------------------------------
(* The actions. *)

\* The activity log and its stream have no part in the tools.
LEMMA LogTools ==
  ASSUME ToolsInv, Activity \/ Connect \/ Break \/ Deliver
  PROVE  ToolsInv'
  <1>1. probes' = probes /\ tools' = tools /\ req' = req /\ job' = job
    BY DEF Activity, Connect, Break, Deliver
  <1>2. Grows
    BY <1>1, SameGrows DEF ToolsInv, ProbeType
  <1>3. page'.job = page.job /\ page'.services = page.services /\ DOMAIN page' = DOMAIN page
    BY DEF Activity, Connect, Break, Deliver, ToolsInv, PageSeen
  <1> QED
    BY <1>1, <1>2, <1>3, JobStays, PageStays, NoRequestSteps

\* The end of a probe.
LEMMA ProbeEndsTools ==
  ASSUME ToolsInv, NEW p \in 1..Len(probes), ProbeEnds(p)
  PROVE  ToolsInv'
  <1>1. Grows
    BY ProbeEndsGrows DEF ToolsInv
  <1>2. req' = req /\ job' = job /\ page' = page
    BY DEF ProbeEnds
  <1> QED
    BY <1>1, <1>2, JobStays, PageStays, NoRequestSteps

\* The steps of an installation.
LEMMA JobTools ==
  ASSUME ToolsInv, Downloads \/ Installs \/ Completes \/ JobFails
  PROVE  ToolsInv'
  <1>1. req' = req /\ page' = page
    BY DEF Downloads, Installs, Completes, JobFails
  <1>2. PageSeen'
    BY <1>1, PageStays
  <1>3. CASE Installs
    <2>1. tools' = tools + 1 /\ tools' \in Nat /\ tools <= tools' /\ probes' = Forced(tools')
      BY <1>3 DEF Installs, ToolsInv, ProbeType
    <2>2. Grows /\ Newest' = tools'
      BY <1>1, <2>1, ForcedGrows DEF ToolsInv, ProbeType
    <2>3. JobSeen'
      BY <1>3, <2>1, <2>2 DEF Installs, JobSeen
    <2> QED
      BY <1>1, <1>2, <2>2, <2>3, NoRequestSteps
  <1>4. CASE Downloads \/ Completes \/ JobFails
    <2>1. probes' = probes /\ tools' \in Nat /\ tools <= tools'
      BY <1>4 DEF Downloads, Completes, JobFails, ToolsInv, ProbeType
    <2>2. Grows
      BY <1>1, <2>1, SameGrows DEF ToolsInv, ProbeType
    <2>3. /\ DOMAIN job' = DOMAIN job /\ job'.gen = job.gen
          /\ job'.status \in {"checking", "completed"} => job.status \in {"checking", "completed"}
      BY <1>4 DEF Downloads, Completes, JobFails, ToolsInv, JobSeen
    <2>4. JobSeen'
      BY <2>2, <2>3, NewestGrows DEF ToolsInv, JobSeen
    <2> QED
      BY <1>1, <1>2, <2>2, <2>4, NoRequestSteps
  <1> QED
    BY <1>3, <1>4

\* What the page does with its requests.
LEMMA PageTools ==
  ASSUME ToolsInv, NEW q \in Request,
         Load(q) \/ Poll(q) \/ Refresh(q) \/ RequestFails(q)
         \/ \E kind \in {"refresh", "install", "activate", "update", "access"} : Click(q, kind)
  PROVE  ToolsInv'
  <1>1. probes' = probes /\ tools' = tools /\ job' = job
    BY DEF Load, Poll, Refresh, RequestFails, Click
  <1>2. page'.job = page.job /\ page'.services = page.services /\ DOMAIN page' = DOMAIN page
    BY DEF Load, Poll, Refresh, RequestFails, Click, ToolsInv, PageSeen
  <1>3. PICK r : req' = [req EXCEPT ![q] = r]
    BY DEF Load, Poll, Refresh, RequestFails, Click, Ask
  <1>4. Grows
    BY <1>1, <1>3, SameGrows DEF ToolsInv, ProbeType
  <1>5. Newest' = Newest /\ Newest \in Nat /\ tools \in Nat
    BY <1>1, NewestType DEF Newest, ToolsInv, ProbeType
  <1>6. WillShow(q) /\ DOMAIN req = Request
    BY DEF ToolsInv, ProbeType
  <1>7. WillShow(q)'
    <2>1. CASE Load(q) \/ Poll(q)
      BY <2>1, <1>5, <1>6 DEF Load, Poll, Ask, WillShow
    <2>2. CASE Refresh(q)
      BY <2>2, <1>5, <1>6 DEF Refresh, Ask, WillShow
    <2>3. CASE RequestFails(q)
      BY <2>3, <1>6 DEF RequestFails, Idle, WillShow
    <2>4. CASE \E kind \in {"refresh", "install", "activate", "update", "access"} : Click(q, kind)
      BY <2>4, <1>5, <1>6, <1>1 DEF Click, WillShow
    <2> QED
      BY <2>1, <2>2, <2>3, <2>4
  <1> QED
    BY <1>1, <1>2, <1>3, <1>4, <1>7, JobStays, PageStays, RequestSteps

\* The routes that force a probe.
LEMMA ForcingTools ==
  ASSUME ToolsInv, NEW q \in Request, ForceRefresh(q) \/ Activate(q)
  PROVE  ToolsInv'
  <1>1. job' = job /\ page' = page
    BY DEF ForceRefresh, Activate
  <1>2. PICK due : /\ req' = [req EXCEPT ![q] = [stage |-> "forcing", due |-> due, probe |-> Len(probes')]]
                   /\ due \in Nat /\ due <= tools'
                   /\ tools' \in Nat /\ tools <= tools' /\ probes' = Forced(tools')
    BY DEF ForceRefresh, Activate, Waits, Posted, ToolsInv, WillShow, ProbeType
  <1>3. Grows /\ Newest' = tools'
    BY <1>2, ForcedGrows DEF ToolsInv, ProbeType
  <1>4. WillShow(q)'
    BY <1>2, <1>3 DEF ToolsInv, ProbeType, WillShow
  <1> QED
    BY <1>1, <1>2, <1>3, <1>4, JobStays, PageStays, RequestSteps

\* What the routes of the API do after their awaits.
LEMMA RouteTools ==
  ASSUME ToolsInv, NEW q \in Request,
         ForcedDone(q) \/ Install(q) \/ Update(q) \/ Access(q)
  PROVE  ToolsInv'
  <1>1. probes' = probes /\ page' = page /\ tools' \in Nat /\ tools <= tools'
    BY DEF ForcedDone, Install, Update, Access, ToolsInv, ProbeType
  <1>2. PICK r : req' = [req EXCEPT ![q] = r]
    BY DEF ForcedDone, Install, Update, Access, Done
  <1>3. Grows
    BY <1>1, <1>2, SameGrows DEF ToolsInv, ProbeType
  <1>4. Newest' = Newest /\ Newest \in Nat
    BY <1>1, NewestType DEF Newest, ToolsInv
  <1>5. JobSeen'
    <2>1. CASE Install(q)
      BY <2>1 DEF Install, JobSeen
    <2>2. CASE ForcedDone(q) \/ Update(q) \/ Access(q)
      BY <2>2, <1>3, JobStays DEF ForcedDone, Update, Access
    <2> QED
      BY <2>1, <2>2
  <1>6. WillShow(q) /\ DOMAIN req = Request
    BY DEF ToolsInv, ProbeType
  <1>7. WillShow(q)'
    <2>1. CASE ForcedDone(q)
      BY <2>1, <1>4, <1>6 DEF ForcedDone, Done, WillShow
    <2>2. CASE Install(q) \/ Access(q)
      BY <2>2, <1>4, <1>6 DEF Install, Access, Done, WillShow
    <2>3. CASE Update(q)
      BY <2>3, <1>4, <1>6 DEF Update, Done, Idle, WillShow
    <2> QED
      BY <2>1, <2>2, <2>3
  <1> QED
    BY <1>1, <1>2, <1>3, <1>5, <1>7, PageStays, RequestSteps

\* A snapshot reads the jobs and awaits the newest probe.
LEMMA SnapshotTools ==
  ASSUME ToolsInv, NEW q \in Request, Snapshot(q)
  PROVE  ToolsInv'
  <1>1. job' = job /\ page' = page /\ tools' = tools
    BY DEF Snapshot
  <1>2. req' = [req EXCEPT ![q] = [stage |-> "probing", first |-> req[q].first,
                  due |-> req[q].due, job |-> View, probe |-> Len(probes')]]
    BY DEF Snapshot
  <1>3. Grows /\ Len(probes') \in 1..Len(probes') /\ probes' # <<>>
    <2>1. CASE probes = <<>>
      <3>1. probes' = Forced(tools')
        BY <1>1, <2>1 DEF Snapshot, Cached
      <3>2. Grows /\ Len(probes') \in 1..Len(probes')
        BY <1>1, <1>2, <3>1, ForcedGrows DEF ToolsInv, ProbeType
      <3> QED
        BY <3>2, EmptySeq
    <2>2. CASE probes # <<>>
      <3>1. probes' = probes
        BY <2>2 DEF Snapshot, Cached
      <3>2. Grows
        BY <1>1, <1>2, <3>1, SameGrows DEF ToolsInv, ProbeType
      <3>3. Len(probes) \in 1..Len(probes)
        BY <2>2, EmptySeq DEF ToolsInv, ProbeType
      <3> QED
        BY <2>2, <3>1, <3>2, <3>3
    <2> QED
      BY <2>1, <2>2
  <1>4. /\ Newest \in Nat /\ Newest' \in Nat /\ Newest <= Newest'
        /\ Newest' = probes'[Len(probes')].seen
    BY <1>3, NewestGrows DEF Newest, ToolsInv
  <1>5. req[q].due \in Nat /\ req[q].due <= Newest
    BY DEF Snapshot, ToolsInv, WillShow
  <1>6. ViewSeen(View, probes'[Len(probes')].seen)
    BY <1>4 DEF ToolsInv, JobSeen, ViewSeen, View
  <1>7. WillShow(q)'
    <2>1. req'[q] = [stage |-> "probing", first |-> req[q].first,
                     due |-> req[q].due, job |-> View, probe |-> Len(probes')]
      BY <1>2 DEF ToolsInv, ProbeType
    <2>2. req[q].due <= probes'[Len(probes')].seen
      BY <1>4, <1>5
    <2> QED
      BY <1>3, <1>5, <1>6, <2>1, <2>2 DEF WillShow, ViewSeen
  <1> QED
    BY <1>1, <1>2, <1>3, <1>7, JobStays, PageStays, RequestSteps

\* A snapshot is answered once its probe has ended.
LEMMA AnswerTools ==
  ASSUME ToolsInv, NEW q \in Request, Answer(q)
  PROVE  ToolsInv'
  <1>1. probes' = probes /\ job' = job /\ page' = page /\ tools' = tools
    BY DEF Answer, Answered
  <1>2. req' = [req EXCEPT ![q] = [stage |-> "answered", first |-> req[q].first,
                  due |-> req[q].due, job |-> req[q].job,
                  services |-> probes[req[q].probe].seen, nextId |-> nextId]]
    BY DEF Answer, Answered
  <1>3. Grows
    BY <1>1, <1>2, SameGrows DEF ToolsInv, ProbeType
  <1>4. WillShow(q) /\ req[q].stage = "probing"
    BY DEF Answer, Answered, ToolsInv
  <1>5. probes[req[q].probe] \in Probe
    BY <1>4, ElementOfSeq DEF WillShow, ToolsInv, ProbeType
  <1>6. WillShow(q)'
    BY <1>2, <1>4, <1>5 DEF WillShow, ViewSeen, Probe, ToolsInv, ProbeType
  <1> QED
    BY <1>1, <1>2, <1>3, <1>6, JobStays, PageStays, RequestSteps

\* The page shows an answer.
LEMMA ShowTools ==
  ASSUME ToolsInv, NEW q \in Request, Show(q)
  PROVE  ToolsInv'
  <1>1. probes' = probes /\ job' = job /\ tools' = tools /\ req' = [req EXCEPT ![q] = Idle]
    BY DEF Show
  <1>2. Grows
    BY <1>1, SameGrows DEF ToolsInv, ProbeType
  <1>3. PageSeen'
    BY DEF Show, ToolsInv, WillShow, PageSeen, ViewSeen
  <1>4. WillShow(q)'
    BY <1>1 DEF ToolsInv, ProbeType, WillShow, Idle
  <1> QED
    BY <1>1, <1>2, <1>3, <1>4, JobStays, RequestSteps

\* A step that changes nothing.
LEMMA StutterTools ==
  ASSUME ToolsInv, UNCHANGED vars
  PROVE  ToolsInv'
  BY DEF vars, ToolsInv, ProbeType, JobSeen, PageSeen, WillShow, ViewSeen, Newest

\* What is known of the tools is known throughout.
THEOREM ToolsKnown == Spec => []ToolsInv
  <1>1. ToolsInv /\ [Next]_vars => ToolsInv'
    <2> SUFFICES ASSUME ToolsInv, [Next]_vars PROVE ToolsInv'
      OBVIOUS
    <2>1. CASE Activity \/ Connect \/ Break \/ Deliver
      BY <2>1, LogTools
    <2>2. CASE \E p \in 1..Len(probes) : ProbeEnds(p)
      BY <2>2, ProbeEndsTools
    <2>3. CASE Downloads \/ Installs \/ Completes \/ JobFails
      BY <2>3, JobTools
    <2>4. ASSUME NEW q \in Request,
                 Load(q) \/ Poll(q) \/ Refresh(q) \/ RequestFails(q)
                 \/ \E kind \in {"refresh", "install", "activate", "update", "access"} : Click(q, kind)
          PROVE  ToolsInv'
      BY <2>4, PageTools
    <2>5. ASSUME NEW q \in Request, ForceRefresh(q) \/ Activate(q)
          PROVE  ToolsInv'
      BY <2>5, ForcingTools
    <2>6. ASSUME NEW q \in Request, ForcedDone(q) \/ Install(q) \/ Update(q) \/ Access(q)
          PROVE  ToolsInv'
      BY <2>6, RouteTools
    <2>7. ASSUME NEW q \in Request, Snapshot(q) \/ Answer(q) \/ Show(q)
          PROVE  ToolsInv'
      BY <2>7, SnapshotTools, AnswerTools, ShowTools
    <2>8. CASE UNCHANGED vars
      BY <2>8, StutterTools
    <2> QED
      BY <2>1, <2>2, <2>3, <2>4, <2>5, <2>6, <2>7, <2>8 DEF Next
  <1> QED
    BY InitTools, <1>1, PTL DEF Spec

\* ShownTogether: a page that shows an installation as completed shows services that
\* were probed with it (managementServer.ts:162-163).
THEOREM CompletedIsSeen == Spec => []ShownTogether
  <1>1. ToolsInv => ShownTogether
    BY DEF ToolsInv, PageSeen, ViewSeen, ShownTogether
  <1> QED
    BY ToolsKnown, <1>1, PTL

\* RefreshShows: what a refresh or an activation was to show is shown
\* (serviceCatalog.ts:33-35).
THEOREM RefreshIsShown == Spec => RefreshShows
  <1>1. ToolsInv => \A q \in Request : Show(q) => page'.services >= req[q].due
    BY DEF ToolsInv, Show, WillShow
  <1> QED
    BY ToolsKnown, <1>1, PTL DEF Spec, RefreshShows

-----------------------------------------------------------------------------
(* The events. *)

\* The last events before the n-th.
Consecutive(w, n) ==
  /\ w \in Seq(Nat) /\ Len(w) < n
  /\ \A i \in 1..Len(w) : w[i] = (n - 1 - Len(w)) + i

\* What is on its way are the newest events, and those that are missing before it
\* are retained no more.
Wired ==
  /\ nextId \in Nat \ {0}
  /\ DOMAIN stream = {"status", "wire", "lastId"}
  /\ stream.lastId \in Nat /\ stream.lastId < nextId
  /\ stream.status # "open" => stream.wire = <<>>
  /\ Consecutive(stream.wire, nextId) /\ Len(stream.wire) <= MaxEvents
  /\ stream.status = "open" =>
       /\ stream.lastId + Len(stream.wire) <= nextId - 1
       /\ stream.lastId + Len(stream.wire) = nextId - 1 \/ Len(stream.wire) = MaxEvents

InLog(log, id) == \E i \in 1..Len(log) : log[i] = id
AboveLog(log, id) == \A i \in 1..Len(log) : log[i] < id

\* An event that may still be delivered is known to the page, or newer than what
\* it knows.
Fits(log, last, n) ==
  \A id \in 1..(n - 1) :
    id > last /\ id + MaxEvents >= n => InLog(log, id) \/ AboveLog(log, id)

IsLog(log, n) ==
  log \in Seq(Nat) /\ Increasing(log) /\ \A i \in 1..Len(log) : log[i] < n

Logged ==
  /\ DOMAIN page = {"loaded", "job", "services", "log", "polling"}
  /\ IsLog(page.log, nextId) /\ Fits(page.log, stream.lastId, nextId)

Numbered ==
  /\ DOMAIN req = Request
  /\ \A q \in Request : req[q].stage = "answered" =>
       req[q].nextId \in Nat \ {0} /\ req[q].nextId <= nextId

\* Appending the next event keeps the events consecutive.
LEMMA ConsecutiveAppend ==
  ASSUME NEW n \in Nat \ {0}, NEW w, Consecutive(w, n)
  PROVE  Consecutive(Append(w, n), n + 1) /\ Len(Append(w, n)) = Len(w) + 1
  <1> DEFINE more == Append(w, n)
  <1>1. /\ more \in Seq(Nat) /\ Len(w) \in Nat /\ Len(more) = Len(w) + 1
        /\ more[Len(w) + 1] = n /\ \A i \in 1..Len(w) : more[i] = w[i]
    BY AppendProperties DEF Consecutive
  <1> HIDE DEF more
  <1>2. ASSUME NEW i \in 1..Len(more)
        PROVE  more[i] = ((n + 1) - 1 - Len(more)) + i
    <2>1. CASE i = Len(w) + 1
      BY <1>1, <2>1
    <2>2. CASE i # Len(w) + 1
      <3>1. i \in 1..Len(w)
        BY <1>1, <1>2, <2>2
      <3>2. w[i] = (n - 1 - Len(w)) + i
        BY <3>1 DEF Consecutive
      <3> QED
        BY <1>1, <3>1, <3>2
    <2> QED
      BY <2>1, <2>2
  <1>3. Consecutive(more, n + 1)
    BY <1>1, <1>2 DEF Consecutive
  <1> QED
    BY <1>1, <1>3 DEF more

\* So does taking the first of them.
LEMMA ConsecutiveTail ==
  ASSUME NEW n \in Nat \ {0}, NEW w, Consecutive(w, n), w # <<>>
  PROVE  /\ Consecutive(Tail(w), n) /\ Len(w) \in Nat \ {0} /\ Len(Tail(w)) = Len(w) - 1
         /\ Head(w) = n - Len(w)
  <1>1. /\ Len(w) \in Nat \ {0} /\ Tail(w) \in Seq(Nat) /\ Len(Tail(w)) = Len(w) - 1
        /\ \A i \in 1..Len(Tail(w)) : Tail(w)[i] = w[i + 1]
        /\ Head(w) = w[1]
    BY EmptySeq, HeadTailProperties DEF Consecutive
  <1>2. ASSUME NEW i \in 1..Len(Tail(w))
        PROVE  Tail(w)[i] = (n - 1 - Len(Tail(w))) + i
    <2>1. i + 1 \in 1..Len(w)
      BY <1>1
    <2>2. w[i + 1] = (n - 1 - Len(w)) + (i + 1)
      BY <2>1 DEF Consecutive
    <2> QED
      BY <1>1, <2>2
  <1>3. w[1] = (n - 1 - Len(w)) + 1
    BY <1>1 DEF Consecutive
  <1> QED
    BY <1>1, <1>2, <1>3 DEF Consecutive

\* How many events are no more retained, or are not asked for.
From(after, n) == IF after + MaxEvents < n THEN n - 1 - MaxEvents ELSE after

\* From(after, n) lies between the two.
LEMMA EventsFrom ==
  ASSUME NEW after \in Nat, NEW n \in Nat \ {0}, after < n
  PROVE  /\ From(after, n) \in Nat /\ after <= From(after, n) /\ From(after, n) <= n - 1
         /\ From(after, n) = after \/ From(after, n) = n - 1 - MaxEvents
         /\ n - 1 - From(after, n) <= MaxEvents
         /\ Consecutive(Events(after, n), n)
         /\ Events(after, n) \in Seq(Nat) /\ Len(Events(after, n)) = n - 1 - From(after, n)
         /\ \A i \in 1..Len(Events(after, n)) : Events(after, n)[i] = From(after, n) + i
  <1> DEFINE from == From(after, n)
  <1>1. /\ from \in Nat /\ after <= from /\ from <= n - 1
        /\ from = after \/ from = n - 1 - MaxEvents
        /\ n - 1 - from <= MaxEvents
    BY ConsoleAssumption DEF From
  <1>2. Events(after, n) = [i \in 1..(n - 1 - from) |-> from + i]
    BY DEF Events, From
  <1> HIDE DEF from
  <1>3. n - 1 - from \in Nat
    BY <1>1
  <1>4. Events(after, n) \in Seq(Nat) /\ Len(Events(after, n)) = n - 1 - from
    BY <1>1, <1>2, <1>3
  <1>5. \A i \in 1..Len(Events(after, n)) : Events(after, n)[i] = from + i
    BY <1>2, <1>4
  <1>6. Consecutive(Events(after, n), n)
    BY <1>1, <1>4, <1>5 DEF Consecutive
  <1> QED
    BY <1>1, <1>4, <1>5, <1>6 DEF from

\* A published event goes on the stream after those on their way.
LEMMA PublishWires ==
  ASSUME Wired, Publish
  PROVE  Wired' /\ nextId' = nextId + 1 /\ stream'.lastId = stream.lastId
         /\ stream'.status = stream.status
  <1>1. nextId' = nextId + 1 /\ Len(stream.wire) < MaxEvents
    BY DEF Publish
  <1>2. CASE stream.status = "open"
    <2>1. stream' = [stream EXCEPT !.wire = Append(stream.wire, nextId)]
      BY <1>2 DEF Publish
    <2>2. /\ stream'.wire = Append(stream.wire, nextId) /\ stream'.lastId = stream.lastId
          /\ stream'.status = stream.status /\ DOMAIN stream' = DOMAIN stream
      BY <2>1 DEF Wired
    <2>3. Consecutive(stream'.wire, nextId') /\ Len(stream'.wire) = Len(stream.wire) + 1
      BY <1>1, <2>2, ConsecutiveAppend DEF Wired
    <2>4. Len(stream.wire) \in Nat
      BY DEF Wired, Consecutive
    <2>5. Len(stream'.wire) <= MaxEvents
          /\ stream'.lastId + Len(stream'.wire) = nextId' - 1
      BY <1>1, <1>2, <2>2, <2>3, <2>4, ConsoleAssumption DEF Wired
    <2>6. stream'.lastId + Len(stream'.wire) <= nextId' - 1 /\ nextId' \in Nat \ {0}
          /\ stream'.lastId < nextId'
      BY <1>1, <2>2, <2>4, <2>5 DEF Wired
    <2> QED
      BY <1>1, <1>2, <2>2, <2>3, <2>5, <2>6 DEF Wired
  <1>3. CASE stream.status # "open"
    <2>1. stream' = stream /\ stream.wire = <<>>
      BY <1>3 DEF Publish, Wired
    <2>2. Consecutive(<<>>, nextId + 1) /\ Len(<<>>) = 0
      BY EmptySeq DEF Consecutive, Wired
    <2> QED
      BY <1>1, <1>3, <2>1, <2>2, ConsoleAssumption DEF Wired
  <1> QED
    BY <1>2, <1>3

\* It is newer than all the page knows.
LEMMA PublishLogs ==
  ASSUME Wired, Logged, Publish, page' = page
  PROVE  Logged'
  <1>1. nextId' = nextId + 1 /\ stream'.lastId = stream.lastId /\ nextId \in Nat
    BY PublishWires DEF Wired
  <1>2. IsLog(page.log, nextId + 1)
    <2>1. \A i \in 1..Len(page.log) : page.log[i] \in Nat
      BY ElementOfSeq DEF Logged, IsLog
    <2> QED
      BY <1>1, <2>1 DEF Logged, IsLog
  <1>3. ASSUME NEW id \in 1..((nextId + 1) - 1), id > stream.lastId, id + MaxEvents >= nextId + 1
        PROVE  InLog(page.log, id) \/ AboveLog(page.log, id)
    <2>1. CASE id = nextId
      BY <2>1 DEF Logged, IsLog, AboveLog
    <2>2. CASE id # nextId
      <3>1. id \in 1..(nextId - 1) /\ id + MaxEvents >= nextId
        BY <1>1, <1>3, <2>2, ConsoleAssumption
      <3> QED
        BY <1>3, <3>1 DEF Logged, Fits
    <2> QED
      BY <2>1, <2>2
  <1>4. Fits(page.log, stream.lastId, nextId + 1)
    BY <1>3 DEF Fits
  <1> QED
    BY <1>1, <1>2, <1>4 DEF Logged

\* A new stream replays what is retained after Last-Event-ID.
LEMMA ConnectWires ==
  ASSUME Wired, Connect
  PROVE  Wired' /\ nextId' = nextId /\ stream'.lastId = stream.lastId
  <1>1. /\ nextId' = nextId /\ DOMAIN stream' = DOMAIN stream
        /\ stream'.wire = Events(stream.lastId, nextId)
        /\ stream'.lastId = stream.lastId /\ stream'.status = "open"
    BY DEF Connect, Wired
  <1> DEFINE from == From(stream.lastId, nextId)
  <1>2. /\ from \in Nat /\ stream.lastId <= from /\ from <= nextId - 1
        /\ from = stream.lastId \/ from = nextId - 1 - MaxEvents
        /\ nextId - 1 - from <= MaxEvents
        /\ Consecutive(stream'.wire, nextId) /\ Len(stream'.wire) = nextId - 1 - from
    BY <1>1, EventsFrom DEF Wired
  <1> HIDE DEF from
  <1>3. /\ Len(stream'.wire) <= MaxEvents
        /\ stream.lastId + Len(stream'.wire) <= nextId - 1
        /\ stream.lastId + Len(stream'.wire) = nextId - 1 \/ Len(stream'.wire) = MaxEvents
    BY <1>2, ConsoleAssumption DEF Wired
  <1> QED
    BY <1>1, <1>2, <1>3 DEF Wired

\* A stream that breaks has nothing on its way.
LEMMA BreakWires ==
  ASSUME Wired, Break
  PROVE  Wired' /\ nextId' = nextId /\ stream'.lastId = stream.lastId
  <1>1. /\ nextId' = nextId /\ DOMAIN stream' = DOMAIN stream /\ stream'.wire = <<>>
        /\ stream'.lastId = stream.lastId /\ stream'.status = "connecting"
    BY DEF Break, Wired
  <1>2. Consecutive(<<>>, nextId) /\ Len(<<>>) = 0
    BY EmptySeq DEF Consecutive, Wired
  <1> QED
    BY <1>1, <1>2, ConsoleAssumption DEF Wired

\* An event that is delivered becomes Last-Event-ID.
LEMMA DeliverWires ==
  ASSUME Wired, Deliver
  PROVE  /\ Wired' /\ nextId' = nextId /\ stream'.lastId = Head(stream.wire)
         /\ Head(stream.wire) \in 1..(nextId - 1) /\ Head(stream.wire) > stream.lastId
         /\ Head(stream.wire) + MaxEvents >= nextId
  <1>1. /\ nextId' = nextId /\ DOMAIN stream' = DOMAIN stream
        /\ stream'.wire = Tail(stream.wire)
        /\ stream'.lastId = Head(stream.wire) /\ stream'.status = stream.status
        /\ stream.wire # <<>> /\ stream.status = "open"
    BY DEF Deliver, Wired
  <1>2. /\ Len(stream.wire) \in Nat \ {0} /\ Consecutive(stream'.wire, nextId)
        /\ Len(stream'.wire) = Len(stream.wire) - 1
        /\ Head(stream.wire) = nextId - Len(stream.wire)
    BY <1>1, ConsecutiveTail DEF Wired
  <1>3. /\ Len(stream.wire) < nextId /\ Len(stream.wire) <= MaxEvents
        /\ stream.lastId + Len(stream.wire) <= nextId - 1
        /\ nextId \in Nat \ {0} /\ stream.lastId \in Nat
    BY <1>1 DEF Wired, Consecutive
  <1>4. /\ Head(stream.wire) \in 1..(nextId - 1) /\ Head(stream.wire) > stream.lastId
        /\ Head(stream.wire) + MaxEvents >= nextId
        /\ Len(stream'.wire) <= MaxEvents
        /\ Head(stream.wire) + Len(stream'.wire) = nextId - 1
        /\ Head(stream.wire) + Len(stream'.wire) <= nextId - 1
    <2> DEFINE h == Head(stream.wire) l == Len(stream.wire) rest == Len(stream'.wire)
    <2>1. /\ l \in Nat \ {0} /\ rest = l - 1 /\ h = nextId - l
          /\ l < nextId /\ l <= MaxEvents /\ stream.lastId + l <= nextId - 1
      BY <1>2, <1>3
    <2> HIDE DEF h, l, rest
    <2>2. /\ h \in 1..(nextId - 1) /\ h > stream.lastId /\ h + MaxEvents >= nextId
          /\ rest <= MaxEvents /\ h + rest = nextId - 1 /\ h + rest <= nextId - 1
      BY <1>3, <2>1, ConsoleAssumption
    <2> QED
      BY <2>2 DEF h, l, rest
  <1>5. Wired'
    BY <1>1, <1>2, <1>3, <1>4 DEF Wired
  <1> QED
    BY <1>1, <1>4, <1>5

\* A new event that fits into the log leaves it in order.
LEMMA ReceivedFits ==
  ASSUME NEW log, NEW n \in Nat, IsLog(log, n), NEW last \in Nat, Fits(log, last, n),
         NEW id \in 1..(n - 1), id > last, id + MaxEvents >= n
  PROVE  IsLog(Received(log, id), n) /\ Fits(Received(log, id), id, n)
  <1>1. CASE InLog(log, id)
    <2>1. Received(log, id) = log
      BY <1>1 DEF Received, InLog
    <2> QED
      BY <2>1 DEF Fits
  <1>2. CASE ~InLog(log, id)
    <2> DEFINE more == Append(log, id)
    <2>1. AboveLog(log, id)
      BY <1>2 DEF Fits
    <2>2. /\ more \in Seq(Nat) /\ Len(more) = Len(log) + 1 /\ Len(log) \in Nat
          /\ more[Len(log) + 1] = id /\ \A i \in 1..Len(log) : more[i] = log[i]
      BY AppendProperties DEF IsLog
    <2>3. \A i \in 1..Len(log) : log[i] \in Nat
      BY ElementOfSeq DEF IsLog
    <2>4. Received(log, id) = more \/ Received(log, id) = Tail(more)
      BY <1>2 DEF Received, InLog
    <2> HIDE DEF more
    <2>5. ASSUME NEW i \in 1..Len(more), NEW j \in 1..Len(more), i < j
          PROVE  more[i] < more[j]
      <3>1. i \in 1..Len(log) /\ more[i] = log[i]
        BY <2>2, <2>5
      <3>2. CASE j = Len(log) + 1
        BY <2>1, <2>2, <3>1, <3>2 DEF AboveLog
      <3>3. CASE j # Len(log) + 1
        <4>1. j \in 1..Len(log) /\ more[j] = log[j]
          BY <2>2, <3>3
        <4> QED
          BY <2>5, <3>1, <4>1 DEF IsLog, Increasing
      <3> QED
        BY <3>2, <3>3
    <2>6. ASSUME NEW i \in 1..Len(more)
          PROVE  more[i] < n /\ more[i] <= id /\ more[i] \in Nat
      <3>1. CASE i = Len(log) + 1
        BY <2>2, <3>1
      <3>2. CASE i # Len(log) + 1
        <4>1. i \in 1..Len(log) /\ more[i] = log[i]
          BY <2>2, <3>2
        <4> QED
          BY <2>1, <2>3, <4>1 DEF IsLog, AboveLog
      <3> QED
        BY <3>1, <3>2
    <2>7. CASE Received(log, id) = more
      <3>1. IsLog(more, n)
        BY <2>2, <2>5, <2>6 DEF IsLog, Increasing
      <3>2. \A other \in 1..(n - 1) : other > id => AboveLog(more, other)
        BY <2>6 DEF AboveLog
      <3> QED
        BY <2>7, <3>1, <3>2 DEF Fits
    <2>8. CASE Received(log, id) = Tail(more)
      <3> DEFINE rest == Tail(more)
      <3>1. /\ rest \in Seq(Nat) /\ Len(rest) = Len(log)
            /\ \A i \in 1..Len(rest) : rest[i] = more[i + 1]
        <4>1. more # <<>>
          BY <2>2, EmptySeq
        <4> QED
          BY <2>2, <4>1, HeadTailProperties
      <3> HIDE DEF rest
      <3>2. \A i \in 1..Len(rest) : i + 1 \in 1..Len(more)
        BY <2>2, <3>1
      <3>3. \A i \in 1..Len(rest) : rest[i] < n /\ rest[i] <= id /\ rest[i] \in Nat
        BY <2>6, <3>1, <3>2
      <3>4. ASSUME NEW i \in 1..Len(rest), NEW j \in 1..Len(rest), i < j
            PROVE  rest[i] < rest[j]
        <4>1. i + 1 < j + 1
          BY <3>1, <3>4, <2>2
        <4> QED
          BY <2>5, <3>1, <3>2, <4>1
      <3>5. IsLog(rest, n)
        BY <3>1, <3>3, <3>4 DEF IsLog, Increasing
      <3>6. \A other \in 1..(n - 1) : other > id => AboveLog(rest, other)
        BY <3>3 DEF AboveLog
      <3>7. Received(log, id) = rest
        BY <2>8 DEF rest
      <3> QED
        BY <3>5, <3>6, <3>7 DEF Fits
    <2> QED
      BY <2>4, <2>7, <2>8
  <1> QED
    BY <1>1, <1>2

\* The page adds it to its log unless it knows it.
LEMMA DeliverLogs ==
  ASSUME Wired, Logged, Deliver
  PROVE  Logged'
  <1>1. /\ nextId' = nextId /\ stream'.lastId = Head(stream.wire)
        /\ page'.log = Received(page.log, Head(stream.wire)) /\ DOMAIN page' = DOMAIN page
    BY DeliverWires DEF Deliver, Logged
  <1>2. /\ IsLog(Received(page.log, Head(stream.wire)), nextId)
        /\ Fits(Received(page.log, Head(stream.wire)), Head(stream.wire), nextId)
    BY DeliverWires, ReceivedFits DEF Logged, Wired
  <1> QED
    BY <1>1, <1>2 DEF Logged

\* The events of a snapshot.
LEMMA SnapshotFits ==
  ASSUME NEW n \in Nat, NEW r \in Nat \ {0}, r <= n, NEW last \in Nat
  PROVE  IsLog(Events(0, r), n) /\ Fits(Events(0, r), last, n)
  <1> DEFINE from == From(0, r) log == Events(0, r)
  <1>1. /\ from \in Nat /\ from <= r - 1
        /\ from = 0 \/ from = r - 1 - MaxEvents
        /\ log \in Seq(Nat) /\ Len(log) = r - 1 - from
        /\ \A i \in 1..Len(log) : log[i] = from + i
    <2>1. 0 \in Nat /\ 0 < r
      OBVIOUS
    <2> QED
      BY <2>1, EventsFrom
  <1> HIDE DEF from, log
  <1>2. \A i \in 1..Len(log) : log[i] < r
    BY <1>1
  <1>3. IsLog(log, n)
    <2>1. Increasing(log)
      BY <1>1 DEF Increasing
    <2>2. \A i \in 1..Len(log) : log[i] < n
      BY <1>1
    <2> QED
      BY <1>1, <2>1, <2>2 DEF IsLog
  <1>4. ASSUME NEW id \in 1..(n - 1), id + MaxEvents >= n
        PROVE  InLog(log, id) \/ AboveLog(log, id)
    <2>1. CASE id < r
      <3>1. id - from \in 1..Len(log) /\ from + (id - from) = id
        BY <1>1, <1>4, <2>1, ConsoleAssumption
      <3> QED
        BY <1>1, <3>1 DEF InLog
    <2>2. CASE id >= r
      <3>1. \A i \in 1..Len(log) : log[i] < id
        BY <1>1, <2>2
      <3> QED
        BY <3>1 DEF AboveLog
    <2> QED
      BY <2>1, <2>2
  <1> QED
    BY <1>3, <1>4 DEF Fits, log

-----------------------------------------------------------------------------
(* The page is loaded once, and only then connects. *)

Asking == {"asked", "probing", "answered"}

\* Until the page is loaded there is one request at most, which is to load it;
\* afterwards there is none of that kind.
LoadsOnce ==
  /\ page.loaded \in BOOLEAN
  /\ page.loaded = FALSE =>
       /\ stream.status = "closed" /\ page.polling = FALSE
       /\ \A q \in Request : req[q] # Idle =>
            /\ req[q].stage \in Asking /\ req[q].first = TRUE
            /\ \A r \in Request : r # q => req[r] = Idle
  /\ page.loaded = TRUE =>
       \A q \in Request : req[q].stage \in Asking => req[q].first = FALSE

EventsInv == Wired /\ Logged /\ Numbered /\ LoadsOnce

\* No event has been published at first.
LEMMA InitEvents ==
  ASSUME Init
  PROVE  EventsInv
  <1>1. Wired
    BY EmptySeq, ConsoleAssumption DEF Init, Wired, Consecutive
  <1>2. Logged
    BY EmptySeq DEF Init, Logged, IsLog, Fits, Increasing, InLog, AboveLog
  <1>3. Numbered /\ LoadsOnce
    BY DEF Init, Numbered, LoadsOnce, Idle
  <1> QED
    BY <1>1, <1>2, <1>3 DEF EventsInv

\* Only one request steps.
Only(q) == DOMAIN req' = Request /\ \A o \in Request : o # q => req'[o] = req[o]

\* A step of one request that does not load the page.
LEMMA RequestLoads ==
  ASSUME EventsInv, NEW q \in Request, Only(q),
         page'.loaded = page.loaded, stream'.status = stream.status,
         page'.polling = page.polling \/ page'.polling = FALSE,
         \/ req'[q] = Idle
         \/ /\ req'[q].stage \in Asking /\ req'[q].first = req[q].first
            /\ req[q].stage \in Asking
         \/ req'[q].stage \in Asking /\ req'[q].first = FALSE /\ page.loaded = TRUE
         \/ req'[q].stage \notin Asking /\ page.loaded = TRUE
  PROVE  LoadsOnce'
  <1>1. \A o \in Request : o # q => req'[o] = req[o]
    BY DEF Only
  <1>2. CASE page.loaded = FALSE
    <2>1. \A o \in Request : req'[o] # Idle =>
            /\ req'[o].stage \in Asking /\ req'[o].first = TRUE
            /\ \A p \in Request : p # o => req'[p] = Idle
      BY <1>1, <1>2 DEF EventsInv, LoadsOnce, Asking, Idle
    <2> QED
      BY <1>2, <2>1 DEF EventsInv, LoadsOnce
  <1>3. CASE page.loaded = TRUE
    <2>1. \A o \in Request : req'[o].stage \in Asking => req'[o].first = FALSE
      BY <1>1, <1>3 DEF EventsInv, LoadsOnce, Asking, Idle
    <2> QED
      BY <1>3, <2>1 DEF EventsInv, LoadsOnce
  <1> QED
    BY <1>2, <1>3 DEF EventsInv, LoadsOnce

\* A step of one request: if it answers it, with events that were published.
LEMMA RequestNumbers ==
  ASSUME Numbered, NEW q \in Request, Only(q),
         nextId \in Nat, nextId' = nextId \/ nextId' = nextId + 1,
         req'[q].stage = "answered" =>
           req'[q].nextId \in Nat \ {0} /\ req'[q].nextId <= nextId'
  PROVE  Numbered'
  <1>1. ASSUME NEW o \in Request, req'[o].stage = "answered"
        PROVE  req'[o].nextId \in Nat \ {0} /\ req'[o].nextId <= nextId'
    <2>1. CASE o = q
      BY <1>1, <2>1
    <2>2. CASE o # q
      <3>1. req'[o] = req[o]
        BY <2>2 DEF Only
      <3> QED
        BY <1>1, <3>1 DEF Numbered
    <2> QED
      BY <2>1, <2>2
  <1> QED
    BY <1>1 DEF Numbered, Only

\* A step without events leaves the stream and the log as they were.
LEMMA SilentEvents ==
  ASSUME EventsInv, nextId' = nextId, stream' = stream, page'.log = page.log,
         DOMAIN page' = DOMAIN page
  PROVE  Wired' /\ Logged' /\ nextId \in Nat
  BY DEF EventsInv, Wired, Logged

\* Steps of the server that publish an event.
LEMMA ActivityEvents ==
  ASSUME EventsInv, Activity \/ Downloads \/ Completes \/ JobFails
  PROVE  EventsInv'
  <1>1. Publish /\ req' = req /\ page' = page
    BY DEF Activity, Downloads, Completes, JobFails
  <1>2. Wired' /\ Logged' /\ nextId' = nextId + 1 /\ stream'.status = stream.status /\ nextId \in Nat
    BY <1>1, PublishWires, PublishLogs DEF EventsInv, Wired
  <1>3. Numbered'
    BY <1>1, <1>2 DEF EventsInv, Numbered
  <1>4. LoadsOnce'
    BY <1>1, <1>2 DEF EventsInv, LoadsOnce
  <1> QED
    BY <1>2, <1>3, <1>4 DEF EventsInv

\* Steps of the stream.
LEMMA StreamEvents ==
  ASSUME EventsInv, Connect \/ Break \/ Deliver
  PROVE  EventsInv'
  <1>1. Wired' /\ nextId' = nextId
    BY ConnectWires, BreakWires, DeliverWires DEF EventsInv
  <1>2. Logged'
    <2>1. CASE Connect \/ Break
      BY <2>1, ConnectWires, BreakWires DEF Connect, Break, EventsInv, Logged
    <2>2. CASE Deliver
      BY <2>2, DeliverLogs DEF EventsInv
    <2> QED
      BY <2>1, <2>2
  <1>3. Numbered'
    BY <1>1 DEF Connect, Break, Deliver, EventsInv, Numbered
  <1>4. LoadsOnce'
    <2>1. req' = req /\ page'.loaded = page.loaded /\ page'.polling = page.polling
      BY DEF Connect, Break, Deliver, EventsInv, Logged
    <2>2. stream.status # "closed"
      BY DEF Connect, Break, Deliver, EventsInv, Wired
    <2>3. page.loaded = TRUE
      BY <2>2 DEF EventsInv, LoadsOnce
    <2> QED
      BY <2>1, <2>3 DEF EventsInv, LoadsOnce
  <1> QED
    BY <1>1, <1>2, <1>3, <1>4 DEF EventsInv

\* Probes and the installer publish nothing.
LEMMA SilentStepEvents ==
  ASSUME EventsInv, (\E p \in 1..Len(probes) : ProbeEnds(p)) \/ Installs \/ UNCHANGED vars
  PROVE  EventsInv'
  <1>1. nextId' = nextId /\ stream' = stream /\ page' = page /\ req' = req
    BY DEF ProbeEnds, Installs, vars
  <1>2. Wired' /\ Logged'
    BY <1>1, SilentEvents
  <1>3. Numbered' /\ LoadsOnce'
    BY <1>1 DEF EventsInv, Numbered, LoadsOnce
  <1> QED
    BY <1>2, <1>3 DEF EventsInv

\* What the page does by itself.
LEMMA PageEvents ==
  ASSUME EventsInv, NEW q \in Request,
         Load(q) \/ Poll(q) \/ Refresh(q) \/ RequestFails(q)
         \/ \E kind \in {"refresh", "install", "activate", "update", "access"} : Click(q, kind)
  PROVE  EventsInv'
  <1>1. /\ nextId' = nextId /\ stream' = stream /\ page'.log = page.log
        /\ DOMAIN page' = DOMAIN page /\ page'.loaded = page.loaded
        /\ page'.polling = page.polling \/ page'.polling = FALSE
    BY DEF Load, Poll, Refresh, RequestFails, Click, EventsInv, Logged
  <1>2. Wired' /\ Logged' /\ nextId \in Nat
    BY <1>1, SilentEvents
  <1>3. Only(q)
    BY DEF Load, Poll, Refresh, RequestFails, Click, Ask, Only, EventsInv, Numbered
  <1>4. DOMAIN req = Request
    BY DEF EventsInv, Numbered
  <1>5. Numbered'
    <2>1. req'[q].stage # "answered"
      BY <1>4 DEF Load, Poll, Refresh, RequestFails, Click, Ask, Idle
    <2> QED
      BY <1>1, <1>2, <1>3, <2>1, RequestNumbers DEF EventsInv
  <1>6. LoadsOnce'
    <2>1. CASE Load(q)
      <3>1. page' = page /\ \A r \in Request : req[r] = Idle
        BY <2>1 DEF Load
      <3>2. req'[q].stage = "asked" /\ req'[q].first = TRUE
        BY <1>4, <2>1 DEF Load, Ask
      <3>3. \A o \in Request : o # q => req'[o] = Idle
        BY <1>3, <3>1 DEF Only
      <3>4. page.loaded = FALSE
        BY <2>1 DEF Load, EventsInv, LoadsOnce
      <3> QED
        BY <1>1, <3>1, <3>2, <3>3, <3>4 DEF EventsInv, LoadsOnce, Asking
    <2>2. CASE Poll(q)
      <3>1. page.loaded = TRUE
        BY <2>2 DEF Poll, EventsInv, LoadsOnce
      <3>2. req'[q].stage = "asked" /\ req'[q].first = FALSE
        BY <1>4, <2>2 DEF Poll, Ask
      <3> QED
        BY <1>1, <1>3, <3>1, <3>2, RequestLoads DEF Asking
    <2>3. CASE Refresh(q)
      <3>1. page.loaded = TRUE
        BY <2>3 DEF Refresh, EventsInv, LoadsOnce, Asking, Idle
      <3>2. req'[q].stage = "asked" /\ req'[q].first = FALSE
        BY <1>4, <2>3 DEF Refresh, Ask
      <3> QED
        BY <1>1, <1>3, <3>1, <3>2, RequestLoads DEF Asking
    <2>4. CASE RequestFails(q)
      <3>1. req'[q] = Idle
        BY <1>4, <2>4 DEF RequestFails
      <3> QED
        BY <1>1, <1>3, <3>1, RequestLoads
    <2>5. ASSUME NEW kind, Click(q, kind)
          PROVE  LoadsOnce'
      <3>1. page.loaded = TRUE
        BY <2>5 DEF Click, EventsInv, LoadsOnce
      <3>2. req'[q].stage = "posted"
        BY <1>4, <2>5 DEF Click
      <3> QED
        BY <1>1, <1>3, <3>1, <3>2, RequestLoads DEF Asking
    <2> QED
      BY <2>1, <2>2, <2>3, <2>4, <2>5
  <1> QED
    BY <1>2, <1>5, <1>6 DEF EventsInv

\* A request that is being served belongs to a page that was loaded.
LEMMA ServedLoaded ==
  ASSUME EventsInv, NEW q \in Request, req[q].stage \in {"posted", "forcing"}
  PROVE  page.loaded = TRUE
  BY DEF EventsInv, LoadsOnce, Asking, Idle

\* A refresh and an activation publish that they begin.
LEMMA ForcingEvents ==
  ASSUME EventsInv, NEW q \in Request, ForceRefresh(q) \/ Activate(q)
  PROVE  EventsInv'
  <1>1. nextId' = nextId /\ stream' = stream /\ page' = page
    BY DEF ForceRefresh, Activate
  <1>2. Wired' /\ Logged' /\ nextId \in Nat
    BY <1>1, SilentEvents
  <1>3. Only(q) /\ req'[q].stage = "forcing"
    BY DEF ForceRefresh, Activate, Waits, Only, EventsInv, Numbered
  <1>4. page.loaded = TRUE
    BY ServedLoaded DEF ForceRefresh, Activate, Posted
  <1>5. Numbered'
    BY <1>1, <1>2, <1>3, RequestNumbers DEF EventsInv
  <1>6. LoadsOnce'
    <2>1. req'[q].stage \notin Asking
      BY <1>3 DEF Asking
    <2> QED
      BY <1>1, <1>3, <1>4, <2>1, RequestLoads
  <1> QED
    BY <1>2, <1>5, <1>6 DEF EventsInv

\* The routes publish what they have done.
LEMMA RouteEvents ==
  ASSUME EventsInv, NEW q \in Request,
         ForcedDone(q) \/ Install(q) \/ Update(q) \/ Access(q)
  PROVE  EventsInv'
  <1>1. Publish /\ page' = page
    BY DEF ForcedDone, Install, Update, Access
  <1>2. /\ Wired' /\ Logged' /\ nextId \in Nat /\ nextId' = nextId + 1
        /\ stream'.status = stream.status
    BY <1>1, PublishWires, PublishLogs DEF EventsInv, Wired
  <1>3. Only(q) /\ req'[q].stage \in {"idle", "done"}
    BY DEF ForcedDone, Install, Update, Access, Done, Idle, Only, EventsInv, Numbered
  <1>4. page.loaded = TRUE
    BY ServedLoaded DEF ForcedDone, Install, Update, Access, Posted
  <1>5. req'[q].stage \notin Asking
    BY <1>3 DEF Asking
  <1>6. Numbered'
    BY <1>2, <1>3, <1>5, RequestNumbers DEF EventsInv, Asking
  <1>7. LoadsOnce'
    BY <1>1, <1>2, <1>3, <1>4, <1>5, RequestLoads
  <1> QED
    BY <1>2, <1>6, <1>7 DEF EventsInv

\* A snapshot reads the retained events and publishes none.
LEMMA AskedEvents ==
  ASSUME EventsInv, NEW q \in Request, Snapshot(q) \/ Answer(q)
  PROVE  EventsInv'
  <1>1. nextId' = nextId /\ stream' = stream /\ page' = page
    BY DEF Snapshot, Answer, Answered
  <1>2. Wired' /\ Logged' /\ nextId \in Nat \ {0}
    BY <1>1, SilentEvents DEF EventsInv, Wired
  <1>3. /\ Only(q) /\ req'[q].stage \in Asking /\ req'[q].first = req[q].first
        /\ req'[q].stage = "answered" => req'[q].nextId = nextId
    <2>1. CASE Snapshot(q)
      BY <2>1 DEF Snapshot, Asking, Only, EventsInv, Numbered
    <2>2. CASE Answer(q)
      BY <2>2 DEF Answer, Answered, Asking, Only, EventsInv, Numbered
    <2> QED
      BY <2>1, <2>2
  <1>4. req[q].stage \in Asking
    BY DEF Snapshot, Answer, Answered, Asking
  <1>5. Numbered'
    BY <1>1, <1>2, <1>3, RequestNumbers DEF EventsInv
  <1>6. LoadsOnce'
    BY <1>1, <1>3, <1>4, RequestLoads
  <1> QED
    BY <1>2, <1>5, <1>6 DEF EventsInv

\* The page puts the events of a snapshot into its log.
LEMMA ShowEvents ==
  ASSUME EventsInv, NEW q \in Request, Show(q)
  PROVE  EventsInv'
  <1>1. /\ req[q].stage = "answered" /\ nextId' = nextId
        /\ req' = [req EXCEPT ![q] = Idle]
        /\ page'.loaded = TRUE /\ page'.log = Events(0, req[q].nextId)
        /\ DOMAIN page' = {"loaded", "job", "services", "log", "polling"}
    BY DEF Show
  <1>2. req[q].nextId \in Nat \ {0} /\ req[q].nextId <= nextId /\ nextId \in Nat /\ stream.lastId \in Nat
    BY <1>1 DEF EventsInv, Numbered, Wired
  <1>3. /\ stream'.lastId = stream.lastId /\ stream'.wire = stream.wire
        /\ DOMAIN stream' = DOMAIN stream
        /\ stream'.status = stream.status \/ (stream'.status = "connecting" /\ stream.wire = <<>>)
    <2>1. CASE page.loaded = TRUE
      <3>1. req[q].first = FALSE
        BY <1>1, <2>1 DEF EventsInv, LoadsOnce, Asking
      <3>2. stream' = stream
        BY <3>1 DEF Show
      <3> QED
        BY <3>2
    <2>2. CASE page.loaded = FALSE
      <3>1. req[q].first = TRUE /\ stream.status = "closed"
        BY <1>1, <2>2 DEF EventsInv, LoadsOnce, Asking, Idle
      <3>2. stream' = [stream EXCEPT !.status = "connecting"]
        BY <3>1 DEF Show
      <3> QED
        BY <3>1, <3>2 DEF EventsInv, Wired
    <2> QED
      BY <2>1, <2>2 DEF EventsInv, LoadsOnce
  <1>4. Wired'
    BY <1>1, <1>3 DEF EventsInv, Wired
  <1>5. Logged'
    <2>1. /\ IsLog(Events(0, req[q].nextId), nextId)
          /\ Fits(Events(0, req[q].nextId), stream.lastId, nextId)
      BY <1>2, SnapshotFits
    <2> QED
      BY <1>1, <1>3, <2>1 DEF Logged
  <1>6. Numbered'
    <2>1. Only(q) /\ req'[q].stage = "idle"
      BY <1>1 DEF Only, EventsInv, Numbered, Idle
    <2> QED
      BY <1>1, <1>2, <2>1, RequestNumbers DEF EventsInv
  <1>7. LoadsOnce'
    <2>1. ASSUME NEW o \in Request, req'[o].stage \in Asking
          PROVE  req'[o].first = FALSE
      <3>1. o # q /\ req'[o] = req[o]
        BY <1>1, <2>1 DEF EventsInv, Numbered, Asking, Idle
      <3>2. page.loaded = TRUE
        BY <1>1, <2>1, <3>1 DEF EventsInv, LoadsOnce, Asking, Idle
      <3> QED
        BY <2>1, <3>1, <3>2 DEF EventsInv, LoadsOnce
    <2> QED
      BY <1>1, <2>1 DEF LoadsOnce
  <1> QED
    BY <1>4, <1>5, <1>6, <1>7 DEF EventsInv

\* The stream and the log belong together throughout.
THEOREM EventsKnown == Spec => []EventsInv
  <1>1. EventsInv /\ [Next]_vars => EventsInv'
    <2> SUFFICES ASSUME EventsInv, [Next]_vars PROVE EventsInv'
      OBVIOUS
    <2>1. CASE Activity \/ Downloads \/ Completes \/ JobFails
      BY <2>1, ActivityEvents
    <2>2. CASE Connect \/ Break \/ Deliver
      BY <2>2, StreamEvents
    <2>3. CASE (\E p \in 1..Len(probes) : ProbeEnds(p)) \/ Installs \/ UNCHANGED vars
      BY <2>3, SilentStepEvents
    <2>4. ASSUME NEW q \in Request,
                 Load(q) \/ Poll(q) \/ Refresh(q) \/ RequestFails(q)
                 \/ \E kind \in {"refresh", "install", "activate", "update", "access"} : Click(q, kind)
          PROVE  EventsInv'
      BY <2>4, PageEvents
    <2>5. ASSUME NEW q \in Request, ForceRefresh(q) \/ Activate(q)
          PROVE  EventsInv'
      BY <2>5, ForcingEvents
    <2>6. ASSUME NEW q \in Request, ForcedDone(q) \/ Install(q) \/ Update(q) \/ Access(q)
          PROVE  EventsInv'
      BY <2>6, RouteEvents
    <2>7. ASSUME NEW q \in Request, Snapshot(q) \/ Answer(q) \/ Show(q)
          PROVE  EventsInv'
      BY <2>7, AskedEvents, ShowEvents
    <2> QED
      BY <2>1, <2>2, <2>3, <2>4, <2>5, <2>6, <2>7 DEF Next
  <1> QED
    BY InitEvents, <1>1, PTL DEF Spec

\* StreamWhole: a page that is connected misses no event that is retained
\* (managementServer.ts:299-301).
THEOREM NoEventMissed == Spec => []StreamWhole
  <1>1. EventsInv => StreamWhole
    <2> SUFFICES ASSUME EventsInv, stream.status = "open" PROVE StreamWhole
      BY DEF StreamWhole
    <2> DEFINE w == stream.wire last == stream.lastId
    <2>1. /\ nextId \in Nat \ {0} /\ last \in Nat /\ last < nextId
          /\ Consecutive(w, nextId)
          /\ last + Len(w) <= nextId - 1
          /\ last + Len(w) = nextId - 1 \/ Len(w) = MaxEvents
      BY DEF EventsInv, Wired
    <2> HIDE DEF w, last
    <2>2. /\ w \in Seq(Nat) /\ Len(w) \in Nat /\ Len(w) < nextId
          /\ \A i \in 1..Len(w) : w[i] = (nextId - 1 - Len(w)) + i
      BY <2>1 DEF Consecutive
    <2>3. Increasing(w)
      BY <2>1, <2>2 DEF Increasing
    <2>4. \A i \in 1..Len(w) : w[i] > last
      BY <2>1, <2>2
    <2>5. ASSUME NEW id \in ToSet(Events(0, nextId)), ~(id <= last)
          PROVE  id \in ToSet(w)
      <3> DEFINE all == Events(0, nextId) from == From(0, nextId)
      <3>1. /\ from \in Nat /\ all \in Seq(Nat) /\ Len(all) = nextId - 1 - from
            /\ nextId - 1 - from <= MaxEvents
            /\ \A i \in 1..Len(all) : all[i] = from + i
        <4>1. 0 \in Nat /\ 0 < nextId
          BY <2>1
        <4> QED
          BY <2>1, <4>1, EventsFrom
      <3>2. id \in ToSet(all)
        OBVIOUS
      <3> HIDE DEF all, from
      <3>3. PICK i \in 1..Len(all) : id = all[i]
        BY <3>1, <3>2 DEF ToSet
      <3>4. id = from + i
        BY <3>1, <3>3
      <3>5. id \in Nat /\ id <= nextId - 1 /\ id > nextId - 1 - MaxEvents
        BY <2>1, <3>1, <3>3, <3>4, ConsoleAssumption
      <3> DEFINE j == id - (nextId - 1 - Len(w))
      <3>6. j \in 1..Len(w) /\ (nextId - 1 - Len(w)) + j = id
        BY <2>1, <2>2, <2>5, <3>5, ConsoleAssumption
      <3> HIDE DEF j
      <3>7. w[j] = id
        BY <2>2, <3>6
      <3> QED
        BY <2>2, <3>6, <3>7 DEF ToSet
    <2> QED
      BY <2>3, <2>4, <2>5 DEF StreamWhole, w, last
  <1> QED
    BY EventsKnown, <1>1, PTL

\* LogOrdered: what the page lists is in order and without repetition
\* (managementUi.ts:311-314).
THEOREM LogInOrder == Spec => []LogOrdered
  <1>1. EventsInv => LogOrdered
    BY DEF EventsInv, Logged, IsLog, LogOrdered
  <1> QED
    BY EventsKnown, <1>1, PTL

-----------------------------------------------------------------------------
(* The inductive invariant. *)

ThrottleType ==
  /\ clock \in Time
  /\ failures \in [Client -> Object \cup {NoObject}]
  /\ heap \in [Object -> Record]
  /\ \A o \in Object : heap[o].firstAt <= clock
  /\ \A l \in Login : login[l].active =>
       /\ login[l].client \in Client /\ login[l].now \in Nat
       /\ login[l].now <= clock
       /\ login[l].current \in Object \cup {NoObject}
  /\ DOMAIN login = Login
  /\ wrong \in [Client -> Seq(Nat)]

\* The record is the client's, or was when one of its logins began.
Refers(c, o) ==
  \/ failures[c] = o
  \/ \E l \in Login : login[l].active /\ login[l].client = c /\ login[l].current = o

OneClient == \A o \in Object : \A c, d \in Client : Refers(c, o) /\ Refers(d, o) => c = d

Earned(c, o) ==
  /\ heap[o].count <= Cardinality(Within(wrong[c], heap[o]))
  /\ heap[o].blockedUntil > 0 => heap[o].count >= FailureLimit

AllEarned == \A c \in Client, o \in Object : Refers(c, o) => Earned(c, o)

\* A login began after the first failure of the record it read.
Later ==
  \A l \in Login : login[l].active /\ login[l].current \in Object
    => heap[login[l].current].firstAt <= login[l].now

TInv == ThrottleType /\ OneClient /\ AllEarned /\ Later

-----------------------------------------------------------------------------
(* Counting. *)

\* The failed logins in a window are finitely many.
LEMMA WithinFinite ==
  ASSUME NEW w \in Seq(Nat), NEW r
  PROVE  IsFiniteSet(Within(w, r)) /\ Cardinality(Within(w, r)) \in Nat
  <1>1. Len(w) \in Nat
    OBVIOUS
  <1>2. IsFiniteSet(1..Len(w))
    BY <1>1, FS_Interval
  <1>3. Within(w, r) \subseteq 1..Len(w)
    BY DEF Within
  <1>4. IsFiniteSet(Within(w, r))
    BY <1>2, <1>3, FS_Subset
  <1> QED
    BY <1>4, FS_CardinalityType

\* A failure is one more to count for a record whose window it is in, and none
\* less for any other.
LEMMA OneMoreWithin ==
  ASSUME NEW w \in Seq(Nat), NEW r \in Record, NEW now \in Nat
  PROVE  /\ Within(w, r) \subseteq Within(Append(w, now), r)
         /\ Cardinality(Within(w, r)) <= Cardinality(Within(Append(w, now), r))
         /\ r.firstAt <= now /\ now <= r.firstAt + FailureWindow
              => Cardinality(Within(Append(w, now), r)) = Cardinality(Within(w, r)) + 1
  <1> DEFINE n == Len(w) + 1
             v == Append(w, now)
  <1>1. v \in Seq(Nat) /\ n \in Nat /\ Len(v) = n /\ v[n] = now
        /\ \A i \in 1..Len(w) : v[i] = w[i]
    OBVIOUS
  <1>2. Len(w) \in Nat /\ n = Len(w) + 1
    OBVIOUS
  <1> HIDE DEF v, n
  <1>3. Within(w, r) \subseteq Within(v, r)
    BY <1>1, <1>2 DEF Within
  <1>4. n \notin Within(w, r)
    BY <1>2 DEF Within
  <1>5. IsFiniteSet(Within(w, r)) /\ Cardinality(Within(w, r)) \in Nat
    BY WithinFinite
  <1>6. IsFiniteSet(Within(v, r)) /\ Cardinality(Within(v, r)) \in Nat
    BY <1>1, WithinFinite
  <1>7. Cardinality(Within(w, r)) <= Cardinality(Within(v, r))
    BY <1>3, <1>6, FS_Subset
  <1>8. ASSUME r.firstAt <= now, now <= r.firstAt + FailureWindow
        PROVE  Cardinality(Within(v, r)) = Cardinality(Within(w, r)) + 1
    <2>1. Within(v, r) = Within(w, r) \cup {n}
      BY <1>1, <1>2, <1>8 DEF Within
    <2> QED
      BY <1>4, <1>5, <2>1, FS_AddElement
  <1> QED
    BY <1>3, <1>7, <1>8 DEF v

\* How a failure changes its record.
LEMMA LockoutType ==
  ASSUME NEW n \in Nat, n >= FailureLimit
  PROVE  Lockout(n) \in Nat
  <1> DEFINE more == n - FailureLimit
             k == IF more < 5 THEN more + 1 ELSE 6
  <1>1. k \in 1..6
    BY AuthenticatorAssumption
  <1>2. Doublings[k] \in {1, 2, 4, 8, 16, 32}
    BY <1>1 DEF Doublings
  <1>3. BaseLockout * Doublings[k] \in Nat
    BY <1>2, AuthenticatorAssumption
  <1> QED
    BY <1>3, AuthenticatorAssumption DEF Lockout

\* A record with one failure more is a record.
LEMMA CountedRecord ==
  ASSUME NEW r \in Record, NEW now \in Nat
  PROVE  /\ Counted(r, now) \in Record
         /\ Counted(r, now).count = r.count + 1
         /\ Counted(r, now).firstAt = r.firstAt
         /\ Counted(r, now).blockedUntil > 0 => Counted(r, now).count >= FailureLimit
  <1>1. r.count + 1 \in Nat
    BY DEF Record
  <1>2. CASE r.count + 1 >= FailureLimit
    <2>1. Lockout(r.count + 1) \in Nat
      BY <1>1, <1>2, LockoutType
    <2>2. now + Lockout(r.count + 1) \in Nat
      BY <2>1
    <2>3. Counted(r, now) = [count |-> r.count + 1, firstAt |-> r.firstAt,
                             blockedUntil |-> now + Lockout(r.count + 1)]
      BY <1>2 DEF Counted, Record
    <2> QED
      BY <1>1, <1>2, <2>2, <2>3 DEF Record
  <1>3. CASE ~(r.count + 1 >= FailureLimit)
    <2>1. Counted(r, now) = [count |-> r.count + 1, firstAt |-> r.firstAt, blockedUntil |-> 0]
      BY <1>3 DEF Counted, Record
    <2> QED
      BY <1>1, <2>1 DEF Record
  <1> QED
    BY <1>2, <1>3

-----------------------------------------------------------------------------
(* The steps. *)

\* Nobody has failed at first.
LEMMA InitThrottle ==
  ASSUME AuthInit
  PROVE  TInv
  <1>1. ThrottleType
    BY AuthenticatorAssumption DEF AuthInit, ThrottleType, Time, Record, NoLogin
  <1>2. \A c \in Client, o \in Object : ~Refers(c, o)
    BY AuthenticatorAssumption DEF AuthInit, Refers, NoLogin
  <1> QED
    BY <1>1, <1>2 DEF TInv, OneClient, AllEarned, Later, AuthInit, NoLogin

\* A step that writes no record and gives no client another one.
LEMMA NoNewRecord ==
  ASSUME TInv, ThrottleType', UNCHANGED <<heap, wrong>>,
         \A c \in Client, o \in Object : Refers(c, o)' => Refers(c, o),
         Later'
  PROVE  TInv'
  <1>1. OneClient'
    BY DEF TInv, OneClient
  <1>2. \A c \in Client, o \in Object : Earned(c, o) => Earned(c, o)'
    BY DEF Earned, Within
  <1>3. AllEarned'
    BY <1>2 DEF TInv, AllEarned
  <1> QED
    BY <1>1, <1>3 DEF TInv

\* A login refers to the record of its client.
LEMMA BeginKeeps ==
  ASSUME TInv, NEW l \in Login, NEW c \in Client, Begin(l, c)
  PROVE  TInv'
  <1> USE DEF TInv, ThrottleType
  <1>1. /\ login' = [login EXCEPT ![l] =
              [active |-> TRUE, client |-> c, now |-> clock, current |-> failures[c]]]
        /\ clock' = clock /\ failures' = failures /\ heap' = heap /\ wrong' = wrong
    BY DEF Begin, throttle
  <1>2. ThrottleType'
    BY <1>1 DEF Time
  <1>3. \A d \in Client, o \in Object : Refers(d, o)' => Refers(d, o)
    BY <1>1 DEF Refers
  <1>4. Later'
    <2>1. ASSUME NEW k \in Login, login'[k].active, login'[k].current \in Object
          PROVE  heap'[login'[k].current].firstAt <= login'[k].now
      <3>1. CASE k # l
        BY <1>1, <2>1, <3>1 DEF Later
      <3>2. CASE k = l
        <4>1. login'[k].current = failures[c] /\ login'[k].now = clock
          BY <1>1, <3>2
        <4> QED
          BY <1>1, <2>1, <4>1
      <3> QED
        BY <3>1, <3>2
    <2> QED
      BY <2>1 DEF Later
  <1> QED
    BY <1>1, <1>2, <1>3, <1>4, NoNewRecord

\* A login ends, or forgets failures: nothing refers to more than before.
LEMMA EndKeeps ==
  ASSUME TInv, NEW l \in Login, Throws(l) \/ Succeed(l)
  PROVE  TInv'
  <1> USE DEF TInv, ThrottleType
  <1>1. /\ login' = [login EXCEPT ![l] = NoLogin]
        /\ clock' = clock /\ heap' = heap /\ wrong' = wrong
    BY DEF Throws, Succeed, End, throttle
  <1>2. \A c \in Client : failures'[c] \in {failures[c], NoObject}
    BY DEF Throws, Succeed, Pruned, throttle
  <1>3. failures' \in [Client -> Object \cup {NoObject}]
    BY <1>2 DEF Throws, Succeed, Pruned, throttle
  <1>4. ThrottleType'
    BY <1>1, <1>3 DEF NoLogin
  <1>5. \A c \in Client, o \in Object : Refers(c, o)' => Refers(c, o)
    BY <1>1, <1>2, AuthenticatorAssumption DEF Refers, NoLogin
  <1>6. Later'
    BY <1>1 DEF Later, NoLogin
  <1> QED
    BY <1>1, <1>4, <1>5, <1>6, NoNewRecord

\* Steps that touch neither logins nor records.
LEMMA OthersKeep ==
  ASSUME TInv,
         \/ Tick \/ UNCHANGED authVars
         \/ \E c \in Client : Refuse(c)
         \/ \E n \in 1..opened : See(n) \/ Logout(n)
  PROVE  TInv'
  <1> USE DEF TInv, ThrottleType
  <1>1. /\ login' = login /\ failures' = failures /\ heap' = heap /\ wrong' = wrong
        /\ clock' \in Time /\ clock' >= clock
    BY AuthenticatorAssumption DEF Tick, authVars, throttle, Refuse, See, Logout, Time
  <1>2. ThrottleType'
    BY <1>1 DEF Time, Record
  <1>3. \A c \in Client, o \in Object : Refers(c, o)' => Refers(c, o)
    BY <1>1 DEF Refers
  <1>4. Later'
    BY <1>1 DEF Later
  <1> QED
    BY <1>1, <1>2, <1>3, <1>4, NoNewRecord

\* A failure is counted, and happened.
LEMMA FailKeeps ==
  ASSUME TInv, NEW l \in Login, Fail(l)
  PROVE  TInv'
  <1> USE DEF TInv, ThrottleType
  <1> DEFINE L == login[l]
             c == login[l].client
             keep == L.current # NoObject /\ Recent(heap[L.current], L.now)
             first == [count |-> 0, firstAt |-> L.now, blockedUntil |-> 0]
  <1>1. PICK o \in Object :
          /\ IF keep THEN o = L.current ELSE o \in Unused
          /\ heap' = [heap EXCEPT ![o] = Counted(IF keep THEN heap[o] ELSE first, L.now)]
          /\ failures' = [failures EXCEPT ![c] = o]
    BY DEF Fail
  <1>2. /\ login' = [login EXCEPT ![l] = NoLogin] /\ clock' = clock
        /\ wrong' = [wrong EXCEPT ![c] = Append(@, L.now)]
        /\ L.active /\ c \in Client /\ L.now \in Nat /\ L.now <= clock
    BY DEF Fail, End
  <1> DEFINE old == IF keep THEN heap[o] ELSE first
  <1>3. L.now \in Time
    BY <1>2, AuthenticatorAssumption DEF Time
  <1>4. old \in Record /\ old.firstAt \in Nat /\ old.firstAt <= L.now
        /\ L.now <= old.firstAt + FailureWindow
    <2>1. CASE keep
      <3>1. old = heap[o] /\ o = L.current /\ heap[o] \in Record
        BY <1>1, <2>1
      <3>2. heap[o].firstAt <= L.now
        BY <1>2, <3>1 DEF Later
      <3>3. L.now - heap[o].firstAt <= FailureWindow
        BY <2>1, <3>1 DEF Recent
      <3> QED
        BY <1>2, <3>1, <3>2, <3>3, AuthenticatorAssumption DEF Record, Time
    <2>2. CASE ~keep
      <3>1. old = first
        BY <2>2
      <3> QED
        BY <1>2, <1>3, <3>1, AuthenticatorAssumption DEF Record
    <2> QED
      BY <2>1, <2>2
  <1>5. /\ heap'[o] = Counted(old, L.now)
        /\ heap'[o] \in Record
        /\ heap'[o].count = old.count + 1
        /\ heap'[o].firstAt = old.firstAt
        /\ heap'[o].blockedUntil > 0 => heap'[o].count >= FailureLimit
    BY <1>1, <1>2, <1>4, CountedRecord
  <1>6. \A p \in Object : p # o => heap'[p] = heap[p]
    BY <1>1
  <1>7. ThrottleType'
    <2>1. heap' \in [Object -> Record]
      BY <1>1, <1>5, <1>6
    <2>2. \A p \in Object : heap'[p].firstAt <= clock
      BY <1>2, <1>4, <1>5, <1>6
    <2>3. failures' \in [Client -> Object \cup {NoObject}]
      BY <1>1
    <2>4. wrong' \in [Client -> Seq(Nat)]
      BY <1>2
    <2> QED
      BY <1>2, <2>1, <2>2, <2>3, <2>4 DEF NoLogin
  \* Who refers to a record afterwards did before, but for the new one.
  <1>8. \A d \in Client, p \in Object : Refers(d, p)' => Refers(d, p) \/ (d = c /\ p = o)
    BY <1>1, <1>2 DEF Refers, NoLogin
  <1>9. \A d \in Client : Refers(d, o) => keep /\ d = c
    <2>1. CASE keep
      BY <1>1, <1>2, <2>1 DEF OneClient, Refers
    <2>2. CASE ~keep
      BY <1>1, <2>2 DEF Refers, Unused
    <2> QED
      BY <2>1, <2>2
  <1>10. OneClient'
    BY <1>8, <1>9 DEF OneClient
  <1>11. Later'
    <2>1. ASSUME NEW k \in Login, login'[k].active, login'[k].current \in Object
          PROVE  heap'[login'[k].current].firstAt <= login'[k].now
      <3>1. k # l /\ login'[k] = login[k]
        BY <1>2, <2>1 DEF NoLogin
      <3>2. heap[login[k].current].firstAt <= login[k].now
        BY <2>1, <3>1 DEF Later
      <3>3. CASE login[k].current # o
        BY <1>6, <2>1, <3>1, <3>2, <3>3
      <3>4. CASE login[k].current = o
        <4>1. keep
          BY <1>9, <2>1, <3>1, <3>4 DEF Refers
        <4> QED
          BY <1>5, <3>1, <3>2, <3>4, <4>1
      <3> QED
        BY <3>3, <3>4
    <2> QED
      BY <2>1 DEF Later
  <1> HIDE DEF old
  <1>12. ASSUME NEW d \in Client, NEW p \in Object, Refers(d, p)'
         PROVE  Earned(d, p)'
    <2>1. CASE p = o
      <3>1. d = c
        BY <1>8, <1>9, <1>12, <2>1
      <3>2. old.count <= Cardinality(Within(wrong[c], old))
        <4>1. CASE keep
          <5>1. Refers(c, o)
            BY <1>1, <1>2, <4>1 DEF Refers
          <5>2. Earned(c, o)
            BY <1>2, <5>1 DEF AllEarned
          <5> QED
            BY <4>1, <5>2 DEF Earned, old
        <4>2. CASE ~keep
          <5>1. old.count = 0
            BY <4>2 DEF old
          <5>2. Cardinality(Within(wrong[c], old)) \in Nat
            BY <1>2, WithinFinite
          <5> QED
            BY <5>1, <5>2
        <4> QED
          BY <4>1, <4>2
      <3>3. wrong'[c] = Append(wrong[c], L.now) /\ wrong[c] \in Seq(Nat)
        BY <1>2
      <3>4. Cardinality(Within(wrong'[c], old)) = Cardinality(Within(wrong[c], old)) + 1
        BY <1>2, <1>4, <3>3, OneMoreWithin
      <3>5. Within(wrong'[c], heap'[o]) = Within(wrong'[c], old)
        BY <1>5 DEF Within
      <3>6. Cardinality(Within(wrong[c], old)) \in Nat
        BY <3>3, WithinFinite
      <3>7. old.count \in Nat
        BY <1>4 DEF Record
      <3>8. heap'[o].count <= Cardinality(Within(wrong'[c], heap'[o]))
        BY <1>5, <3>2, <3>4, <3>5, <3>6, <3>7
      <3> QED
        BY <1>5, <2>1, <3>1, <3>8 DEF Earned
    <2>2. CASE p # o
      <3>1. Refers(d, p) /\ heap'[p] = heap[p] /\ heap[p] \in Record
        BY <1>6, <1>8, <1>12, <2>2
      <3>2. Earned(d, p)
        BY <3>1 DEF AllEarned
      <3>3. Cardinality(Within(wrong[d], heap[p])) <= Cardinality(Within(wrong'[d], heap[p]))
            /\ Cardinality(Within(wrong[d], heap[p])) \in Nat
            /\ Cardinality(Within(wrong'[d], heap[p])) \in Nat
        <4>1. wrong[d] \in Seq(Nat) /\ wrong'[d] \in Seq(Nat)
          BY <1>7
        <4>2. Cardinality(Within(wrong[d], heap[p])) \in Nat
              /\ Cardinality(Within(wrong'[d], heap[p])) \in Nat
          BY <4>1, WithinFinite
        <4>3. CASE d # c
          <5>1. wrong'[d] = wrong[d]
            BY <1>2, <4>3
          <5> QED
            BY <4>2, <5>1
        <4>4. CASE d = c
          <5>1. wrong'[d] = Append(wrong[d], L.now)
            BY <1>2, <4>4
          <5>2. Cardinality(Within(wrong[d], heap[p])) <= Cardinality(Within(wrong'[d], heap[p]))
            BY <1>2, <3>1, <4>1, <5>1, OneMoreWithin
          <5> QED
            BY <4>2, <5>2
        <4> QED
          BY <4>3, <4>4
      <3>4. heap[p].count \in Nat
        BY <3>1 DEF Record
      <3>5. heap'[p].count <= Cardinality(Within(wrong'[d], heap'[p]))
        BY <3>1, <3>2, <3>3, <3>4 DEF Earned
      <3>6. heap'[p].blockedUntil > 0 => heap'[p].count >= FailureLimit
        BY <3>1, <3>2 DEF Earned
      <3> QED
        BY <3>5, <3>6 DEF Earned
    <2> QED
      BY <2>1, <2>2
  <1> QED
    BY <1>7, <1>10, <1>11, <1>12 DEF AllEarned

-----------------------------------------------------------------------------
(* The throttle. *)

\* Every step keeps the invariant of the throttle.
LEMMA NextThrottle ==
  ASSUME TInv, [AuthNext]_authVars
  PROVE  TInv'
  BY BeginKeeps, EndKeeps, OthersKeep, FailKeeps DEF AuthNext

\* Every record that a client or a pending login of it refers to is that client's
\* alone, and counts no failure that did not happen (managementAuth.ts:99-125).
THEOREM ThrottleInvariant == AuthSpec => []TInv
  <1>1. AuthInit => TInv
    BY InitThrottle
  <1>2. TInv /\ [AuthNext]_authVars => TInv'
    BY NextThrottle
  <1> QED
    BY <1>1, <1>2, PTL DEF AuthSpec

\* However logins overlap, a client is locked out only for as many failures as it
\* takes, begun within one window (managementAuth.ts:99-125).
THEOREM LockoutsAreEarned == AuthSpec => []LockoutEarned
  <1>1. TInv => LockoutEarned
    BY DEF TInv, ThrottleType, AllEarned, Earned, Refers, LockoutEarned
  <1> QED
    BY <1>1, ThrottleInvariant, PTL

-----------------------------------------------------------------------------
(* The sessions. *)

SessionsInv ==
  /\ opened \in Nat
  /\ DOMAIN sessions \subseteq 1..opened
  /\ \A n \in DOMAIN sessions : sessions[n] \in [created : Nat, seen : Nat]
  /\ Cardinality(DOMAIN sessions) <= MaxSessions

\* A nonempty set of numbers has a least one.
LEMMA Least ==
  ASSUME NEW T, T \subseteq Nat, T # {}
  PROVE  \E n \in T : \A m \in T : n <= m
  <1> DEFINE less == {p \in Nat \X Nat : p[1] < p[2]}
  <1>1. IsWellFoundedOn(less, Nat)
    BY NatLessThanWellFounded DEF OpToRel
  <1>2. PICK n \in T : \A m \in T : <<m, n>> \notin less
    <2> HIDE DEF less
    <2> QED
      BY <1>1, WFMin, Zenon
  <1>3. \A m \in T : ~(m < n)
    BY <1>2
  <1> QED
    BY <1>3

\* Who makes room: nobody, or the oldest of as many as there may be.
LEMMA RoomForOne ==
  ASSUME NEW S, S \subseteq Nat, IsFiniteSet(S), Cardinality(S) <= MaxSessions
  PROVE  /\ Room(S) \subseteq S
         /\ IsFiniteSet(Room(S)) /\ Cardinality(Room(S)) < MaxSessions
         /\ \A n \in S \ Room(S) : Cardinality(S) = MaxSessions /\ \A m \in S : n <= m
  <1>0. MaxSessions \in Nat \ {0}
    BY AuthenticatorAssumption
  <1>1. Room(S) \subseteq S
    BY DEF Room
  <1>2. IsFiniteSet(Room(S)) /\ Cardinality(Room(S)) \in Nat /\ Cardinality(S) \in Nat
    BY <1>1, FS_Subset, FS_CardinalityType
  <1>3. ASSUME NEW n \in S
        PROVE  /\ Newer(S, n) \cup {n} \subseteq S /\ IsFiniteSet(Newer(S, n) \cup {n})
               /\ Cardinality(Newer(S, n)) \in Nat
               /\ Cardinality(Newer(S, n) \cup {n}) = Cardinality(Newer(S, n)) + 1
    <2>1. Newer(S, n) \subseteq S /\ n \notin Newer(S, n)
      BY DEF Newer
    <2>2. IsFiniteSet(Newer(S, n)) /\ Cardinality(Newer(S, n)) \in Nat
      BY <2>1, FS_Subset, FS_CardinalityType
    <2> QED
      BY <2>1, <2>2, FS_AddElement
  <1>4. Cardinality(Room(S)) < MaxSessions
    <2>1. CASE Room(S) = {}
      BY <1>0, <2>1, FS_EmptySet
    <2>2. CASE Room(S) # {}
      <3>1. PICK n \in Room(S) : \A m \in Room(S) : n <= m
        BY <1>1, <2>2, Least
      <3>2. n \in S /\ Cardinality(Newer(S, n)) < MaxSessions - 1
        BY DEF Room
      <3>3. Room(S) \subseteq Newer(S, n) \cup {n}
        <4>1. \A m \in Room(S) : m \in S /\ m \in Nat /\ n \in Nat /\ n <= m
          BY <1>1, <3>1, <3>2
        <4>2. \A m \in Room(S) : m = n \/ m > n
          BY <4>1
        <4> QED
          BY <4>1, <4>2 DEF Newer
      <3>4. /\ IsFiniteSet(Newer(S, n) \cup {n}) /\ Cardinality(Newer(S, n)) \in Nat
            /\ Cardinality(Newer(S, n) \cup {n}) = Cardinality(Newer(S, n)) + 1
        BY <1>3, <3>2
      <3>5. Cardinality(Room(S)) <= Cardinality(Newer(S, n) \cup {n})
        BY <3>3, <3>4, FS_Subset
      <3> QED
        BY <1>0, <1>2, <3>2, <3>4, <3>5
    <2> QED
      BY <2>1, <2>2
  <1>5. ASSUME NEW n \in S, n \notin Room(S)
        PROVE  Cardinality(S) = MaxSessions /\ \A m \in S : n <= m
    <2>0. /\ Newer(S, n) \cup {n} \subseteq S
          /\ Cardinality(Newer(S, n)) \in Nat
          /\ Cardinality(Newer(S, n) \cup {n}) = Cardinality(Newer(S, n)) + 1
      BY <1>3
    <2>1. ~(Cardinality(Newer(S, n)) < MaxSessions - 1)
      BY <1>5 DEF Room
    <2>2. Cardinality(Newer(S, n) \cup {n}) <= Cardinality(S)
      BY <2>0, FS_Subset
    <2>3. Cardinality(Newer(S, n) \cup {n}) = Cardinality(S) /\ Cardinality(S) = MaxSessions
      BY <1>0, <1>2, <2>0, <2>1, <2>2
    <2>4. Newer(S, n) \cup {n} = S
      BY <2>0, <2>3, FS_Subset
    <2>5. n \in Nat
      OBVIOUS
    <2>6. \A m \in Newer(S, n) : m \in Nat /\ m > n
      BY DEF Newer
    <2> QED
      BY <2>3, <2>4, <2>5, <2>6
  <1> QED
    BY <1>1, <1>2, <1>4, <1>5

\* The sessions a login finds alive are all of them, if there are too many.
LEMMA SucceedIsRight ==
  ASSUME TInv, SessionsInv, NEW l \in Login, Succeed(l)
  PROVE  /\ SessionsInv'
         /\ \A n \in DOMAIN sessions \ DOMAIN sessions' :
              \/ Expired(sessions[n], clock)
              \/ /\ Cardinality(DOMAIN sessions) = MaxSessions
                 /\ \A m \in DOMAIN sessions : n <= m /\ ~Expired(sessions[m], login[l].now)
  <1> DEFINE now == login[l].now
             A == Alive(now)
             new == [created |-> now, seen |-> now]
  <1>0. now \in Nat /\ now <= clock /\ clock \in Nat
    BY AuthenticatorAssumption DEF TInv, ThrottleType, Succeed, Time
  <1>1. IsFiniteSet(DOMAIN sessions) /\ DOMAIN sessions \subseteq Nat
    <2>1. IsFiniteSet(1..opened)
      <3>1. 1 \in Int /\ opened \in Int
        BY DEF SessionsInv
      <3> QED
        BY <3>1, FS_Interval
    <2> QED
      BY <2>1, FS_Subset DEF SessionsInv
  <1>2. A \subseteq DOMAIN sessions
    BY DEF Alive
  <1>3. IsFiniteSet(A) /\ A \subseteq Nat /\ Cardinality(A) <= Cardinality(DOMAIN sessions)
        /\ Cardinality(A) \in Nat /\ Cardinality(DOMAIN sessions) \in Nat
    BY <1>1, <1>2, FS_Subset, FS_CardinalityType
  <1>4. MaxSessions \in Nat /\ Cardinality(DOMAIN sessions) <= MaxSessions
    BY AuthenticatorAssumption DEF SessionsInv
  <1>5. Cardinality(A) <= MaxSessions
    BY <1>3, <1>4
  <1>6. /\ Room(A) \subseteq A
        /\ IsFiniteSet(Room(A)) /\ Cardinality(Room(A)) < MaxSessions
        /\ \A n \in A \ Room(A) : Cardinality(A) = MaxSessions /\ \A m \in A : n <= m
    BY <1>3, <1>5, RoomForOne
  <1>7. /\ opened' = opened + 1
        /\ DOMAIN sessions' = Room(A) \cup {opened + 1}
        /\ \A n \in DOMAIN sessions' : sessions'[n] = IF n = opened + 1 THEN new ELSE sessions[n]
    BY DEF Succeed, Opened
  <1> HIDE DEF A
  <1>8. opened + 1 \notin Room(A)
    BY <1>2, <1>6 DEF SessionsInv
  <1>9. Cardinality(DOMAIN sessions') <= MaxSessions
    <2>1. Cardinality(Room(A) \cup {opened + 1}) = Cardinality(Room(A)) + 1
          /\ Cardinality(Room(A)) \in Nat
      BY <1>6, <1>8, FS_AddElement, FS_CardinalityType
    <2> QED
      BY <1>4, <1>6, <1>7, <2>1
  <1>10. SessionsInv'
    <2>1. opened' \in Nat /\ DOMAIN sessions' \subseteq 1..opened'
      BY <1>2, <1>6, <1>7 DEF SessionsInv
    <2>2. \A n \in DOMAIN sessions' : sessions'[n] \in [created : Nat, seen : Nat]
      BY <1>0, <1>2, <1>6, <1>7 DEF SessionsInv
    <2> QED
      BY <1>9, <2>1, <2>2 DEF SessionsInv
  <1>11. ASSUME NEW n \in DOMAIN sessions, n \notin DOMAIN sessions', ~Expired(sessions[n], clock)
         PROVE  /\ Cardinality(DOMAIN sessions) = MaxSessions
                /\ \A m \in DOMAIN sessions : n <= m /\ ~Expired(sessions[m], now)
    <2>1. ~Expired(sessions[n], now)
      BY <1>0, <1>11, AuthenticatorAssumption DEF Expired, SessionsInv
    <2>2. n \in A \ Room(A)
      BY <1>7, <1>11, <2>1 DEF A, Alive
    <2>3. Cardinality(A) = MaxSessions /\ \A m \in A : n <= m
      BY <1>6, <2>2
    <2>4. Cardinality(A) = Cardinality(DOMAIN sessions)
      BY <1>3, <1>4, <2>3
    <2>5. A = DOMAIN sessions
      BY <1>1, <1>2, <2>4, FS_Subset
    <2>6. \A m \in A : ~Expired(sessions[m], now)
      BY DEF A, Alive
    <2> QED
      BY <2>3, <2>4, <2>5, <2>6
  <1> QED
    BY <1>10, <1>11

\* Every other step leaves the sessions, but for one that has expired, is logged
\* out, or is seen.
LEMMA OthersAreRight ==
  ASSUME TInv, SessionsInv, [AuthNext]_authVars, \A l \in Login : ~Succeed(l)
  PROVE  /\ SessionsInv'
         /\ \A n \in DOMAIN sessions \ DOMAIN sessions' :
              Logout(n) \/ Expired(sessions[n], clock)
  <1>0. clock \in Nat
    BY AuthenticatorAssumption DEF TInv, ThrottleType, Time
  <1>1. CASE UNCHANGED <<sessions, opened>>
    BY <1>1 DEF SessionsInv
  <1>2. ASSUME NEW n \in 1..opened, UNCHANGED opened, sessions' = Without(n),
               Logout(n) \/ Expired(sessions[n], clock)
        PROVE  /\ SessionsInv'
               /\ \A m \in DOMAIN sessions \ DOMAIN sessions' :
                    Logout(m) \/ Expired(sessions[m], clock)
    <2>1. /\ DOMAIN sessions' = DOMAIN sessions \ {n}
          /\ \A m \in DOMAIN sessions' : sessions'[m] = sessions[m]
      BY <1>2 DEF Without, Restrict
    <2>2. IsFiniteSet(1..opened)
      <3>1. 1 \in Int /\ opened \in Int
        BY DEF SessionsInv
      <3> QED
        BY <3>1, FS_Interval
    <2>3. IsFiniteSet(DOMAIN sessions) /\ Cardinality(DOMAIN sessions) \in Nat
      BY <2>2, FS_Subset, FS_CardinalityType DEF SessionsInv
    <2>4. /\ Cardinality(DOMAIN sessions') <= Cardinality(DOMAIN sessions)
          /\ Cardinality(DOMAIN sessions') \in Nat
      BY <2>1, <2>3, FS_Subset, FS_CardinalityType
    <2>5. Cardinality(DOMAIN sessions') <= MaxSessions
      BY <2>3, <2>4, AuthenticatorAssumption DEF SessionsInv
    <2>6. SessionsInv'
      BY <1>2, <2>1, <2>5 DEF SessionsInv
    <2> QED
      BY <1>2, <2>1, <2>6
  <1>3. ASSUME NEW n \in 1..opened, See(n)
        PROVE  /\ SessionsInv'
               /\ \A m \in DOMAIN sessions \ DOMAIN sessions' :
                    Logout(m) \/ Expired(sessions[m], clock)
    <2>1. CASE Expired(sessions[n], clock)
      BY <1>2, <1>3, <2>1 DEF See
    <2>2. CASE ~Expired(sessions[n], clock)
      <3>1. /\ n \in DOMAIN sessions /\ UNCHANGED opened
            /\ sessions' = [sessions EXCEPT ![n].seen = clock]
        BY <1>3, <2>2 DEF See
      <3>2. /\ DOMAIN sessions' = DOMAIN sessions
            /\ \A m \in DOMAIN sessions : m # n => sessions'[m] = sessions[m]
            /\ sessions'[n] = [sessions[n] EXCEPT !.seen = clock]
        BY <3>1
      <3>3. sessions'[n] \in [created : Nat, seen : Nat]
        BY <1>0, <3>1, <3>2 DEF SessionsInv
      <3> QED
        BY <3>1, <3>2, <3>3 DEF SessionsInv
    <2> QED
      BY <2>1, <2>2
  <1>4. ASSUME NEW n \in 1..opened, Logout(n)
        PROVE  /\ SessionsInv'
               /\ \A m \in DOMAIN sessions \ DOMAIN sessions' :
                    Logout(m) \/ Expired(sessions[m], clock)
    BY <1>2, <1>4 DEF Logout
  <1>5. CASE \/ Tick \/ UNCHANGED authVars \/ \E c \in Client : Refuse(c)
             \/ \E l \in Login : (\E c \in Client : Begin(l, c)) \/ Throws(l) \/ Fail(l)
    BY <1>1, <1>5 DEF Tick, authVars, Refuse, Begin, Throws, Fail
  <1> QED
    BY <1>3, <1>4, <1>5 DEF AuthNext

\* No session ends before its time, and there are never too many, although logins
\* make room and prune as of the time they began (managementAuth.ts:127-133,
\* 151-155, 188-193).
THEOREM SessionsAreEndedRightly == AuthSpec => SessionsEndRightly
  <1>1. AuthInit => SessionsInv
    BY FS_EmptySet, AuthenticatorAssumption DEF AuthInit, SessionsInv
  <1>2. TInv /\ SessionsInv /\ [AuthNext]_authVars =>
          /\ SessionsInv'
          /\ [/\ Cardinality(DOMAIN sessions') <= MaxSessions
              /\ \A n \in DOMAIN sessions \ DOMAIN sessions' : EndedRightly(n)]_authVars
    <2> SUFFICES ASSUME TInv, SessionsInv, [AuthNext]_authVars
                 PROVE  /\ SessionsInv'
                        /\ \A n \in DOMAIN sessions \ DOMAIN sessions' : EndedRightly(n)
      BY DEF SessionsInv
    <2>1. CASE \E l \in Login : Succeed(l)
      BY <2>1, SucceedIsRight DEF EndedRightly
    <2>2. CASE \A l \in Login : ~Succeed(l)
      BY <2>2, OthersAreRight DEF EndedRightly
    <2> QED
      BY <2>1, <2>2
  <1> QED
    BY <1>1, <1>2, ThrottleInvariant, PTL DEF AuthSpec, SessionsEndRightly
=============================================================================
