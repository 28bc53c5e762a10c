--------------------------- MODULE ProviderManager ---------------------------
(***************************************************************************)
(* Managed providers: class ProviderManager of                             *)
(* typr-server/providerManager.ts, opened with a data root.                *)
(*                                                                         *)
(* An installation job fetches and unpacks an archive aside, removes the   *)
(* installed version, renames the new one into its place, records it and,  *)
(* for a TeX distribution, activates it.  Every change of the record takes *)
(* a snapshot, which one chain of promises writes to providers.json; when  *)
(* its write is done the caller puts the state of that moment in the       *)
(* environment, from which compilers and tlmgr are chosen.  A write that   *)
(* fails rejects the chain until the process restarts.  The staging        *)
(* directory of a job has a name of its own and is left out.               *)
(***************************************************************************)
EXTENDS Naturals, Sequences

CONSTANTS
  Provider,   \* the curated providers for this platform
  Tex,        \* those that are TeX distributions
  System,     \* system-tex, which needs no installation
  NoJob,
  QueueBound, FailBound, CrashBound  \* bounds on waiting, failed writes, restarts

ASSUME ProviderAssumption ==
  /\ Tex \subseteq Provider /\ System \notin Provider /\ NoJob \notin Provider
  /\ QueueBound \in Nat /\ FailBound \in Nat /\ CrashBound \in Nat

\* activeTexProvider is System when it is not set.
ProviderState == [installed : SUBSET Provider, active : Tex \cup {System}]

\* A snapshot to be written, and the job that awaits it; an activation is none.
Entry == [state : ProviderState, job : Provider \cup {NoJob}]

VARIABLES
  mem,       \* ProviderManager.state
  disk,      \* providers.json
  env,       \* the state that applyEnvironment() saw last
  place,     \* what is at the install root of each provider
  job,       \* what the unfinished job of each provider awaits
  queue,     \* writeQueue
  poisoned,  \* writeQueue is a rejected promise
  damaged,   \* history: providers whose reinstallation failed half way
  failures, crashes

vars == <<mem, disk, env, place, job, queue, poisoned, damaged, failures, crashes>>
files == <<place, damaged>>
record == <<mem, disk, env, queue, poisoned>>
count == <<failures, crashes>>

Init ==
  /\ mem = [installed |-> {}, active |-> System] /\ disk = mem /\ env = mem
  /\ place = [p \in Provider |-> "absent"]
  /\ job = [p \in Provider |-> "none"]
  /\ queue = <<>> /\ poisoned = FALSE
  /\ damaged = {} /\ failures = 0 /\ crashes = 0

-----------------------------------------------------------------------------
(* The record and its file. *)

\* The snapshot persist() takes is the state after the change.
Serialized == mem'

\* persist() for job p: its caller awaits the write, or is rejected at once.
Persist(p) ==
  IF poisoned
  THEN /\ UNCHANGED queue
       /\ job' = IF p = NoJob THEN job ELSE [job EXCEPT ![p] = "none"]
  ELSE /\ queue' = Append(queue, [state |-> Serialized, job |-> p])
       /\ job' = IF p = NoJob THEN job ELSE [job EXCEPT ![p] = "persist"]

\* activateTexProvider(p), of system-tex or of an installed distribution.
Activate(p) ==
  /\ p \in (mem.installed \cap Tex) \cup {System}
  /\ Len(queue) < QueueBound
  /\ mem' = [mem EXCEPT !.active = p]
  /\ Persist(NoJob)
  /\ UNCHANGED <<disk, env, poisoned, files, count>>

\* applyEnvironment(): the state when the write is done.
Applied == mem

\* Mutant of Write: the environment is not applied to an activation.
WriteForJobs ==
  /\ queue # <<>>
  /\ disk' = Head(queue).state /\ queue' = Tail(queue)
  /\ env' = IF Head(queue).job = NoJob THEN env ELSE Applied
  /\ job' = [p \in Provider |-> IF p = Head(queue).job THEN "changed" ELSE job[p]]
  /\ UNCHANGED <<mem, poisoned, files, count>>

\* The first write of the chain is done, and its caller goes on.
Write ==
  /\ queue # <<>>
  /\ disk' = Head(queue).state /\ queue' = Tail(queue)
  /\ env' = Applied
  /\ job' = [p \in Provider |-> IF p = Head(queue).job THEN "changed" ELSE job[p]]
  /\ UNCHANGED <<mem, poisoned, files, count>>

\* Mutant of WriteFails: the jobs behind the failed write are forgotten.
WriteFailsAlone ==
  /\ queue # <<>> /\ failures < FailBound
  /\ queue' = <<>> /\ poisoned' = TRUE
  /\ job' = [p \in Provider |-> IF Head(queue).job = p THEN "none" ELSE job[p]]
  /\ failures' = failures + 1
  /\ UNCHANGED <<mem, disk, env, files, crashes>>

\* It fails: so does everything behind it, and every job that waits.
WriteFails ==
  /\ queue # <<>> /\ failures < FailBound
  /\ queue' = <<>> /\ poisoned' = TRUE
  /\ job' = [p \in Provider |-> IF job[p] = "persist" THEN "none" ELSE job[p]]
  /\ failures' = failures + 1
  /\ UNCHANGED <<mem, disk, env, files, crashes>>

-----------------------------------------------------------------------------
(* Installation jobs. *)

\* startInstall(p): one unfinished job of a provider at a time.
Start(p) ==
  /\ job[p] = "none"
  /\ job' = [job EXCEPT ![p] = "download"]
  /\ UNCHANGED <<record, files, count>>

\* The archive cannot be fetched, or is not the one that was pinned.
DownloadFails(p) ==
  /\ job[p] = "download"
  /\ job' = [job EXCEPT ![p] = "none"]
  /\ UNCHANGED <<record, files, count>>

Downloaded(p) ==
  /\ job[p] = "download"
  /\ job' = [job EXCEPT ![p] = "unpack"]
  /\ UNCHANGED <<record, files, count>>

\* The archive cannot be unpacked, or lacks an executable.
UnpackFails(p) ==
  /\ job[p] = "unpack"
  /\ job' = [job EXCEPT ![p] = "none"]
  /\ UNCHANGED <<record, files, count>>

\* The new version is ready in the staging directory: rm of the old one begins.
Unpacked(p) ==
  /\ job[p] = "unpack"
  /\ job' = [job EXCEPT ![p] = "clear"]
  /\ UNCHANGED <<record, files, count>>

Clearing(p) ==
  /\ job[p] = "clear" /\ place[p] = "whole"
  /\ place' = [place EXCEPT ![p] = "partial"]
  /\ UNCHANGED <<record, job, damaged, count>>

Cleared(p) ==
  /\ job[p] = "clear"
  /\ place' = [place EXCEPT ![p] = "absent"]
  /\ job' = [job EXCEPT ![p] = "move"]
  /\ UNCHANGED <<record, damaged, count>>

\* rm or rename rejects: the job fails with what is left.
MoveFails(p) ==
  /\ job[p] \in {"clear", "move"}
  /\ job' = [job EXCEPT ![p] = "none"]
  /\ damaged' = IF place[p] = "whole" THEN damaged ELSE damaged \cup {p}
  /\ UNCHANGED <<record, place, count>>

\* rename is done: the record is changed and persisted.
Moved(p) ==
  /\ job[p] = "move"
  /\ place' = [place EXCEPT ![p] = "whole"] /\ damaged' = damaged \ {p}
  /\ mem' = [installed |-> mem.installed \cup {p},
             active |-> IF p \in Tex THEN p ELSE mem.active]
  /\ Persist(p)
  /\ UNCHANGED <<disk, env, poisoned, count>>

\* onChanged() resolves or rejects: the job is over.
Over(p) ==
  /\ job[p] = "changed"
  /\ job' = [job EXCEPT ![p] = "none"]
  /\ UNCHANGED <<record, files, count>>

-----------------------------------------------------------------------------
(* Restarts. *)

\* Mutant: every record of the file is kept.
SurvivesAnyway(p) == TRUE

\* removeMissingInstallations() keeps a record if its first executable is there:
\* of a version that was partly removed it may be.
Survives(p) == place[p] # "absent"

\* Mutant: the active provider is kept though its record is not.
OpenedActive(file, kept) == [installed |-> kept, active |-> file.active]

\* open(): the state in the file, without the records that are not kept.
Opened(file, kept) ==
  [installed |-> kept,
   active |-> IF kept = file.installed \/ file.active \in kept THEN file.active ELSE System]

\* The process ends, before or after the rename of the write under way, and is
\* started again.
Restart(file) ==
  /\ crashes < CrashBound /\ crashes' = crashes + 1
  /\ file = disk \/ (queue # <<>> /\ file = Head(queue).state)
  /\ \E kept \in SUBSET {p \in file.installed : Survives(p)} :
       /\ \A p \in file.installed : place[p] = "whole" => p \in kept
       /\ mem' = Opened(file, kept)
  /\ disk' = mem' /\ env' = mem'
  /\ job' = [p \in Provider |-> "none"]
  /\ queue' = <<>> /\ poisoned' = FALSE /\ damaged' = {}
  /\ UNCHANGED <<place, failures>>

Await(p) ==
  \/ DownloadFails(p) \/ Downloaded(p) \/ UnpackFails(p) \/ Unpacked(p)
  \/ Clearing(p) \/ Cleared(p) \/ MoveFails(p) \/ Moved(p)
  \/ Over(p)

Next ==
  \/ \E p \in Provider : Start(p) \/ Await(p)
  \/ \E p \in Tex \cup {System} : Activate(p)
  \/ Write \/ WriteFails
  \/ \E file \in {disk} \cup {queue[i].state : i \in 1..Len(queue)} : Restart(file)

Spec == Init /\ [][Next]_vars

\* Downloads, extractors and file operations end, well or not.
FairSpec == Spec /\ WF_vars(Write) /\ \A p \in Provider : WF_vars(Await(p))

-----------------------------------------------------------------------------
(* Properties. *)

Awaited == {"none", "download", "unpack", "clear", "move", "persist", "changed"}

TypeOK ==
  /\ mem \in ProviderState /\ disk \in ProviderState /\ env \in ProviderState
  /\ place \in [Provider -> {"absent", "partial", "whole"}]
  /\ job \in [Provider -> Awaited]
  /\ queue \in Seq(Entry) /\ poisoned \in BOOLEAN /\ damaged \subseteq Provider
  /\ failures \in 0..FailBound /\ crashes \in 0..CrashBound

\* With no write under way and none failed, the console, the file and the
\* environment agree, however activations and installations overlapped: each
\* applies the state it finds when its own write is done.
Agree == queue = <<>> /\ ~poisoned => disk = mem /\ env = mem

\* Wherever a TeX distribution is active, in memory, in the file or in the
\* environment, its record is there, over restarts that drop records.
ActiveIsInstalled ==
  \A s \in {mem, disk, env} \cup {queue[i].state : i \in 1..Len(queue)} :
    s.active \in s.installed \cup {System}

\* An installed provider is at its place, but for one that is being reinstalled,
\* whose reinstallation failed since the start, or that a crash left half
\* removed: a record is made after the rename (runInstall) and a missing
\* installation is dropped at the start (removeMissingInstallations).
InstalledIsThere ==
  \A p \in mem.installed :
    place[p] = "absent" => job[p] \in {"clear", "move"} \/ p \in damaged

\* What the stages and the chain of writes maintain: the last snapshot is the
\* state, and each job that awaits a write has one snapshot in the chain.
Chained ==
  /\ queue # <<>> => queue[Len(queue)].state = mem
  /\ \A p \in Provider : job[p] = "persist" <=> \E i \in 1..Len(queue) : queue[i].job = p
  /\ \A i, j \in 1..Len(queue) : queue[i].job = queue[j].job => i = j \/ queue[i].job = NoJob
  /\ poisoned => queue = <<>>

\* The inductive invariant.
IInv == TypeOK /\ Agree /\ ActiveIsInstalled /\ InstalledIsThere /\ Chained

\* An installation ends, whatever fails: it could not be started again otherwise
\* (startInstall refuses while an unfinished job of the provider is there).
EveryJobEnds == \A p \in Provider : job[p] # "none" ~> job[p] = "none"
==============================================================================
