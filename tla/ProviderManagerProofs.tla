------------------------ MODULE ProviderManagerProofs ------------------------
(***************************************************************************)
(* Proofs about ProviderManager, for any providers and bounds.  Agree is   *)
(* not inductive: that the state is the last snapshot of the chain, and    *)
(* that each waiting job has exactly one snapshot in it (Chained), is what *)
(* makes the last write bring memory, file and environment together.       *)
(***************************************************************************)
EXTENDS ProviderManager, TLAPS

-----------------------------------------------------------------------------
(* The record and the chain of writes. *)

\* A state in which the active distribution is an installed one.
Sane(s) == s \in ProviderState /\ s.active \in s.installed \cup {System}

\* What IInv says of the states that are kept somewhere.
LEMMA Kept ==
  ASSUME IInv
  PROVE  /\ Sane(mem) /\ Sane(disk) /\ Sane(env)
         /\ queue \in Seq(Entry) /\ Len(queue) \in Nat
         /\ \A i \in 1..Len(queue) :
              Sane(queue[i].state) /\ queue[i].job \in Provider \cup {NoJob}
  <1>1. mem \in ProviderState /\ disk \in ProviderState /\ env \in ProviderState
        /\ queue \in Seq(Entry)
    BY DEF IInv, TypeOK
  <1>2. Len(queue) \in Nat /\ \A i \in 1..Len(queue) : queue[i] \in Entry
    BY <1>1
  <1>3. \A i \in 1..Len(queue) :
          queue[i].state \in ProviderState /\ queue[i].job \in Provider \cup {NoJob}
    BY <1>2 DEF Entry
  <1> QED
    BY <1>1, <1>2, <1>3 DEF IInv, ActiveIsInstalled, Sane

\* The head of a chain that is not empty, and the rest.
LEMMA Ends ==
  ASSUME IInv, queue # <<>>
  PROVE  /\ 1 \in 1..Len(queue) /\ Head(queue) = queue[1]
         /\ Tail(queue) \in Seq(Entry) /\ Len(Tail(queue)) = Len(queue) - 1
         /\ \A i \in 1..Len(Tail(queue)) : i + 1 \in 1..Len(queue) /\ Tail(queue)[i] = queue[i + 1]
  <1>1. queue \in Seq(Entry)
    BY DEF IInv, TypeOK
  <1> QED
    BY <1>1

\* persist() of a changed state, by an activation or a job that has renamed its
\* provider into place, keeps what is said of the chain.
LEMMA PersistStep ==
  ASSUME IInv, NEW p \in Provider \cup {NoJob}, p # NoJob => job[p] = "move",
         Sane(mem'), UNCHANGED <<disk, env, poisoned>>, Persist(p)
  PROVE  /\ queue' \in Seq(Entry) /\ job' \in [Provider -> Awaited]
         /\ \A q \in Provider : q # p => job'[q] = job[q]
         /\ p # NoJob => job'[p] \in {"none", "persist"}
         /\ Agree' /\ ActiveIsInstalled' /\ Chained'
  <1> DEFINE e == [state |-> mem', job |-> p]
             n == Len(queue)
  <1> USE Kept
  <1>0. NoJob \notin Provider
    BY ProviderAssumption DEF ProviderAssumption
  <1>1. job \in [Provider -> Awaited]
    BY DEF IInv, TypeOK
  <1>2. Chained
    BY DEF IInv
  <1>3. CASE poisoned
    <2>1. queue' = queue /\ queue = <<>>
      BY <1>2, <1>3 DEF Persist, Chained
    <2>2. job' = IF p = NoJob THEN job ELSE [job EXCEPT ![p] = "none"]
      BY <1>3 DEF Persist
    <2>3. \A q \in Provider : job'[q] # "persist"
      BY <1>1, <1>2, <2>1, <2>2 DEF Chained
    <2>4. Chained'
      BY <2>1, <2>3 DEF Chained
    <2>5. Agree'
      BY <1>3 DEF Agree
    <2>6. ActiveIsInstalled'
      BY <2>1 DEF ActiveIsInstalled, Sane
    <2>7. job' \in [Provider -> Awaited] /\ p # NoJob => job'[p] = "none"
      BY <1>1, <2>2 DEF Awaited
    <2>8. \A q \in Provider : q # p => job'[q] = job[q]
      BY <1>1, <2>2
    <2> QED
      BY <1>1, <2>1, <2>2, <2>4, <2>5, <2>6, <2>7, <2>8 DEF Awaited
  <1>4. CASE ~poisoned
    <2>1. queue' = Append(queue, e)
          /\ job' = IF p = NoJob THEN job ELSE [job EXCEPT ![p] = "persist"]
      BY <1>4 DEF Persist, Serialized
    <2>2. e \in Entry
      BY DEF Entry, Sane
    <2>3. /\ queue' \in Seq(Entry) /\ Len(queue') = n + 1 /\ queue'[n + 1] = e
          /\ \A i \in 1..n : queue'[i] = queue[i]
      BY <2>1, <2>2
    <2>4. /\ job' \in [Provider -> Awaited]
          /\ \A q \in Provider : q # p => job'[q] = job[q]
          /\ p # NoJob => job'[p] = "persist"
      BY <1>1, <2>1 DEF Awaited
    <2>5. p # NoJob => \A i \in 1..n : queue[i].job # p
      BY <1>2 DEF Chained
    <2>6. Chained'
      <3>1. queue'[Len(queue')].state = mem'
        BY <2>3
      <3>2. ASSUME NEW q \in Provider
            PROVE  job'[q] = "persist" <=> \E i \in 1..Len(queue') : queue'[i].job = q
        <4>1. CASE q = p
          BY <1>0, <2>3, <2>4, <4>1
        <4>2. CASE q # p
          <5>1. job[q] = "persist" <=> \E i \in 1..n : queue[i].job = q
            BY <1>2 DEF Chained
          <5>2. (\E i \in 1..Len(queue') : queue'[i].job = q) <=> \E i \in 1..n : queue[i].job = q
            BY <2>3, <4>2
          <5> QED
            BY <2>4, <4>2, <5>1, <5>2
        <4> QED
          BY <4>1, <4>2
      <3>3. ASSUME NEW i \in 1..Len(queue'), NEW j \in 1..Len(queue'),
                   queue'[i].job = queue'[j].job, queue'[i].job # NoJob
            PROVE  i = j
        <4>1. CASE i \in 1..n /\ j \in 1..n
          BY <1>2, <2>3, <3>3, <4>1 DEF Chained
        <4>2. CASE i = n + 1 /\ j \in 1..n
          BY <2>3, <2>5, <3>3, <4>2
        <4>3. CASE j = n + 1 /\ i \in 1..n
          BY <2>3, <2>5, <3>3, <4>3
        <4> QED
          BY <2>3, <4>1, <4>2, <4>3
      <3> QED
        BY <1>4, <3>1, <3>2, <3>3 DEF Chained
    <2>7. Agree'
      BY <2>3 DEF Agree
    <2>8. ActiveIsInstalled'
      <3> SUFFICES ASSUME NEW i \in 1..Len(queue')
                   PROVE  queue'[i].state.active \in queue'[i].state.installed \cup {System}
        BY DEF ActiveIsInstalled, Sane
      <3>1. CASE i \in 1..n
        BY <2>3, <3>1 DEF Sane
      <3>2. CASE i = n + 1
        BY <2>3, <3>2 DEF Sane
      <3> QED
        BY <2>3, <3>1, <3>2
    <2> QED
      BY <2>3, <2>4, <2>6, <2>7, <2>8
  <1> QED
    BY <1>3, <1>4

\* The write of the first snapshot.
LEMMA WriteStep ==
  ASSUME IInv, Write
  PROVE  IInv'
  <1> DEFINE n == Len(queue)
             h == queue[1]
  <1> USE Kept
  <1>1. /\ queue # <<>> /\ 1 \in 1..n /\ Head(queue) = h
        /\ Sane(h.state) /\ h.job \in Provider \cup {NoJob}
    BY Ends DEF Write
  <1>2. /\ disk' = h.state /\ env' = mem /\ mem' = mem
        /\ job' = [q \in Provider |-> IF q = h.job THEN "changed" ELSE job[q]]
        /\ UNCHANGED <<poisoned, files, count>>
    BY <1>1 DEF Write, Applied
  <1>3. /\ queue' \in Seq(Entry) /\ Len(queue') = n - 1
        /\ \A i \in 1..Len(queue') : i + 1 \in 1..n /\ queue'[i] = queue[i + 1]
    BY <1>1, Ends DEF Write
  <1>4. Chained /\ job \in [Provider -> Awaited]
    BY DEF IInv, TypeOK
  <1>5. TypeOK'
    BY <1>1, <1>2, <1>3, <1>4 DEF IInv, TypeOK, Sane, Awaited, files, count
  <1>6. Agree'
    <2> SUFFICES ASSUME queue' = <<>> PROVE disk' = mem'
      BY <1>2 DEF Agree
    <2>1. n = 1
      BY <1>3
    <2> QED
      BY <1>1, <1>2, <1>4, <2>1 DEF Chained
  <1>7. ActiveIsInstalled'
    <2>1. \A i \in 1..Len(queue') : Sane(queue'[i].state)
      BY <1>3
    <2> QED
      BY <1>1, <1>2, <2>1 DEF ActiveIsInstalled, Sane
  <1>8. InstalledIsThere'
    <2> SUFFICES ASSUME NEW q \in mem'.installed, place'[q] = "absent"
                 PROVE  job'[q] \in {"clear", "move"} \/ q \in damaged'
      BY DEF InstalledIsThere
    <2>1. q \in Provider
      BY <1>2 DEF Sane, ProviderState
    <2>2. job[q] \in {"clear", "move"} \/ q \in damaged
      BY <1>2 DEF IInv, InstalledIsThere, files
    <2>3. q = h.job => job[q] = "persist"
      BY <1>1, <1>4, <2>1 DEF Chained
    <2> QED
      BY <1>2, <2>1, <2>2, <2>3 DEF files
  <1>9. Chained'
    <2>1. queue' # <<>> => queue'[Len(queue')].state = mem'
      <3> SUFFICES ASSUME queue' # <<>> PROVE queue'[Len(queue')] = queue[n]
        BY <1>1, <1>2, <1>4 DEF Chained
      <3>1. Len(queue') \in 1..Len(queue')
        BY <1>3
      <3> QED
        BY <1>3, <3>1
    <2>2. ASSUME NEW q \in Provider
          PROVE  job'[q] = "persist" <=> \E i \in 1..Len(queue') : queue'[i].job = q
      <3>1. job[q] = "persist" <=> \E i \in 1..n : queue[i].job = q
        BY <1>4 DEF Chained
      <3>2. CASE q = h.job
        <4>1. \A i \in 1..n : queue[i].job = q => i = 1
          BY <1>1, <1>4, <3>2, ProviderAssumption DEF Chained, ProviderAssumption
        <4>2. \A i \in 1..Len(queue') : queue'[i].job # q
          BY <1>3, <4>1
        <4> QED
          BY <1>2, <3>2, <4>2
      <3>3. CASE q # h.job
        <4>1. job'[q] = job[q]
          BY <1>2, <3>3
        <4>2. ASSUME NEW i \in 1..n, queue[i].job = q
              PROVE  \E j \in 1..Len(queue') : queue'[j].job = q
          <5>1. i # 1
            BY <3>3, <4>2
          <5>2. i - 1 \in 1..Len(queue') /\ queue'[i - 1] = queue[i]
            BY <1>3, <5>1
          <5> QED
            BY <4>2, <5>2
        <4>3. ASSUME NEW j \in 1..Len(queue'), queue'[j].job = q
              PROVE  \E i \in 1..n : queue[i].job = q
          BY <1>3, <4>3
        <4> QED
          BY <3>1, <4>1, <4>2, <4>3
      <3> QED
        BY <3>2, <3>3
    <2>3. ASSUME NEW i \in 1..Len(queue'), NEW j \in 1..Len(queue'),
                 queue'[i].job = queue'[j].job, queue'[i].job # NoJob
          PROVE  i = j
      <3>1. i + 1 = j + 1
        BY <1>3, <1>4, <2>3 DEF Chained
      <3> QED
        BY <1>3, <3>1
    <2>4. ~poisoned'
      BY <1>1, <1>2, <1>4 DEF Chained
    <2> QED
      BY <2>1, <2>2, <2>3, <2>4 DEF Chained
  <1> QED
    BY <1>5, <1>6, <1>7, <1>8, <1>9 DEF IInv

\* A write that fails.
LEMMA WriteFailsStep ==
  ASSUME IInv, WriteFails
  PROVE  IInv'
  <1> USE Kept
  <1>1. /\ queue' = <<>> /\ poisoned'
        /\ job' = [p \in Provider |-> IF job[p] = "persist" THEN "none" ELSE job[p]]
        /\ UNCHANGED <<mem, disk, env, files, crashes>>
    BY DEF WriteFails
  <1>2. failures' \in 0..FailBound
    BY ProviderAssumption DEF WriteFails, IInv, TypeOK, ProviderAssumption
  <1>3. TypeOK'
    BY <1>1, <1>2 DEF IInv, TypeOK, Awaited, files
  <1>4. Agree' /\ Chained'
    BY <1>1 DEF Agree, Chained
  <1>5. ActiveIsInstalled'
    BY <1>1 DEF ActiveIsInstalled, Sane
  <1>6. InstalledIsThere'
    BY <1>1 DEF IInv, InstalledIsThere, files, Sane, ProviderState
  <1> QED
    BY <1>3, <1>4, <1>5, <1>6 DEF IInv

-----------------------------------------------------------------------------
(* Jobs, activations and restarts. *)

\* A step that leaves the record alone and moves no job into or out of the chain.
LEMMA AsideStep ==
  ASSUME IInv, UNCHANGED record,
         \A q \in Provider : job'[q] = "persist" <=> job[q] = "persist"
  PROVE  Agree' /\ ActiveIsInstalled' /\ Chained'
  BY DEF IInv, record, Agree, ActiveIsInstalled, Chained

\* The stages of a job that change only what is on disk.
LEMMA JobStep ==
  ASSUME IInv, NEW p \in Provider,
         \/ Start(p) \/ DownloadFails(p) \/ Downloaded(p) \/ UnpackFails(p) \/ Unpacked(p)
         \/ Clearing(p) \/ Cleared(p) \/ MoveFails(p) \/ Over(p)
  PROVE  IInv'
  <1>1. /\ UNCHANGED record /\ UNCHANGED count
        /\ job \in [Provider -> Awaited] /\ place \in [Provider -> {"absent", "partial", "whole"}]
        /\ mem.installed \subseteq Provider
    BY DEF Start, DownloadFails, Downloaded, UnpackFails, Unpacked, Clearing, Cleared, MoveFails,
           Over, IInv, TypeOK, ProviderState
  <1>2. \A q \in Provider : q # p => job'[q] = job[q] /\ place'[q] = place[q]
                                     /\ (q \in damaged' <=> q \in damaged)
    BY <1>1 DEF Start, DownloadFails, Downloaded, UnpackFails, Unpacked, Clearing, Cleared,
                MoveFails, Over, files
  <1>3. \A q \in Provider : job'[q] = "persist" <=> job[q] = "persist"
    BY <1>1, <1>2 DEF Start, DownloadFails, Downloaded, UnpackFails, Unpacked, Clearing, Cleared,
                MoveFails, Over
  <1>4. TypeOK'
    BY <1>1 DEF Start, DownloadFails, Downloaded, UnpackFails, Unpacked, Clearing, Cleared,
                MoveFails, Over, files, IInv, TypeOK, record, count, Awaited
  <1>5. p \in mem.installed /\ place'[p] = "absent" =>
          job'[p] \in {"clear", "move"} \/ p \in damaged'
    BY <1>1 DEF Start, DownloadFails, Downloaded, UnpackFails, Unpacked, Clearing, Cleared,
                MoveFails, Over, files, IInv, InstalledIsThere
  <1>6. InstalledIsThere'
    <2> SUFFICES ASSUME NEW q \in mem.installed, place'[q] = "absent"
                 PROVE  job'[q] \in {"clear", "move"} \/ q \in damaged'
      BY <1>1 DEF InstalledIsThere, record
    <2> QED
      BY <1>1, <1>2, <1>5 DEF IInv, InstalledIsThere
  <1> QED
    BY <1>1, <1>3, <1>4, <1>6, AsideStep DEF IInv

\* A provider has been renamed into its place.
LEMMA MovedStep ==
  ASSUME IInv, NEW p \in Provider, Moved(p)
  PROVE  IInv'
  <1> USE Kept
  <1>1. /\ job[p] = "move" /\ Persist(p) /\ UNCHANGED <<disk, env, poisoned>>
        /\ place' = [place EXCEPT ![p] = "whole"] /\ damaged' = damaged \ {p}
        /\ mem' = [installed |-> mem.installed \cup {p},
                   active |-> IF p \in Tex THEN p ELSE mem.active]
        /\ UNCHANGED count
    BY DEF Moved
  <1>2. Sane(mem')
    BY <1>1 DEF Sane, ProviderState
  <1>3. /\ queue' \in Seq(Entry) /\ job' \in [Provider -> Awaited]
        /\ \A q \in Provider : q # p => job'[q] = job[q]
        /\ Agree' /\ ActiveIsInstalled' /\ Chained'
    BY <1>1, <1>2, PersistStep
  <1>4. TypeOK'
    BY <1>1, <1>2, <1>3 DEF IInv, TypeOK, Sane, count
  <1>5. InstalledIsThere'
    <2> SUFFICES ASSUME NEW q \in mem'.installed, place'[q] = "absent"
                 PROVE  job'[q] \in {"clear", "move"} \/ q \in damaged'
      BY DEF InstalledIsThere
    <2>1. place \in [Provider -> {"absent", "partial", "whole"}]
      BY DEF IInv, TypeOK
    <2>2. q # p /\ q \in mem.installed /\ q \in Provider
      BY <1>1, <2>1 DEF Sane, ProviderState
    <2> QED
      BY <1>1, <1>3, <2>1, <2>2 DEF IInv, InstalledIsThere
  <1> QED
    BY <1>3, <1>4, <1>5 DEF IInv

\* A distribution is activated.
LEMMA ActivateStep ==
  ASSUME IInv, NEW p \in Tex \cup {System}, Activate(p)
  PROVE  IInv'
  <1> USE Kept
  <1>1. /\ p \in (mem.installed \cap Tex) \cup {System}
        /\ mem' = [mem EXCEPT !.active = p] /\ Persist(NoJob)
        /\ UNCHANGED <<disk, env, poisoned>> /\ UNCHANGED <<files, count>>
    BY DEF Activate
  <1>2. Sane(mem') /\ mem'.installed = mem.installed
    BY <1>1 DEF Sane, ProviderState
  <1>3. /\ queue' \in Seq(Entry) /\ job' \in [Provider -> Awaited]
        /\ \A q \in Provider : q # NoJob => job'[q] = job[q]
        /\ Agree' /\ ActiveIsInstalled' /\ Chained'
    BY <1>1, <1>2, PersistStep
  <1>4. TypeOK'
    BY <1>1, <1>2, <1>3 DEF IInv, TypeOK, Sane, files, count
  <1>5. InstalledIsThere'
    BY <1>1, <1>2, <1>3, ProviderAssumption
       DEF IInv, InstalledIsThere, files, Sane, ProviderState, ProviderAssumption
  <1> QED
    BY <1>3, <1>4, <1>5 DEF IInv

\* The process ends and is started again.
LEMMA RestartStep ==
  ASSUME IInv, NEW file, Restart(file)
  PROVE  IInv'
  <1> USE Kept
  <1>1. Sane(file)
    <2>1. queue # <<>> => Sane(Head(queue).state)
      BY Ends
    <2> QED
      BY <2>1 DEF Restart
  <1>2. PICK kept \in SUBSET {p \in file.installed : Survives(p)} : mem' = Opened(file, kept)
    BY DEF Restart
  <1>3. Sane(mem') /\ mem'.installed = kept
    BY <1>1, <1>2 DEF Sane, Opened, ProviderState
  <1>4. /\ disk' = mem' /\ env' = mem' /\ queue' = <<>> /\ ~poisoned' /\ damaged' = {}
        /\ job' = [p \in Provider |-> "none"] /\ UNCHANGED <<place, failures>>
        /\ poisoned' \in BOOLEAN
    BY DEF Restart
  <1>5. crashes' \in 0..CrashBound
    BY ProviderAssumption DEF Restart, IInv, TypeOK, ProviderAssumption
  <1>6. TypeOK'
    BY <1>3, <1>4, <1>5 DEF IInv, TypeOK, Sane, Awaited
  <1>7. Agree' /\ Chained'
    BY <1>4 DEF Agree, Chained
  <1>8. ActiveIsInstalled'
    BY <1>3, <1>4 DEF ActiveIsInstalled, Sane
  <1>9. InstalledIsThere'
    BY <1>2, <1>3, <1>4 DEF InstalledIsThere, Survives
  <1> QED
    BY <1>6, <1>7, <1>8, <1>9 DEF IInv

-----------------------------------------------------------------------------
(* The invariant. *)

\* Nothing is installed yet.
LEMMA InitIInv ==
  ASSUME Init
  PROVE  IInv
  <1>1. TypeOK
    <2>1. mem \in ProviderState
      BY DEF Init, ProviderState
    <2>2. failures \in 0..FailBound /\ crashes \in 0..CrashBound
      BY ProviderAssumption DEF Init, ProviderAssumption
    <2>3. queue \in Seq(Entry)
      BY DEF Init
    <2> QED
      BY <2>1, <2>2, <2>3 DEF Init, TypeOK, Awaited
  <1>2. ActiveIsInstalled
    BY DEF Init, ActiveIsInstalled
  <1> QED
    BY <1>1, <1>2 DEF Init, IInv, Agree, InstalledIsThere, Chained

\* IInv is inductive.
LEMMA Inductive ==
  ASSUME IInv, [Next]_vars
  PROVE  IInv'
  <1>1. ASSUME NEW p \in Provider, Start(p) \/ Await(p) PROVE IInv'
    <2>1. CASE Moved(p)
      BY <2>1, MovedStep
    <2>2. CASE ~Moved(p)
      BY <1>1, <2>2, JobStep DEF Await
    <2> QED
      BY <2>1, <2>2
  <1>2. ASSUME NEW p \in Tex \cup {System}, Activate(p) PROVE IInv'
    BY <1>2, ActivateStep
  <1>3. CASE Write
    BY <1>3, WriteStep
  <1>4. CASE WriteFails
    BY <1>4, WriteFailsStep
  <1>5. ASSUME NEW file, Restart(file) PROVE IInv'
    BY <1>5, RestartStep
  <1>6. CASE UNCHANGED vars
    BY <1>6 DEF vars, IInv, TypeOK, Agree, ActiveIsInstalled, InstalledIsThere, Chained
  <1> QED
    BY <1>1, <1>2, <1>3, <1>4, <1>5, <1>6 DEF Next

-----------------------------------------------------------------------------
(* The theorems. *)

\* The inductive invariant holds in every reachable state, for any number of
\* providers, overlapping jobs and activations, failed writes and restarts.
THEOREM Invariance == Spec => []IInv
  BY InitIInv, Inductive, PTL DEF Spec

\* When the chain of writes is at rest and sound, memory, file and environment
\* are the same (persist, then applyEnvironment).
THEOREM TheyAgree == Spec => []Agree
  BY Invariance, PTL DEF IInv

\* The active TeX distribution is an installed one wherever it is recorded.
THEOREM ActiveInstalled == Spec => []ActiveIsInstalled
  BY Invariance, PTL DEF IInv

\* An installed provider is in its place, unless its replacement is under way
\* or failed.
THEOREM InstalledThere == Spec => []InstalledIsThere
  BY Invariance, PTL DEF IInv
=============================================================================
