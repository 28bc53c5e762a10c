-------------------------- MODULE AccessStoreProofs --------------------------
(***************************************************************************)
(* Proofs about AccessStore, for any users, keys and bounds.  The          *)
(* inductive invariant IInv follows a promise from the call that makes it  *)
(* to the file: the call's own snapshot keeps it, every later snapshot and *)
(* the memory keep it until the contrary is called, and the writes take    *)
(* the snapshots in order.                                                 *)
(***************************************************************************)
EXTENDS AccessStore, TLAPS

-----------------------------------------------------------------------------
(* The calls. *)

\* Which calls undo each other.
LEMMA ContraryIs ==
  ASSUME NEW c \in Call, NEW d \in Call
  PROVE  d \in Contrary(c) <=>
           /\ d.arg = c.arg
           /\ \/ c.op = "enable" /\ d.op = "disable"
              \/ c.op = "disable" /\ d.op = "enable"
              \/ c.op = "require" /\ d.op = "waive"
              \/ c.op = "waive" /\ d.op = "require"
  <1>1. {c.op, d.op} \in {{"enable", "disable"}, {"require", "waive"}} <=>
           \/ c.op = "enable" /\ d.op = "disable"
           \/ c.op = "disable" /\ d.op = "enable"
           \/ c.op = "require" /\ d.op = "waive"
           \/ c.op = "waive" /\ d.op = "require"
    OBVIOUS
  <1> QED
    BY <1>1 DEF Contrary

\* The fields of a call.
LEMMA CallShape ==
  ASSUME NEW c \in Call
  PROVE  /\ c.op \in {"createUser", "enable", "disable"} => c.arg \in User
         /\ c.op \in {"createKey", "revoke", "authorize"} => c.arg \in Key
         /\ c.op \in {"createUser", "enable", "disable", "createKey", "revoke", "authorize",
                      "require", "waive", "anonymous"}
  BY DEF Call

\* Every call takes a state to a state.
LEMMA EffectType ==
  ASSUME NEW s \in AccessState, NEW c \in Call
  PROVE  Effect(s, c) \in AccessState
  BY CallShape DEF Effect, AccessState

\* After a call, what it promises holds.
LEMMA EffectHolds ==
  ASSUME NEW s \in AccessState, NEW c \in Call, Allowed(s, c)
  PROVE  Holds(Effect(s, c), c)
  <1>1. CASE c.op \in {"createUser", "enable", "disable"}
    BY <1>1, CallShape DEF Effect, Holds, AccessState
  <1>2. CASE c.op \in {"createKey", "revoke"}
    BY <1>2, CallShape DEF Effect, Holds, AccessState
  <1>3. CASE c.op \in {"require", "waive"}
    BY <1>3, CallShape DEF Effect, Holds, AccessState
  <1>4. CASE c.op \in {"authorize", "anonymous"}
    <2>1. Effect(s, c) = s
      BY <1>4 DEF Effect, AccessState
    <2> QED
      BY <1>4, <2>1 DEF Holds, Allowed
  <1> QED
    BY <1>1, <1>2, <1>3, <1>4, CallShape

\* A call keeps what an earlier one promised, unless it is its contrary.
LEMMA EffectKeeps ==
  ASSUME NEW s \in AccessState, NEW c \in Lasting, NEW d \in Call,
         Holds(s, c), Allowed(s, d), d \notin Contrary(c)
  PROVE  Holds(Effect(s, d), c)
  <1> c \in Call
    BY DEF Lasting
  <1>1. CASE d.op \in {"createUser", "enable", "disable"}
    <2>1. d.arg \in User
      BY <1>1, CallShape
    <2>2. /\ Effect(s, d).key = s.key /\ Effect(s, d).require = s.require
          /\ \A u \in User : u # d.arg => Effect(s, d).user[u] = s.user[u]
          /\ Effect(s, d).user[d.arg] = IF d.op = "disable" THEN "disabled" ELSE "enabled"
      BY <1>1, <2>1 DEF Effect, AccessState
    <2>3. CASE c.op \in {"createUser", "enable", "disable"}
      <3>1. c.arg \in User
        BY <2>3, CallShape
      <3>2. d.op = "createUser" => s.user[d.arg] = "absent"
        BY DEF Allowed
      <3>3. CASE c.arg # d.arg
        BY <2>2, <2>3, <3>1, <3>3 DEF Holds
      <3>4. CASE c.arg = d.arg
        BY <1>1, <2>2, <2>3, <3>1, <3>2, <3>4, ContraryIs DEF Holds
      <3> QED
        BY <3>3, <3>4
    <2>4. CASE c.op \in {"createKey", "revoke", "require", "waive"}
      BY <2>2, <2>4 DEF Holds
    <2> QED
      BY <2>3, <2>4, CallShape DEF Lasting
  <1>2. CASE d.op \in {"createKey", "revoke"}
    <2>1. d.arg \in Key
      BY <1>2, CallShape
    <2>2. /\ Effect(s, d).user = s.user /\ Effect(s, d).require = s.require
          /\ \A k \in Key : k # d.arg => Effect(s, d).key[k] = s.key[k]
          /\ Effect(s, d).key[d.arg] = IF d.op = "revoke" THEN "revoked" ELSE "active"
      BY <1>2, <2>1 DEF Effect, AccessState
    <2>3. CASE c.op \in {"createKey", "revoke"}
      <3>1. c.arg \in Key
        BY <2>3, CallShape
      <3>2. d.op = "createKey" => s.key[d.arg] = "absent"
        BY DEF Allowed
      <3> QED
        BY <1>2, <2>2, <2>3, <3>1, <3>2 DEF Holds
    <2>4. CASE c.op \in {"createUser", "enable", "disable", "require", "waive"}
      BY <2>2, <2>4 DEF Holds
    <2> QED
      BY <2>3, <2>4, CallShape DEF Lasting
  <1>3. CASE d.op \in {"require", "waive"}
    <2>1. /\ Effect(s, d).user = s.user /\ Effect(s, d).key = s.key
          /\ Effect(s, d).require = (d.op = "require")
      BY <1>3 DEF Effect, AccessState
    <2>2. CASE c.op \in {"require", "waive"}
      <3>1. c.arg = d.arg
        BY <1>3, <2>2 DEF Call
      <3> QED
        BY <1>3, <2>1, <2>2, <3>1, ContraryIs DEF Holds
    <2>3. CASE c.op \in {"createUser", "enable", "disable", "createKey", "revoke"}
      BY <2>1, <2>3 DEF Holds, Usable
    <2> QED
      BY <2>2, <2>3, CallShape DEF Lasting
  <1>4. CASE d.op \in {"authorize", "anonymous"}
    <2>1. Effect(s, d) = s
      BY <1>4 DEF Effect, AccessState
    <2> QED
      BY <2>1
  <1> QED
    BY <1>1, <1>2, <1>3, <1>4, CallShape

\* A key is not usable once it is revoked or its user disabled, and nobody
\* comes in without one once keys are required.
LEMMA Refused ==
  ASSUME NEW s \in AccessState, NEW c \in Call, NEW d \in Call, Holds(s, c), Holds(s, d)
  PROVE  /\ d.op = "authorize" =>
              /\ ~(c.op = "revoke" /\ c.arg = d.arg)
              /\ ~(c.op = "disable" /\ c.arg = Owner[d.arg])
         /\ d.op = "anonymous" => c.op # "require"
  BY CallShape DEF Holds, Usable

-----------------------------------------------------------------------------
(* The steps. *)

\* The types of the parts, as the steps below use them.
LEMMA Parts ==
  ASSUME TypeOK
  PROVE  /\ mem \in AccessState /\ disk \in AccessState
         /\ queue \in Seq(Entry) /\ Len(queue) \in Nat
         /\ \A i \in 1..Len(queue) : /\ queue[i] \in Entry /\ queue[i].call \in Call
                                     /\ queue[i].state \in AccessState
         /\ acked \subseteq Lasting /\ acked \subseteq Call /\ Lasting \subseteq Call
  <1>1. /\ mem \in AccessState /\ disk \in AccessState /\ queue \in Seq(Entry)
        /\ acked \subseteq Lasting
    BY DEF TypeOK
  <1>2. Lasting \subseteq Call
    BY DEF Lasting
  <1>3. Len(queue) \in Nat /\ \A i \in 1..Len(queue) : queue[i] \in Entry
    BY <1>1
  <1>4. \A i \in 1..Len(queue) : queue[i].call \in Call /\ queue[i].state \in AccessState
    BY <1>3 DEF Entry
  <1> QED
    BY <1>1, <1>2, <1>3, <1>4

\* The head of a queue that is not empty, and the rest.
LEMMA Ends ==
  ASSUME TypeOK, queue # <<>>
  PROVE  /\ 1 \in 1..Len(queue) /\ Head(queue) = queue[1]
         /\ Tail(queue) \in Seq(Entry) /\ Len(Tail(queue)) = Len(queue) - 1
         /\ \A i \in 1..Len(Tail(queue)) : i + 1 \in 1..Len(queue) /\ Tail(queue)[i] = queue[i + 1]
  <1>1. queue \in Seq(Entry)
    BY Parts
  <1> QED
    BY <1>1

\* Every step preserves the types.
LEMMA TypeStep ==
  ASSUME TypeOK, [Next]_vars
  PROVE  TypeOK'
  <1>1. ASSUME NEW c \in Call, Effect(mem, c) \in AccessState, Persist(c)
        PROVE  queue' \in Seq(Entry) /\ acked' \subseteq Lasting /\ last' \in {last, None}
    <2>1. [state |-> Effect(mem, c), call |-> c] \in Entry
      BY <1>1 DEF Entry
    <2>2. queue \in Seq(Entry) /\ acked \subseteq Lasting
      BY Parts
    <2> QED
      BY <1>1, <2>1, <2>2 DEF Persist, Serialized
  <1>2. ASSUME NEW c \in Call, Change(c) PROVE TypeOK'
    <2>1. Effect(mem, c) \in AccessState
      BY EffectType, Parts
    <2>2. Persist(c)
      BY <1>2 DEF Change
    <2>3. queue' \in Seq(Entry) /\ acked' \subseteq Lasting /\ last' \in {last, None}
      BY <1>1, <2>1, <2>2
    <2> QED
      BY <1>2, <2>1, <2>3 DEF TypeOK, Change, count
  <1>3. ASSUME NEW c \in Call, Admit(c) PROVE TypeOK'
    BY <1>3 DEF TypeOK, Admit, count
  <1>4. ASSUME NEW c \in Call, Use(c) PROVE TypeOK'
    <2>1. Effect(mem, c) \in AccessState
      BY EffectType, Parts
    <2>2. Persist(c) /\ c.arg \in Key
      BY <1>4, CallShape DEF Use
    <2>3. queue' \in Seq(Entry) /\ acked' \subseteq Lasting /\ last' \in {last, None}
      BY <1>1, <2>1, <2>2
    <2> QED
      BY <1>4, <2>2, <2>3 DEF TypeOK, Use, count
  <1>5. ASSUME NEW k \in Key, Expire(k) PROVE TypeOK'
    BY <1>5 DEF TypeOK, Expire, count
  <1>6. CASE Write
    <2>1. queue # <<>> /\ Written(queue[1], Tail(queue))
      BY <1>6, Ends DEF Write
    <2>2. /\ Tail(queue) \in Seq(Entry)
          /\ queue[1].state \in AccessState /\ queue[1].call \in Call
      BY <2>1, Ends, Parts
    <2>3. acked' \subseteq Lasting
      BY <2>1, Parts DEF Written
    <2> QED
      BY <2>1, <2>2, <2>3 DEF TypeOK, Written, count
  <1>7. CASE WriteFails
    <2>1. failures' \in 0..FailBound
      BY <1>7, AccessAssumption DEF WriteFails, TypeOK, AccessAssumption
    <2> QED
      BY <1>7, <2>1 DEF WriteFails, TypeOK
  <1>8. ASSUME NEW s, Restart(s) PROVE TypeOK'
    <2>1. s \in AccessState
      <3>1. queue # <<>> => Head(queue).state \in AccessState
        BY Ends, Parts
      <3> QED
        BY <1>8, <3>1, Parts DEF Restart
    <2>2. crashes' \in 0..CrashBound
      BY <1>8, AccessAssumption DEF Restart, TypeOK, AccessAssumption
    <2>3. queue' \in Seq(Entry)
      BY <1>8 DEF Restart
    <2> QED
      BY <1>8, <2>1, <2>2, <2>3 DEF Restart, TypeOK
  <1>9. CASE UNCHANGED vars
    BY <1>9 DEF TypeOK, vars, count
  <1> QED
    BY <1>2, <1>3, <1>4, <1>5, <1>6, <1>7, <1>8, <1>9 DEF Next

\* What a call that changes the memory and calls persist() does.
Recorded(c) ==
  /\ Allowed(mem, c) /\ mem' = Effect(mem, c)
  /\ Persist(c)
  /\ UNCHANGED <<disk, poisoned, count>>

\* Change and Use are such calls: using a key changes nothing that is modelled.
LEMMA CallsRecord ==
  ASSUME TypeOK, NEW c \in Call, Change(c) \/ Use(c)
  PROVE  Recorded(c)
  <1>1. CASE Change(c)
    BY <1>1 DEF Change, Recorded
  <1>2. CASE Use(c)
    <2>1. Effect(mem, c) = mem
      BY <1>2 DEF Use, Effect, TypeOK, AccessState
    <2> QED
      BY <1>2, <2>1 DEF Use, Recorded
  <1> QED
    BY <1>1, <1>2

\* A recorded call: its snapshot is the new memory, at the end of the queue.
LEMMA RecordStep ==
  ASSUME IInv, NEW c \in Call, Recorded(c), TypeOK'
  PROVE  IInv'
  <1> DEFINE n == Len(queue)
  <1> USE DEF IInv
  <1>1. /\ mem \in AccessState /\ n \in Nat
        /\ \A i \in 1..n : queue[i].call \in Call
        /\ acked \subseteq Lasting /\ Lasting \subseteq Call
    BY Parts
  <1>2. Holds(mem', c)
    BY <1>1, EffectHolds DEF Recorded
  <1>3. \A a \in Lasting : Holds(mem, a) /\ c \notin Contrary(a) => Holds(mem', a)
    BY <1>1, EffectKeeps DEF Recorded
  <1>4. \A a \in acked' : a \in acked /\ c \notin Contrary(a)
    BY <1>1, ContraryIs DEF Recorded, Persist
  <1>5. Durable'
    BY <1>1, <1>3, <1>4 DEF Durable, Recorded
  <1>6. AdmitsNoRevoked'
    <2>1. last' \in {last, None}
      BY DEF Recorded, Persist
    <2>2. CASE last' = last
      BY <1>4, <2>2 DEF AdmitsNoRevoked
    <2>3. CASE poisoned
      BY <2>3 DEF AdmitsNoRevoked, Recorded, Persist
    <2> QED
      BY <2>2, <2>3 DEF Recorded, Persist
  <1>7. CASE poisoned
    <2>1. queue' = <<>> /\ queue = <<>> /\ poisoned'
      BY <1>7 DEF Recorded, Persist, Current
    <2> QED
      BY <1>5, <1>6, <2>1 DEF NothingUnsaved, Promised, Ordered, Current
  <1>8. CASE ~poisoned
    <2>1. /\ Len(queue') = n + 1
          /\ \A i \in 1..n : queue'[i] = queue[i]
          /\ queue'[n + 1].state = mem' /\ queue'[n + 1].call = c
      BY <1>1, <1>8 DEF Recorded, Persist, Serialized, TypeOK
    <2>2. \A i \in 1..Len(queue') : i \in 1..n \/ i = n + 1
      BY <1>1, <2>1
    <2>3. NothingUnsaved'
      BY <1>1, <2>1 DEF NothingUnsaved
    <2>4. Promised'
      <3> SUFFICES ASSUME NEW i \in 1..Len(queue')
                   PROVE  /\ Holds(queue'[i].state, queue'[i].call)
                          /\ \A a \in acked' : /\ Holds(queue'[i].state, a)
                                              /\ queue'[i].call \notin Contrary(a)
        BY DEF Promised
      <3>1. CASE i \in 1..n
        BY <1>4, <2>1, <3>1 DEF Promised
      <3>2. CASE i = n + 1
        BY <1>1, <1>2, <1>4, <1>5, <2>1, <3>2 DEF Durable
      <3> QED
        BY <2>2, <3>1, <3>2
    <2>5. Ordered'
      <3> SUFFICES ASSUME NEW i \in 1..Len(queue'),
                          queue'[i].call \in Lasting, ~Undone(i)'
                   PROVE  /\ Holds(mem', queue'[i].call)
                          /\ \A j \in i..Len(queue') : Holds(queue'[j].state, queue'[i].call)
        BY DEF Ordered
      <3>1. CASE i \in 1..n
        <4>1. c \notin Contrary(queue[i].call)
          <5>1. n + 1 \in (i + 1)..Len(queue')
            BY <1>1, <2>1, <3>1
          <5> QED
            BY <2>1, <3>1, <5>1 DEF Undone
        <4>2. ~Undone(i)
          <5> SUFFICES ASSUME NEW j \in (i + 1)..n, queue[j].call \in Contrary(queue[i].call)
                       PROVE  FALSE
            BY DEF Undone
          <5>1. j \in 1..n /\ j \in (i + 1)..Len(queue')
            BY <1>1, <2>1, <3>1
          <5> QED
            BY <2>1, <3>1, <5>1 DEF Undone
        <4>3. /\ Holds(mem, queue[i].call)
              /\ \A j \in i..n : Holds(queue[j].state, queue[i].call)
          BY <2>1, <3>1, <4>2 DEF Ordered
        <4>4. Holds(mem', queue[i].call)
          BY <1>3, <2>1, <3>1, <4>1, <4>3
        <4>5. ASSUME NEW j \in i..Len(queue') PROVE Holds(queue'[j].state, queue'[i].call)
          <5>1. j \in i..n \/ j = n + 1
            BY <1>1, <2>1, <3>1
          <5>2. j \in i..n => j \in 1..n
            BY <1>1, <3>1
          <5> QED
            BY <2>1, <3>1, <4>3, <4>4, <5>1, <5>2
        <4> QED
          BY <2>1, <3>1, <4>4, <4>5
      <3>2. CASE i = n + 1
        BY <1>1, <1>2, <2>1, <3>2
      <3> QED
        BY <2>2, <3>1, <3>2
    <2>6. Current'
      <3>1. queue' # <<>>
        BY <1>1, <2>1
      <3> QED
        BY <1>8, <2>1, <3>1 DEF Current, Recorded
    <2> QED
      BY <1>5, <1>6, <2>3, <2>4, <2>5, <2>6
  <1> QED
    BY <1>7, <1>8

\* The write at the head of the chain: it has what was promised so far.
LEMMA WriteStep ==
  ASSUME IInv, Write, TypeOK'
  PROVE  IInv'
  <1> DEFINE n == Len(queue)
             q == queue[1]
  <1> USE DEF IInv
  <1>1. /\ queue # <<>> /\ n \in Nat /\ 1 \in 1..n
        /\ q = Head(queue) /\ q.call \in Call /\ q.state \in AccessState
        /\ \A i \in 1..n : queue[i].call \in Call
        /\ acked \subseteq Lasting /\ Lasting \subseteq Call
    BY Parts, Ends DEF Write
  <1>2. /\ disk' = q.state /\ queue' = Tail(queue) /\ last' = q.call
        /\ mem' = mem /\ poisoned' = poisoned
    BY <1>1 DEF Write, Written
  <1>3. /\ Len(queue') = n - 1
        /\ \A i \in 1..Len(queue') : i + 1 \in 1..n /\ queue'[i] = queue[i + 1]
    BY <1>1, <1>2, Ends
  <1>4. ASSUME NEW a \in acked', a \notin acked
        PROVE  /\ a = q.call /\ a \in Lasting /\ ~Undone(1)
               /\ \A i \in 1..Len(queue') : queue'[i].call \notin Contrary(a)
    <2>1. /\ a = q.call /\ q.call \in Lasting
          /\ \A i \in 1..Len(queue') : queue'[i].call \notin Contrary(q.call)
      BY <1>1, <1>2, <1>4 DEF Write, Written
    <2>2. ASSUME NEW j \in 2..n, queue[j].call \in Contrary(q.call) PROVE FALSE
      <3>1. j - 1 \in 1..Len(queue') /\ queue'[j - 1] = queue[j]
        BY <1>1, <1>3
      <3> QED
        BY <2>1, <2>2, <3>1
    <2> QED
      BY <2>1, <2>2 DEF Undone
  <1>5. \A i \in 1..n : \A a \in acked' : Holds(queue[i].state, a)
    <2> SUFFICES ASSUME NEW i \in 1..n, NEW a \in acked' PROVE Holds(queue[i].state, a)
      OBVIOUS
    <2>1. CASE a \in acked
      BY <2>1 DEF Promised
    <2>2. CASE a \notin acked
      BY <1>1, <1>4, <2>2 DEF Ordered
    <2> QED
      BY <2>1, <2>2
  <1>6. Durable'
    <2> SUFFICES ASSUME NEW a \in acked' PROVE Holds(mem, a) /\ Holds(q.state, a)
      BY <1>2 DEF Durable
    <2>1. Holds(mem, a)
      <3>1. CASE a \in acked
        BY <3>1 DEF Durable
      <3>2. CASE a \notin acked
        BY <1>1, <1>4, <3>2 DEF Ordered
      <3> QED
        BY <3>1, <3>2
    <2> QED
      BY <1>1, <1>5, <2>1
  <1>7. AdmitsNoRevoked'
    <2> SUFFICES ASSUME NEW a \in acked'
                 PROVE  /\ q.call.op = "authorize" =>
                             /\ ~(a.op = "revoke" /\ a.arg = q.call.arg)
                             /\ ~(a.op = "disable" /\ a.arg = Owner[q.call.arg])
                        /\ q.call.op = "anonymous" => a.op # "require"
      BY <1>2 DEF AdmitsNoRevoked
    <2>1. Holds(q.state, q.call) /\ Holds(q.state, a)
      BY <1>1, <1>5 DEF Promised
    <2>2. a \in Call
      BY <1>1, <1>4
    <2> QED
      BY <1>1, <2>1, <2>2, Refused
  <1>8. NothingUnsaved'
    <2>1. queue' = <<>> => n = 1
      BY <1>1, <1>3
    <2> QED
      BY <1>1, <1>2, <2>1 DEF NothingUnsaved, Current
  <1>9. Promised'
    <2> SUFFICES ASSUME NEW i \in 1..Len(queue')
                 PROVE  /\ Holds(queue'[i].state, queue'[i].call)
                        /\ \A a \in acked' : /\ Holds(queue'[i].state, a)
                                            /\ queue'[i].call \notin Contrary(a)
      BY DEF Promised
    <2>1. Holds(queue'[i].state, queue'[i].call)
      BY <1>3 DEF Promised
    <2>2. ASSUME NEW a \in acked' PROVE queue'[i].call \notin Contrary(a)
      <3>1. CASE a \in acked
        BY <1>3, <3>1 DEF Promised
      <3>2. CASE a \notin acked
        BY <1>4, <3>2
      <3> QED
        BY <3>1, <3>2
    <2> QED
      BY <1>3, <1>5, <2>1, <2>2
  <1>10. Ordered'
    <2> SUFFICES ASSUME NEW i \in 1..Len(queue'),
                        queue'[i].call \in Lasting, ~Undone(i)'
                 PROVE  /\ Holds(mem', queue'[i].call)
                        /\ \A j \in i..Len(queue') : Holds(queue'[j].state, queue'[i].call)
      BY DEF Ordered
    <2>1. ~Undone(i + 1)
      <3> SUFFICES ASSUME NEW j \in (i + 2)..n, queue[j].call \in Contrary(queue[i + 1].call)
                   PROVE  FALSE
        BY <1>1, <1>3 DEF Undone
      <3>1. /\ j - 1 \in (i + 1)..Len(queue') /\ j - 1 \in 1..Len(queue')
            /\ (j - 1) + 1 = j
        BY <1>1, <1>3
      <3>2. queue'[j - 1] = queue[j]
        BY <1>3, <3>1
      <3> QED
        BY <1>3, <3>1, <3>2 DEF Undone
    <2>2. /\ Holds(mem, queue[i + 1].call)
          /\ \A j \in (i + 1)..n : Holds(queue[j].state, queue[i + 1].call)
      BY <1>3, <2>1 DEF Ordered
    <2>3. ASSUME NEW j \in i..Len(queue') PROVE Holds(queue'[j].state, queue'[i].call)
      <3>1. j \in 1..Len(queue') /\ j + 1 \in (i + 1)..n
        BY <1>1, <1>3
      <3> QED
        BY <1>3, <2>2, <3>1
    <2> QED
      BY <1>2, <1>3, <2>2, <2>3
  <1>11. Current'
    <2>1. ~poisoned
      BY <1>1 DEF Current
    <2>2. queue' # <<>> => Len(queue') \in 1..Len(queue') /\ Len(queue') + 1 = n
      BY <1>1, <1>2, <1>3 DEF TypeOK
    <2>3. queue' # <<>> => queue'[Len(queue')] = queue[n]
      BY <1>3, <2>2
    <2> QED
      BY <1>1, <1>2, <2>1, <2>3 DEF Current
  <1> QED
    BY <1>6, <1>7, <1>8, <1>9, <1>10, <1>11

\* A restart: the file has what was promised, the current snapshot too.
LEMMA RestartStep ==
  ASSUME IInv, NEW s, Restart(s), TypeOK'
  PROVE  IInv'
  <1> USE DEF IInv
  <1>1. \A a \in acked : Holds(s, a)
    <2>1. CASE s = disk
      BY <2>1 DEF Durable
    <2>2. CASE queue # <<>> /\ s = Head(queue).state
      <3>1. Head(queue) = queue[1] /\ 1 \in 1..Len(queue)
        BY <2>2 DEF TypeOK
      <3> QED
        BY <2>2, <3>1 DEF Promised
    <2> QED
      BY <2>1, <2>2 DEF Restart
  <1>2. /\ mem' = s /\ disk' = s /\ queue' = <<>> /\ ~poisoned' /\ last' = None
        /\ acked' = acked
    BY DEF Restart
  <1> QED
    BY <1>1, <1>2 DEF Durable, AdmitsNoRevoked, NothingUnsaved, Promised, Ordered, Current

\* Initially nothing is promised.
LEMMA InitIInv ==
  ASSUME Init
  PROVE  IInv
  <1>1. Empty \in AccessState
    BY DEF Empty, AccessState
  <1>2. TypeOK
    <2>1. queue \in Seq(Entry)
      BY DEF Init
    <2>2. failures \in 0..FailBound /\ crashes \in 0..CrashBound
      BY AccessAssumption DEF Init, AccessAssumption
    <2>3. poisoned \in BOOLEAN /\ fresh \subseteq Key /\ acked \subseteq Lasting /\ last \in Call \cup {None}
      BY DEF Init
    <2>4. mem \in AccessState /\ disk \in AccessState
      BY <1>1 DEF Init
    <2> QED
      BY <2>1, <2>2, <2>3, <2>4 DEF TypeOK
  <1> QED
    BY <1>2 DEF Init, IInv, Durable, AdmitsNoRevoked, NothingUnsaved, Promised, Ordered, Current

\* IInv is inductive.
LEMMA Inductive ==
  ASSUME IInv, [Next]_vars
  PROVE  IInv'
  <1>1. TypeOK'
    BY TypeStep DEF IInv
  <1>2. ASSUME NEW c \in Call, Change(c) \/ Use(c) PROVE IInv'
    BY <1>1, <1>2, CallsRecord, RecordStep DEF IInv
  <1>3. ASSUME NEW c \in Call, Admit(c) PROVE IInv'
    <2>1. Holds(mem, c)
      BY <1>3 DEF Admit, Allowed, Holds
    <2>2. acked \subseteq Call /\ mem \in AccessState
      BY DEF IInv, TypeOK, Lasting
    <2>3. AdmitsNoRevoked'
      <3> SUFFICES ASSUME NEW a \in acked
                   PROVE  /\ c.op = "authorize" =>
                               /\ ~(a.op = "revoke" /\ a.arg = c.arg)
                               /\ ~(a.op = "disable" /\ a.arg = Owner[c.arg])
                          /\ c.op = "anonymous" => a.op # "require"
        BY <1>3 DEF Admit, AdmitsNoRevoked
      <3> QED
        BY <2>1, <2>2, Refused DEF IInv, Durable
    <2> QED
      BY <1>1, <1>3, <2>3
         DEF IInv, Admit, Durable, NothingUnsaved, Promised, Ordered, Undone, Current
  <1>4. ASSUME NEW k \in Key, Expire(k) PROVE IInv'
    BY <1>1, <1>4 DEF IInv, Expire, Durable, AdmitsNoRevoked, NothingUnsaved, Promised, Ordered,
                     Undone, Current
  <1>5. CASE Write
    BY <1>1, <1>5, WriteStep
  <1>6. CASE WriteFails
    BY <1>1, <1>6 DEF IInv, WriteFails, Durable, AdmitsNoRevoked, NothingUnsaved, Promised,
                      Ordered, Current
  <1>7. ASSUME NEW s, Restart(s) PROVE IInv'
    BY <1>1, <1>7, RestartStep
  <1>8. CASE UNCHANGED vars
    BY <1>1, <1>8 DEF IInv, vars, count, Durable, AdmitsNoRevoked, NothingUnsaved, Promised,
                      Ordered, Undone, Current
  <1> QED
    BY <1>2, <1>3, <1>4, <1>5, <1>6, <1>7, <1>8 DEF Next

-----------------------------------------------------------------------------
(* The theorems. *)

\* The inductive invariant holds in every reachable state, for any number of
\* users, keys, waiting writes, failures and restarts.
THEOREM Invariance == Spec => []IInv
  BY InitIInv, Inductive, PTL DEF Spec

\* The state in memory, the file and the writes waiting have their types.
THEOREM TypeCorrect == Spec => []TypeOK
  BY Invariance, PTL DEF IInv

\* What AccessStore answered as done is done, in memory and on disk, over
\* failed writes and restarts, until the contrary is called.
THEOREM AcknowledgedIsDurable == Spec => []Durable
  BY Invariance, PTL DEF IInv

\* authorize admits nobody whose revocation was answered, although it decides
\* before it waits for its own write.
THEOREM NoRevokedAdmitted == Spec => []AdmitsNoRevoked
  BY Invariance, PTL DEF IInv
=============================================================================
