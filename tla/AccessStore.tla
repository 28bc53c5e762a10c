----------------------------- MODULE AccessStore -----------------------------
(***************************************************************************)
(* Users and API keys of the companion: class AccessStore of               *)
(* typr-server/accessStore.ts, opened with a state path.                   *)
(*                                                                         *)
(* A call changes the state in memory and, before anything else can run,   *)
(* takes the snapshot that its persist() will write; the writes are a      *)
(* chain of promises, so they reach the disk one at a time in the order of *)
(* the calls.  When one of them is done its caller continues, and answers, *)
(* before any other event: one step.  When one fails, all behind it in the *)
(* chain fail too, and so does every later one: the chain stays rejected   *)
(* until the process restarts.  A call that the code refuses before it     *)
(* changes anything is a stuttering step and has no action.                *)
(***************************************************************************)
EXTENDS Naturals, Sequences

CONSTANTS
  User,         \* users, each with its name
  Key, Owner,   \* API keys, and the user each is made for
  QueueBound, FailBound, CrashBound,  \* bounds on unanswered calls, failed writes, crashes
  None

ASSUME AccessAssumption ==
  /\ Owner \in [Key -> User]
  /\ QueueBound \in Nat /\ FailBound \in Nat /\ CrashBound \in Nat

AccessState == [user : [User -> {"absent", "enabled", "disabled"}],
                key : [Key -> {"absent", "active", "revoked"}],
                require : BOOLEAN]

Call ==
  [op : {"createUser", "enable", "disable"}, arg : User]
  \cup [op : {"createKey", "revoke", "authorize"}, arg : Key]
  \cup [op : {"require", "waive", "anonymous"}, arg : {None}]

\* A write that waits: the snapshot and the call that awaits it.
Entry == [state : AccessState, call : Call]

VARIABLES
  mem,       \* AccessStore.state
  disk,      \* the file at statePath
  queue,     \* writeQueue: the snapshots to write, and who awaits each
  poisoned,  \* writeQueue is a rejected promise
  fresh,     \* keys whose lastUsedAt is less than 60 seconds old
  acked,     \* calls that succeeded and whose contrary was not called since
  last,      \* the latest successful call, None after a failed one
  failures, crashes

vars == <<mem, disk, queue, poisoned, fresh, acked, last, failures, crashes>>
count == <<failures, crashes>>

Empty == [user |-> [u \in User |-> "absent"], key |-> [k \in Key |-> "absent"],
          require |-> FALSE]

Init ==
  /\ mem = Empty /\ disk = Empty
  /\ queue = <<>> /\ poisoned = FALSE
  /\ fresh = {} /\ acked = {} /\ last = None
  /\ failures = 0 /\ crashes = 0

-----------------------------------------------------------------------------
(* What each call asks of the state and does to it. *)

Usable(s, k) == s.key[k] = "active" /\ s.user[Owner[k]] = "enabled"

\* The call is carried out; any other is refused at once.
Allowed(s, c) ==
  \/ c.op = "createUser" /\ s.user[c.arg] = "absent"
  \/ c.op \in {"enable", "disable"} /\ s.user[c.arg] # "absent"
  \/ c.op = "createKey" /\ s.key[c.arg] = "absent" /\ s.user[Owner[c.arg]] = "enabled"
  \/ c.op = "revoke" /\ s.key[c.arg] # "absent"
  \/ c.op = "authorize" /\ Usable(s, c.arg)
  \/ c.op = "require" /\ \E k \in Key : Usable(s, k)
  \/ c.op = "waive"
  \/ c.op = "anonymous" /\ ~s.require

Effect(s, c) ==
  [user |-> IF c.op \in {"createUser", "enable", "disable"}
            THEN [s.user EXCEPT ![c.arg] = IF c.op = "disable" THEN "disabled" ELSE "enabled"]
            ELSE s.user,
   key |-> IF c.op \in {"createKey", "revoke"}
           THEN [s.key EXCEPT ![c.arg] = IF c.op = "revoke" THEN "revoked" ELSE "active"]
           ELSE s.key,
   require |-> IF c.op \in {"require", "waive"} THEN c.op = "require" ELSE s.require]

\* What a caller that was told of success may rely on.
Holds(s, c) ==
  /\ c.op = "createUser" => s.user[c.arg] # "absent"
  /\ c.op = "enable" => s.user[c.arg] = "enabled"
  /\ c.op = "disable" => s.user[c.arg] = "disabled"
  /\ c.op = "createKey" => s.key[c.arg] # "absent"
  /\ c.op = "revoke" => s.key[c.arg] = "revoked"
  /\ c.op = "require" => s.require
  /\ c.op \in {"waive", "anonymous"} => ~s.require
  /\ c.op = "authorize" => Usable(s, c.arg)

\* Calls that undo what c did.
Contrary(c) ==
  {d \in Call : /\ d.arg = c.arg
                /\ {c.op, d.op} \in {{"enable", "disable"}, {"require", "waive"}}}

Lasting == {c \in Call : c.op \notin {"authorize", "anonymous"}}

-----------------------------------------------------------------------------
(* Calls. *)

\* The snapshot of a call: the state with its change made.
Serialized(c) == Effect(mem, c)

\* persist(), up to its await.
Persist(c) ==
  /\ acked' = acked \ Contrary(c)
  /\ IF poisoned
     THEN last' = None /\ UNCHANGED queue
     ELSE queue' = Append(queue, [state |-> Serialized(c), call |-> c]) /\ UNCHANGED last

\* createUser, setUserDisabled, createApiKey, revokeApiKey, setRequireApiKeys.
Change(c) ==
  /\ c \in Lasting /\ Allowed(mem, c) /\ Len(queue) < QueueBound
  /\ mem' = Effect(mem, c)
  /\ Persist(c)
  /\ UNCHANGED <<disk, poisoned, fresh, count>>

\* authorize, with a key whose use is not worth recording, or with none.
Admit(c) ==
  /\ c.op \in {"authorize", "anonymous"} /\ Allowed(mem, c)
  /\ c.op = "authorize" => c.arg \in fresh
  /\ last' = c
  /\ UNCHANGED <<mem, disk, queue, poisoned, fresh, acked, count>>

\* authorize, when lastUsedAt is renewed: the answer awaits persist().
Use(c) ==
  /\ c.op = "authorize" /\ Allowed(mem, c) /\ c.arg \notin fresh
  /\ Len(queue) < QueueBound
  /\ fresh' = fresh \cup {c.arg}
  /\ Persist(c)
  /\ UNCHANGED <<mem, disk, poisoned, count>>

Expire(k) ==
  /\ k \in fresh /\ fresh' = fresh \ {k}
  /\ UNCHANGED <<mem, disk, queue, poisoned, acked, last, count>>

-----------------------------------------------------------------------------
(* The chain of writes, and restarts. *)

\* The write of e is done and its caller answers.
Written(e, rest) ==
  /\ disk' = e.state /\ queue' = rest
  /\ last' = e.call
  /\ acked' = IF e.call \in Lasting /\ \A i \in 1..Len(rest) : rest[i].call \notin Contrary(e.call)
              THEN acked \cup {e.call} ELSE acked
  /\ UNCHANGED <<mem, poisoned, fresh, count>>

\* Mutant of Write: the writes are not chained.
WriteUnchained ==
  \E i \in 1..Len(queue) :
    Written(queue[i], SubSeq(queue, 1, i - 1) \o SubSeq(queue, i + 1, Len(queue)))

Write == queue # <<>> /\ Written(Head(queue), Tail(queue))

\* Mutant of WriteFails: the calls behind the failed one are answered as done.
WriteFailsAlone ==
  /\ queue # <<>> /\ failures < FailBound
  /\ queue' = <<>> /\ poisoned' = TRUE /\ last' = None
  /\ acked' = acked \cup {queue[i].call : i \in {j \in 2..Len(queue) : queue[j].call \in Lasting}}
  /\ failures' = failures + 1
  /\ UNCHANGED <<mem, disk, fresh, crashes>>

\* mkdir, writeFile or rename fails: so does everything behind it.
WriteFails ==
  /\ queue # <<>> /\ failures < FailBound
  /\ queue' = <<>> /\ poisoned' = TRUE /\ last' = None
  /\ failures' = failures + 1
  /\ UNCHANGED <<mem, disk, fresh, acked, crashes>>

\* The process ends, before or after the current rename; open() reads the file.
Restart(s) ==
  /\ crashes < CrashBound /\ crashes' = crashes + 1
  /\ s = disk \/ (queue # <<>> /\ s = Head(queue).state)
  /\ mem' = s /\ disk' = s
  /\ queue' = <<>> /\ poisoned' = FALSE /\ last' = None
  /\ fresh' \in SUBSET fresh
  /\ UNCHANGED <<acked, failures>>

Next ==
  \/ \E c \in Call : Change(c) \/ Admit(c) \/ Use(c)
  \/ \E k \in Key : Expire(k)
  \/ Write \/ WriteFails
  \/ \E s \in {disk} \cup {queue[i].state : i \in 1..Len(queue)} : Restart(s)

Spec == Init /\ [][Next]_vars

-----------------------------------------------------------------------------
(* Properties. *)

\* The values the variables can have: writeQueue, the state and the file.
TypeOK ==
  /\ mem \in AccessState /\ disk \in AccessState
  /\ queue \in Seq(Entry)
  /\ poisoned \in BOOLEAN /\ fresh \subseteq Key
  /\ acked \subseteq Lasting /\ last \in Call \cup {None}
  /\ failures \in 0..FailBound /\ crashes \in 0..CrashBound

\* What succeeded stays done, in memory and on disk, until the contrary is
\* called: a key revoked or a user disabled stays so over crashes and failed
\* writes, because persist() writes the snapshots in the order of the calls.
Durable == \A c \in acked : Holds(mem, c) /\ Holds(disk, c)

\* authorize decides before it awaits persist() and answers after; still it
\* never admits a key after its revocation, or the disabling of its user, was
\* answered, nor a request without a key after enforcement was.
AdmitsNoRevoked ==
  \A c \in acked : last # None =>
    /\ last.op = "authorize" =>
         /\ ~(c.op = "revoke" /\ c.arg = last.arg)
         /\ ~(c.op = "disable" /\ c.arg = Owner[last.arg])
    /\ last.op = "anonymous" => c.op # "require"

\* With no write under way and none failed, the file is the state: persist()
\* of the last change wrote that change.
NothingUnsaved == queue = <<>> /\ ~poisoned => disk = mem

\* Parts of the inductive invariant.  A snapshot has what its call and the
\* acknowledged ones promise, and what the calls before it promise unless
\* they have been contradicted since.
Promised ==
  \A i \in 1..Len(queue) :
    /\ Holds(queue[i].state, queue[i].call)
    /\ \A c \in acked : Holds(queue[i].state, c) /\ queue[i].call \notin Contrary(c)

Undone(i) == \E j \in (i + 1)..Len(queue) : queue[j].call \in Contrary(queue[i].call)

Ordered ==
  \A i \in 1..Len(queue) : queue[i].call \in Lasting /\ ~Undone(i) =>
    /\ Holds(mem, queue[i].call)
    /\ \A j \in i..Len(queue) : Holds(queue[j].state, queue[i].call)

Current ==
  /\ poisoned => queue = <<>>
  /\ queue # <<>> => queue[Len(queue)].state = mem

IInv == TypeOK /\ Durable /\ AdmitsNoRevoked /\ NothingUnsaved /\ Promised /\ Ordered /\ Current
=============================================================================
