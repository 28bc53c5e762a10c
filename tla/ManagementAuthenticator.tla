----------------------- MODULE ManagementAuthenticator -----------------------
(***************************************************************************)
(* The sessions of the management console and the throttling of its logins *)
(* (typr-server/managementAuth.ts).                                        *)
(*                                                                         *)
(* login() reads the clock and the record of failures of its client,       *)
(* awaits the derivation of the password hash, and then writes: a failure  *)
(* is counted in the record it read, which other logins may have counted   *)
(* in, replaced or deleted meanwhile; a success forgets the failures and   *)
(* opens a session as of the time it read.  session() and logout() are     *)
(* synchronous.  A record is an object: the map and the logins that read   *)
(* it share it.                                                            *)
(***************************************************************************)
EXTENDS Naturals, Sequences, FiniteSets, Functions

CONSTANTS
  Login,        \* calls of login() that may be in progress
  Client,       \* address and user name: what failures are counted by
  Object,       \* names for records of failures
  NoObject,
  IdleTimeout, AbsoluteTimeout,
  MaxSessions,  \* MAX_SESSIONS
  FailureWindow, FailureLimit, BaseLockout, MaxLockout,
  MaxTime,      \* bound of the clock
  MaxOpened,    \* bound of the sessions
  MaxWrong      \* bound of the failed logins

ASSUME AuthenticatorAssumption ==
  /\ NoObject \notin Object
  /\ IdleTimeout \in Nat /\ AbsoluteTimeout \in Nat
  /\ MaxSessions \in Nat \ {0}
  /\ FailureWindow \in Nat /\ FailureLimit \in Nat \ {0}
  /\ BaseLockout \in Nat /\ MaxLockout \in Nat
  /\ MaxTime \in Nat /\ MaxOpened \in Nat /\ MaxWrong \in Nat

VARIABLES
  clock,     \* Date.now()
  sessions,  \* sessions: a token is named by the place of its session in the
             \* order of their creation, which is that of the map
  opened,    \* how many there have been
  failures,  \* failures: of each client, the record, or none
  heap,      \* what the records hold
  login,     \* what each login() has read, or that it is not under way
  wrong      \* of each client, when its failed logins began (history)

authVars == <<clock, sessions, opened, failures, heap, login, wrong>>
throttle == <<failures, heap, wrong>>

NoLogin == [active |-> FALSE]
Time == 0..MaxTime

AuthInit ==
  /\ clock = 0 /\ sessions = <<>> /\ opened = 0
  /\ failures = [c \in Client |-> NoObject]
  /\ heap = [o \in Object |-> [count |-> 0, firstAt |-> 0, blockedUntil |-> 0]]
  /\ login = [l \in Login |-> NoLogin]
  /\ wrong = [c \in Client |-> <<>>]

Tick ==
  /\ clock < MaxTime /\ clock' = clock + 1
  /\ UNCHANGED <<sessions, opened, login, throttle>>

-----------------------------------------------------------------------------
(* login(), up to its await and after it. *)

Blocked(c) == failures[c] # NoObject /\ heap[failures[c]].blockedUntil > clock

\* A client that is blocked is refused at once, and nothing changes.
Refuse(c) == Blocked(c) /\ UNCHANGED authVars

Begin(l, c) ==
  /\ ~login[l].active /\ ~Blocked(c)
  /\ login' = [login EXCEPT ![l] =
       [active |-> TRUE, client |-> c, now |-> clock, current |-> failures[c]]]
  /\ UNCHANGED <<clock, sessions, opened, throttle>>

End(l) == login' = [login EXCEPT ![l] = NoLogin]

\* The derivation fails: the call throws.
Throws(l) ==
  /\ login[l].active /\ End(l)
  /\ UNCHANGED <<clock, sessions, opened, throttle>>

\* Records that neither the map nor a login refers to.
Unused ==
  {o \in Object : /\ \A c \in Client : failures[c] # o
                  /\ \A l \in Login : login[l].active => login[l].current # o}

\* How long the record of so many failures blocks its client: twice as long for
\* each failure past the limit, up to the fifth.
Doublings == <<1, 2, 4, 8, 16, 32>>
Lockout(count) ==
  LET more == count - FailureLimit
      long == BaseLockout * Doublings[IF more < 5 THEN more + 1 ELSE 6]
  IN  IF long < MaxLockout THEN long ELSE MaxLockout

\* The record with one failure more.
Counted(record, now) ==
  LET n == record.count + 1
  IN  [count |-> n, firstAt |-> record.firstAt,
       blockedUntil |-> IF n >= FailureLimit THEN now + Lockout(n) ELSE 0]

\* Mutant: the record is used however old it is.
AlwaysRecent(record, now) == TRUE

\* It is less than the window old.
Recent(record, now) == now - record.firstAt <= FailureWindow

\* The name or the password is wrong: the failure is counted in the record read
\* before, if there was one and it is recent, else in a new one; that record is
\* the client's from now on.
Fail(l) ==
  LET L == login[l]  c == login[l].client
      keep == L.current # NoObject /\ Recent(heap[L.current], L.now)
  IN  /\ L.active /\ End(l)
      /\ Len(wrong[c]) < MaxWrong
      /\ \E o \in Object :
           /\ IF keep THEN o = L.current ELSE o \in Unused
           /\ heap' = [heap EXCEPT ![o] =
                Counted(IF keep THEN @ ELSE [count |-> 0, firstAt |-> L.now, blockedUntil |-> 0],
                        L.now)]
           /\ failures' = [failures EXCEPT ![c] = o]
      /\ wrong' = [wrong EXCEPT ![c] = Append(@, L.now)]
      /\ UNCHANGED <<clock, sessions, opened>>

-----------------------------------------------------------------------------
(* Sessions. *)

Expired(s, now) ==
  now > s.seen + IdleTimeout \/ now > s.created + AbsoluteTimeout

\* prune(): the sessions that remain, and the records.
Alive(now) == {n \in DOMAIN sessions : ~Expired(sessions[n], now)}
Pruned(c, now) ==
  LET f == failures[c]
  IN  IF f # NoObject /\ heap[f].blockedUntil <= now /\ ~Recent(heap[f], now)
      THEN NoObject ELSE f

\* Of these sessions the newest ones, so that there is room for one more.
Newer(S, n) == {m \in S : m > n}
Room(S) == {n \in S : Cardinality(Newer(S, n)) < MaxSessions - 1}

\* These sessions stay, and a new one is opened.
Opened(S, now) ==
  [n \in S \cup {opened + 1} |->
     IF n = opened + 1 THEN [created |-> now, seen |-> now] ELSE sessions[n]]

\* Mutant: room is made before the expired sessions are pruned.
SucceedEvictingFirst(l) ==
  LET L == login[l]
  IN  /\ L.active /\ End(l)
      /\ failures' = [c \in Client |-> IF c = L.client THEN NoObject ELSE Pruned(c, L.now)]
      /\ opened < MaxOpened /\ opened' = opened + 1
      /\ sessions' = Opened(Room(DOMAIN sessions) \cap Alive(L.now), L.now)
      /\ UNCHANGED <<clock, heap, wrong>>

\* The failures of the client are forgotten, what has expired is pruned, the
\* oldest session makes room, and a new one is opened, all as of the time read.
Succeed(l) ==
  LET L == login[l]
  IN  /\ L.active /\ End(l)
      /\ failures' = [c \in Client |-> IF c = L.client THEN NoObject ELSE Pruned(c, L.now)]
      /\ opened < MaxOpened /\ opened' = opened + 1
      /\ sessions' = Opened(Room(Alive(L.now)), L.now)
      /\ UNCHANGED <<clock, heap, wrong>>

Without(n) == Restrict(sessions, DOMAIN sessions \ {n})

\* session(): one that has expired is deleted, any other is seen now.
See(n) ==
  /\ n \in DOMAIN sessions
  /\ sessions' = IF Expired(sessions[n], clock) THEN Without(n)
                 ELSE [sessions EXCEPT ![n].seen = clock]
  /\ UNCHANGED <<clock, opened, login, throttle>>

Logout(n) ==
  /\ sessions' = Without(n)
  /\ UNCHANGED <<clock, opened, login, throttle>>

AuthNext ==
  \/ Tick
  \/ \E c \in Client : Refuse(c)
  \/ \E l \in Login : (\E c \in Client : Begin(l, c)) \/ Throws(l) \/ Fail(l) \/ Succeed(l)
  \/ \E n \in 1..opened : See(n) \/ Logout(n)

AuthSpec == AuthInit /\ [][AuthNext]_authVars

-----------------------------------------------------------------------------
(* Properties. *)

Record == [count : Nat, firstAt : Time, blockedUntil : Nat]

\* Of these times, which lie in the window of a record.
Within(times, record) ==
  {i \in 1..Len(times) :
     record.firstAt <= times[i] /\ times[i] <= record.firstAt + FailureWindow}

\* What is counted against a client happened: a record holds no more failures than
\* its client's failed logins that began within one window, however logins
\* overlap, so that nobody is locked out for less than FailureLimit of them
\* (managementAuth.ts:99-125).
LockoutEarned ==
  \A c \in Client : failures[c] # NoObject =>
    LET record == heap[failures[c]]
    IN  /\ record.count <= Cardinality(Within(wrong[c], record))
        /\ record.blockedUntil > 0 => record.count >= FailureLimit

\* Why session n may end in a step.
EndedRightly(n) ==
  \/ Logout(n)
  \/ Expired(sessions[n], clock)
  \/ \E l \in Login :
       /\ Succeed(l) /\ Cardinality(DOMAIN sessions) = MaxSessions
       /\ \A m \in DOMAIN sessions : n <= m /\ ~Expired(sessions[m], login[l].now)

\* A session goes away when it is logged out, when it has expired, or to make
\* room for a login, and then only the oldest, with none of them expired when
\* that login began; and there are never too many (managementAuth.ts:127-133,
\* 151-155, 188-193).
SessionsEndRightly ==
  [][/\ Cardinality(DOMAIN sessions') <= MaxSessions
     /\ \A n \in DOMAIN sessions \ DOMAIN sessions' : EndedRightly(n)]_authVars
==============================================================================
