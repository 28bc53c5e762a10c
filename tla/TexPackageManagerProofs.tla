----------------------- MODULE TexPackageManagerProofs -----------------------
(***************************************************************************)
(* Proofs about TexPackageManager, for any callers, trees, files and       *)
(* bounds.  Tickets are released in the order in which they were taken;    *)
(* so whoever holds a ticket that is not released keeps every later one    *)
(* waiting, and that is all the lock there is.                             *)
(***************************************************************************)
EXTENDS TexPackageManager, TLAPS

-----------------------------------------------------------------------------
(* The order of tickets. *)

\* While a caller holds its ticket, no later ticket of its manager has its turn.
LEMMA LaterTicketWaits ==
  ASSUME IInv, NEW c \in Caller, NEW d \in Caller,
         pc[c] # "idle", manager[c] = manager[d], ticket[c] < ticket[d]
  PROVE  ~Ready(d)
  <1>1. /\ manager[d] \in Manager /\ ticket[c] \in Nat /\ ticket[d] \in Nat
        /\ released[manager[d]] \subseteq Nat
    BY DEF IInv, TypeOK
  <1>2. 1 <= ticket[c] /\ ticket[c] \notin released[manager[c]]
    BY DEF IInv, OwnTicket
  <1>3. \A n \in released[manager[d]] : \A k \in 1..n : k \in released[manager[d]]
    BY <1>1 DEF IInv, InOrder
  <1>4. ticket[d] # 1 /\ ticket[c] \in 1..(ticket[d] - 1)
    BY <1>1, <1>2
  <1>5. ticket[d] - 1 \notin released[manager[d]]
    BY <1>1, <1>2, <1>3, <1>4
  <1> QED
    BY <1>4, <1>5 DEF Ready

\* At most one caller of a manager runs tlmgr (installQueue).
THEOREM TurnsExclude ==
  IInv => OneTlmgrPerManager
  <1> SUFFICES ASSUME IInv, NEW c \in Caller, NEW d \in Caller,
                      pc[c] \in Running, pc[d] \in Running, manager[c] = manager[d],
                      c # d
               PROVE  FALSE
    BY DEF OneTlmgrPerManager
  <1>1. Ready(c) /\ Ready(d) /\ pc[c] # "idle" /\ pc[d] # "idle"
    BY DEF IInv, InOrder, Running
  <1>2. ticket[c] \in Nat /\ ticket[d] \in Nat /\ ticket[c] # ticket[d]
    BY <1>1 DEF IInv, TypeOK, OwnTicket
  <1> QED
    BY <1>1, <1>2, LaterTicketWaits

-----------------------------------------------------------------------------
(* Steps of a caller that has its turn. *)

\* A caller that had its turn returns and releases its ticket.
LEMMA ReturnKeeps ==
  ASSUME IInv, NEW c \in Caller, pc[c] # "idle", Ready(c), Return(c),
         UNCHANGED <<managers, tail, request, aborted>>
  PROVE  IInv'
  <1> USE DEF managers, request
  <1>1. manager[c] \in Manager /\ ticket[c] \in Nat /\ released \in [Manager -> SUBSET Nat]
    BY DEF IInv, TypeOK
  <1>2. released'[manager[c]] = released[manager[c]] \cup {ticket[c]}
    BY <1>1 DEF Return, Release
  <1>3. \A m \in Manager : m # manager[c] => released'[m] = released[m]
    BY <1>1 DEF Return, Release
  <1>4. pc'[c] = "idle" /\ \A d \in Caller : d # c => pc'[d] = pc[d]
    BY DEF Return, IInv, TypeOK
  <1>5. TypeOK'
    BY <1>1 DEF IInv, TypeOK, Return, Release
  <1>6. OwnTicket'
    <2> SUFFICES ASSUME NEW d \in Caller, pc'[d] # "idle"
                 PROVE  /\ 1 <= ticket[d] /\ ticket[d] <= tail[manager[d]]
                        /\ ticket[d] \notin released'[manager[d]]
                        /\ \A e \in Caller \ {d} :
                             pc'[e] # "idle" /\ manager[e] = manager[d] => ticket[e] # ticket[d]
      BY DEF OwnTicket
    <2>1. d # c /\ pc[d] # "idle"
      BY <1>4
    <2>2. /\ 1 <= ticket[d] /\ ticket[d] <= tail[manager[d]]
          /\ ticket[d] \notin released[manager[d]]
      BY <2>1 DEF IInv, OwnTicket
    <2>3. manager[d] = manager[c] => ticket[d] # ticket[c]
      BY <2>1 DEF IInv, OwnTicket
    <2>4. ticket[d] \notin released'[manager[d]]
      <3>1. manager[d] \in Manager
        BY DEF IInv, TypeOK
      <3> QED
        BY <1>2, <1>3, <2>2, <2>3, <3>1
    <2>5. \A e \in Caller \ {d} :
             pc'[e] # "idle" /\ manager[e] = manager[d] => ticket[e] # ticket[d]
      BY <1>4, <2>1 DEF IInv, OwnTicket
    <2> QED
      BY <2>2, <2>4, <2>5
  <1>7. InOrder'
    <2>1. ASSUME NEW m \in Manager, NEW n \in released'[m]
          PROVE  n <= tail[m] /\ \A k \in 1..n : k \in released'[m]
      <3>1. CASE n \in released[m]
        <4>1. n <= tail[m] /\ \A k \in 1..n : k \in released[m]
          BY <3>1 DEF IInv, InOrder
        <4> QED
          BY <4>1, <1>2, <1>3
      <3>2. CASE n \notin released[m]
        <4>1. m = manager[c] /\ n = ticket[c]
          BY <3>2, <1>2, <1>3
        <4>2. n <= tail[m]
          BY <4>1 DEF IInv, OwnTicket
        <4>3. ASSUME NEW k \in 1..n, k # n
              PROVE  k \in released[m]
          <5>1. n # 1 /\ k \in 1..(n - 1)
            BY <4>1, <4>3, <1>1
          <5>2. n - 1 \in released[m]
            BY <4>1, <5>1 DEF Ready
          <5> QED
            BY <5>1, <5>2 DEF IInv, InOrder
        <4> QED
          BY <4>1, <4>2, <4>3, <1>2
      <3> QED
        BY <3>1, <3>2
    <2>2. ASSUME NEW d \in Caller, pc'[d] \in Running
          PROVE  Ready(d)'
      <3>1. d # c /\ pc[d] \in Running
        BY <2>2, <1>4 DEF Running
      <3>2. Ready(d) /\ manager[d] \in Manager
        BY <3>1 DEF IInv, InOrder, TypeOK
      <3> QED
        BY <3>2, <1>2, <1>3 DEF Ready
    <2> QED
      BY <2>1, <2>2 DEF InOrder
  <1> QED
    BY <1>5, <1>6, <1>7 DEF IInv

\* A caller that has its turn goes on to its next tlmgr command.
LEMMA ContinueKeeps ==
  ASSUME IInv, NEW c \in Caller, NEW at \in Running, pc[c] # "idle", Ready(c),
         Continue(c, at), UNCHANGED <<managers, tail, request, aborted>>,
         left' \in [Caller -> SUBSET File], found' \in [Caller -> SUBSET File]
  PROVE  IInv'
  <1> USE DEF managers, request
  <1>1. pc'[c] = at /\ \A d \in Caller : d # c => pc'[d] = pc[d]
    BY DEF Continue, IInv, TypeOK
  <1>2. TypeOK'
    BY DEF IInv, TypeOK, Continue
  <1>3. \A d \in Caller : pc'[d] # "idle" => pc[d] # "idle"
    BY <1>1
  <1>4. OwnTicket'
    BY <1>3 DEF IInv, OwnTicket, Continue
  <1>5. \A d \in Caller : pc'[d] \in Running => Ready(d)
    BY <1>1 DEF IInv, InOrder
  <1>6. InOrder'
    BY <1>5 DEF IInv, InOrder, Continue, Ready
  <1> QED
    BY <1>2, <1>4, <1>6 DEF IInv

\* A caller that runs a command has its turn.
LEMMA RunningReady ==
  ASSUME IInv, NEW c \in Caller, pc[c] \in Running
  PROVE  Ready(c) /\ pc[c] # "idle"
  BY DEF IInv, InOrder, Running

-----------------------------------------------------------------------------
(* The invariant, action by action. *)

\* Nobody has called at first.
LEMMA InitKeeps ==
  ASSUME Init
  PROVE  IInv
  <1>1. TypeOK
    BY ManagerAssumption DEF Init, TypeOK, Manager
  <1>2. OwnTicket /\ InOrder
    BY DEF Init, OwnTicket, InOrder, Running
  <1> QED
    BY <1>1, <1>2 DEF IInv

\* The new ticket is later than all that were taken or released before.
LEMMA CallKeeps ==
  ASSUME IInv, NEW c \in Caller, Call(c)
  PROVE  IInv'
  <1> DEFINE m == made'
  <1>1. m \in Manager /\ m \in Nat /\ tail[m] \in Nat
    BY ManagerAssumption DEF Call, IInv, TypeOK, Manager
  <1>2. /\ tail'[m] = tail[m] + 1
        /\ \A k \in Manager : k # m => tail'[k] = tail[k]
    BY <1>1 DEF Call, IInv, TypeOK
  <1>3. /\ pc'[c] = "waiting" /\ manager'[c] = m /\ ticket'[c] = tail[m] + 1
        /\ \A d \in Caller : d # c =>
             pc'[d] = pc[d] /\ manager'[d] = manager[d] /\ ticket'[d] = ticket[d]
    BY DEF Call, IInv, TypeOK
  <1>4. released' = released
    BY DEF Call
  <1>5. TypeOK'
    <2>1. active' \in Tree /\ made' \in 0..MaxManager /\ tree' \in [Manager -> Tree]
      BY ManagerAssumption DEF Call, IInv, TypeOK, Manager
    <2>2. tail' \in [Manager -> Nat] /\ released' \in [Manager -> SUBSET Nat]
      BY <1>1 DEF Call, IInv, TypeOK
    <2>3. pc' \in [Caller -> {"idle", "waiting"} \cup Running]
      BY DEF Call, IInv, TypeOK
    <2>4. manager' \in [Caller -> Manager] /\ ticket' \in [Caller -> Nat]
      BY <1>1 DEF Call, IInv, TypeOK
    <2>5. left' \in [Caller -> SUBSET File]
      <3>1. PICK files \in Missing(c) :
              left' = [left EXCEPT ![c] = files]
        BY DEF Call
      <3> QED
        BY <3>1 DEF Missing, IInv, TypeOK
    <2>6. found' \in [Caller -> SUBSET File] /\ aborted' \in [Caller -> BOOLEAN]
      BY DEF Call, IInv, TypeOK
    <2> QED
      BY <2>1, <2>2, <2>3, <2>4, <2>5, <2>6 DEF TypeOK
  <1>6. \A n \in released[m] : n <= tail[m]
    BY <1>1 DEF IInv, InOrder
  <1>7. ASSUME NEW d \in Caller, d # c, pc[d] # "idle"
        PROVE  /\ 1 <= ticket[d] /\ ticket[d] <= tail'[manager[d]]
               /\ ticket[d] \notin released[manager[d]]
               /\ manager[d] = m => ticket[d] # tail[m] + 1
    <2>1. 1 <= ticket[d] /\ ticket[d] <= tail[manager[d]] /\ ticket[d] \notin released[manager[d]]
      BY <1>7 DEF IInv, OwnTicket
    <2>2. manager[d] \in Manager /\ ticket[d] \in Nat /\ tail[manager[d]] \in Nat
      BY DEF IInv, TypeOK
    <2>3. CASE manager[d] = m
      BY <2>3, <1>1, <1>2, <2>1, <2>2
    <2>4. CASE manager[d] # m
      BY <2>4, <1>2, <2>1, <2>2
    <2> QED
      BY <2>3, <2>4
  <1>8. OwnTicket'
    <2> SUFFICES ASSUME NEW d \in Caller, pc'[d] # "idle"
                 PROVE  /\ 1 <= ticket'[d] /\ ticket'[d] <= tail'[manager'[d]]
                        /\ ticket'[d] \notin released'[manager'[d]]
                        /\ \A e \in Caller \ {d} :
                             pc'[e] # "idle" /\ manager'[e] = manager'[d]
                             => ticket'[e] # ticket'[d]
      BY DEF OwnTicket
    <2>1. CASE d = c
      <3>1. 1 <= tail[m] + 1 /\ tail[m] + 1 <= tail'[m] /\ tail[m] + 1 \notin released[m]
        <4>1. released[m] \subseteq Nat
          BY <1>1 DEF IInv, TypeOK
        <4> QED
          BY <1>1, <1>2, <1>6, <4>1
      <3>2. \A e \in Caller \ {c} :
              pc'[e] # "idle" /\ manager'[e] = m => ticket'[e] # tail[m] + 1
        BY <1>3, <1>7
      <3> QED
        BY <2>1, <1>3, <1>4, <3>1, <3>2
    <2>2. CASE d # c
      <3>1. pc[d] # "idle"
        BY <2>2, <1>3
      <3>2. /\ 1 <= ticket'[d] /\ ticket'[d] <= tail'[manager'[d]]
            /\ ticket'[d] \notin released'[manager'[d]]
        BY <2>2, <3>1, <1>3, <1>4, <1>7
      <3>3. ASSUME NEW e \in Caller \ {d}, pc'[e] # "idle", manager'[e] = manager'[d]
            PROVE  ticket'[e] # ticket'[d]
        <4>1. CASE e = c
          BY <4>1, <3>3, <2>2, <3>1, <1>3, <1>7
        <4>2. CASE e # c
          BY <4>2, <3>3, <2>2, <3>1, <1>3 DEF IInv, OwnTicket
        <4> QED
          BY <4>1, <4>2
      <3> QED
        BY <3>2, <3>3
    <2> QED
      BY <2>1, <2>2
  <1>9. InOrder'
    <2>1. ASSUME NEW k \in Manager, NEW n \in released[k]
          PROVE  n <= tail'[k] /\ \A i \in 1..n : i \in released[k]
      <3>1. n <= tail[k] /\ \A i \in 1..n : i \in released[k]
        BY DEF IInv, InOrder
      <3>2. n \in Nat /\ tail[k] \in Nat
        BY DEF IInv, TypeOK
      <3> QED
        BY <3>1, <3>2, <1>2
    <2>2. ASSUME NEW d \in Caller, pc'[d] \in Running
          PROVE  Ready(d)'
      <3>1. d # c /\ pc[d] \in Running
        BY <2>2, <1>3 DEF Running
      <3>2. Ready(d)
        BY <3>1 DEF IInv, InOrder
      <3> QED
        BY <3>1, <3>2, <1>3, <1>4 DEF Ready
    <2> QED
      BY <2>1, <2>2, <1>4 DEF InOrder
  <1> QED
    BY <1>5, <1>8, <1>9 DEF IInv

\* The caller whose turn it is goes on.
LEMMA TurnKeeps ==
  ASSUME IInv, NEW c \in Caller, Turn(c)
  PROVE  IInv'
  <1>1. pc[c] # "idle" /\ Ready(c)
    BY DEF Turn
  <1>2. CASE Return(c)
    BY <1>1, <1>2, ReturnKeeps DEF Turn
  <1>3. CASE ~Return(c)
    <2>1. /\ Continue(c, "update") \/ Continue(c, "search")
          /\ UNCHANGED <<left, found>>
      BY <1>3 DEF Turn
    <2>2. left' \in [Caller -> SUBSET File] /\ found' \in [Caller -> SUBSET File]
      BY <2>1 DEF IInv, TypeOK
    <2>3. "update" \in Running /\ "search" \in Running
      BY DEF Running
    <2> QED
      BY <1>1, <2>1, <2>2, <2>3, ContinueKeeps DEF Turn
  <1> QED
    BY <1>2, <1>3

\* A tlmgr command ends.
LEMMA CommandKeeps ==
  ASSUME IInv, NEW c \in Caller, Command(c)
  PROVE  IInv'
  <1>1. "install" \in Running /\ "search" \in Running /\ "selfUpdate" \in Running
        /\ "reinstall" \in Running
    BY DEF Running
  <1>2. pc[c] \in Running
    BY <1>1 DEF Command, Searched, NeedsSelfUpdate, SelfUpdated, Ends
  <1>3. Ready(c) /\ pc[c] # "idle"
    BY <1>2, RunningReady
  <1>4. UNCHANGED <<managers, tail, request, aborted>>
    BY DEF Command, Searched, NeedsSelfUpdate, SelfUpdated, Ends
  <1>5. left \in [Caller -> SUBSET File] /\ found \in [Caller -> SUBSET File]
    BY DEF IInv, TypeOK
  <1>6. CASE Searched(c)
    <2> DEFINE Outcome(f, hits) ==
                 LET rest == left[c] \ {f}
                 IN  IF (rest # {} /\ aborted[c]) \/ (rest = {} /\ hits = {})
                     THEN Return(c)
                     ELSE /\ Continue(c, IF rest = {} THEN "install" ELSE "search")
                          /\ left' = [left EXCEPT ![c] = rest]
                          /\ found' = [found EXCEPT ![c] = hits]
    <2>0. PICK f \in left[c] : \E hits \in Matched(c, f) : Outcome(f, hits)
      BY <1>6 DEF Searched
    <2>1. PICK hits \in Matched(c, f) : Outcome(f, hits)
      BY <2>0
    <2> DEFINE rest == left[c] \ {f}
               at == IF rest = {} THEN "install" ELSE "search"
    <2>2. CASE Return(c)
      BY <2>2, <1>3, <1>4, ReturnKeeps
    <2>3. CASE ~Return(c)
      <3>1. /\ Continue(c, at)
            /\ left' = [left EXCEPT ![c] = rest] /\ found' = [found EXCEPT ![c] = hits]
        BY <2>1, <2>3
      <3>2. rest \subseteq File /\ hits \subseteq File /\ at \in Running
        BY <1>1, <1>5 DEF Matched
      <3>3. left' \in [Caller -> SUBSET File] /\ found' \in [Caller -> SUBSET File]
        <4> HIDE DEF rest
        <4> QED
          BY <3>1, <3>2, <1>5
      <3> QED
        <4> HIDE DEF at
        <4> QED
          BY <3>1, <3>2, <3>3, <1>3, <1>4, ContinueKeeps
    <2> QED
      BY <2>2, <2>3
  <1>7. CASE NeedsSelfUpdate(c)
    BY <1>7, <1>1, <1>3, <1>4, <1>5, ContinueKeeps DEF NeedsSelfUpdate
  <1>8. CASE SelfUpdated(c)
    BY <1>8, <1>1, <1>3, <1>4, <1>5, ContinueKeeps DEF SelfUpdated
  <1>9. CASE Ends(c)
    BY <1>9, <1>3, <1>4, ReturnKeeps DEF Ends
  <1> QED
    BY <1>6, <1>7, <1>8, <1>9 DEF Command

\* Abort, Activate and stuttering touch no ticket.
LEMMA SurroundingsKeep ==
  ASSUME IInv, \/ \E c \in Caller : Abort(c)
               \/ \E t \in Tree : Activate(t)
               \/ UNCHANGED vars
  PROVE  IInv'
  <1>1. UNCHANGED <<made, tree, tail, released, pc, manager, ticket, left, found>>
    BY DEF Abort, Activate, vars, managers, request
  <1>2. active' \in Tree /\ aborted' \in [Caller -> BOOLEAN]
    BY DEF IInv, TypeOK, Abort, Activate, vars, managers, request
  <1>3. TypeOK'
    BY <1>1, <1>2 DEF IInv, TypeOK
  <1>4. OwnTicket' /\ InOrder'
    BY <1>1 DEF IInv, OwnTicket, InOrder, Ready
  <1> QED
    BY <1>3, <1>4 DEF IInv

\* Every step keeps the invariant.
LEMMA NextKeeps ==
  ASSUME IInv, [Next]_vars
  PROVE  IInv'
  BY CallKeeps, TurnKeeps, CommandKeeps, SurroundingsKeep DEF Next

-----------------------------------------------------------------------------
(* The theorems. *)

\* The tickets of every manager are taken and released in order.
THEOREM Invariance == Spec => []IInv
  <1>1. Init => IInv
    BY InitKeeps
  <1>2. IInv /\ [Next]_vars => IInv'
    BY NextKeeps
  <1> QED
    BY <1>1, <1>2, PTL DEF Spec

\* At most one caller of a manager runs tlmgr, for any number of callers
\* (installQueue, texPackageManager.ts:76-79 and 157-160).
THEOREM OneAtATime == Spec => []OneTlmgrPerManager
  BY Invariance, TurnsExclude, PTL

\* Nobody gets its turn before one that called earlier, for any number of
\* callers: only Turn ends a wait, and it takes the release before.
THEOREM FirstComeFirstServed == Spec => NoOvertaking
  <1>1. ASSUME IInv, [Next]_vars, NEW c \in Caller, NEW d \in Caller,
               pc[c] = "waiting", pc[d] = "waiting", manager[c] = manager[d],
               ticket[c] < ticket[d]
        PROVE  pc'[d] = "waiting"
    <2>1. ~Ready(d)
      BY <1>1, LaterTicketWaits
    <2>2. ASSUME NEW e \in Caller, Call(e)
          PROVE  pc'[d] = "waiting"
      BY <1>1, <2>2 DEF Call, IInv, TypeOK
    <2>3. ASSUME NEW e \in Caller, Turn(e)
          PROVE  pc'[d] = "waiting"
      <3>1. d # e
        BY <2>1, <2>3 DEF Turn
      <3> QED
        BY <1>1, <2>3, <3>1 DEF Turn, Return, Continue, IInv, TypeOK
    <2>4. ASSUME NEW e \in Caller, Command(e)
          PROVE  pc'[d] = "waiting"
      <3>1. d # e
        BY <1>1, <2>4 DEF Command, Searched, NeedsSelfUpdate, SelfUpdated, Ends, Running
      <3> QED
        BY <1>1, <2>4, <3>1
        DEF Command, Searched, NeedsSelfUpdate, SelfUpdated, Ends, Return, Continue, IInv, TypeOK
    <2>5. CASE \/ \E e \in Caller : Abort(e)
               \/ \E t \in Tree : Activate(t)
               \/ UNCHANGED vars
      BY <1>1, <2>5 DEF Abort, Activate, vars
    <2> QED
      BY <1>1, <2>2, <2>3, <2>4, <2>5 DEF Next
  <1>2. IInv /\ [Next]_vars =>
          [\A c, d \in Caller :
             pc[c] = "waiting" /\ pc[d] = "waiting" /\ manager[c] = manager[d]
             /\ ticket[c] < ticket[d] => pc'[d] = "waiting"]_vars
    BY <1>1
  <1> QED
    BY <1>2, Invariance, PTL DEF Spec, NoOvertaking
==============================================================================
