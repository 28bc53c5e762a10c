------------------------ MODULE WorkspaceStoreProofs ------------------------
(***************************************************************************)
(* Proofs about WorkspaceStore, for any number of clients, paths and       *)
(* crashes: IInv is inductive, mutations exclude each other, the store     *)
(* implements WorkspaceCAS, and it stays within its limits.                *)
(***************************************************************************)
EXTENDS WorkspaceStore, FiniteSetTheorems, TLAPS

\* What the shape of a request says of its fields.
LEMMA RequestType ==
  ASSUME NEW q \in Request
  PROVE  /\ q.path \in Path
         /\ q.kind \in {"create", "update", "delete", "read", "list"}
         /\ q.kind \in {"create", "update"} => q.body \in Content
         /\ q.kind = "delete" => q.body = Absent
         /\ Mutates(q) <=> q.kind \in {"create", "update", "delete"}
<1>1. q \in RequestShape
  BY StoreAssumption
<1> QED
  BY <1>1 DEF RequestShape, Mutates

\* What passing on an outcome and the lock does to the variables' types.
LEMMA SettleType ==
  ASSUME TypeOK, NEW c \in Client, NEW k \in {"ok", "conflict", "missing", "error"},
         NEW s \in SUBSET (Path \X Content), Settle(c, Outcome(k, s))
  PROVE  /\ pc' \in [Client -> Stage]
         /\ out' \in [Client -> [kind : {"none", "ok", "conflict", "missing", "error"},
                                 shown : SUBSET (Path \X Content)]]
BY DEF TypeOK, Settle, Outcome, Stage

\* The same for the promise chain.
LEMMA ReleaseType ==
  ASSUME TypeOK, NEW c \in Client, Release(c)
  PROVE  prev' \in [Client -> Client \cup {NoClient}] /\ tail' \in Client \cup {NoClient}
BY DEF TypeOK, Release

\* Types are preserved by every step.
LEMMA TypeStep ==
  ASSUME IInv, Next
  PROVE  TypeOK'
<1>0. TypeOK /\ Checked
  BY DEF IInv
<1>s. {} \in SUBSET (Path \X Content)
  OBVIOUS
<1>1. ASSUME NEW c \in Client, NEW q \in Request, Call(c, q) PROVE TypeOK'
  <2>1. pc' \in [Client -> Stage]
    BY <1>0, <1>1 DEF TypeOK, Call, Advance, Settle, Stage
  <2>2. /\ prev' \in [Client -> Client \cup {NoClient}] /\ tail' \in Client \cup {NoClient}
        /\ request' \in [Client -> Request \cup {NoRequest}]
    BY <1>0, <1>1 DEF TypeOK, Call, Join, lock
  <2>3. out' \in [Client -> [kind : {"none", "ok", "conflict", "missing", "error"},
                             shown : SUBSET (Path \X Content)]]
    BY <1>0, <1>s, <1>1, SettleType DEF TypeOK, Call
  <2> QED
    BY <1>0, <1>1, <2>1, <2>2, <2>3 DEF TypeOK, Call
<1>2. ASSUME NEW c \in Client, Reply(c) PROVE TypeOK'
  BY <1>0, <1>s, <1>2 DEF TypeOK, Reply, Advance, Stage, Pending, Outcome, lock
<1>3. ASSUME NEW c \in Client, Check(c) PROVE TypeOK'
  <2>1. CASE Advance(c, IF request[c].kind = "delete" THEN "unlink" ELSE "scan")
             /\ UNCHANGED <<lock, out>>
    BY <1>0, <1>3, <2>1 DEF TypeOK, Check, Advance, Stage, Holding, lock
  <2>2. ASSUME NEW k \in {"error", "conflict"}, SettleHolding(c, Outcome(k, {}))
        PROVE  TypeOK'
    <3>1. /\ pc' \in [Client -> Stage]
          /\ out' \in [Client -> [kind : {"none", "ok", "conflict", "missing", "error"},
                                  shown : SUBSET (Path \X Content)]]
          /\ prev' \in [Client -> Client \cup {NoClient}] /\ tail' \in Client \cup {NoClient}
      BY <1>0, <1>s, <2>2, SettleType, ReleaseType DEF SettleHolding
    <3> QED
      BY <1>0, <1>3, <3>1 DEF TypeOK, Check
  <2> QED
    BY <1>3, <2>1, <2>2 DEF Check
<1>4. ASSUME NEW c \in Client, Scan(c) PROVE TypeOK'
  <2>1. CASE Advance(c, "prepare") /\ UNCHANGED <<lock, out>>
    BY <1>0, <1>4, <2>1 DEF TypeOK, Scan, Advance, Stage, Holding, lock
  <2>2. CASE SettleHolding(c, Outcome("error", {}))
    <3>1. /\ pc' \in [Client -> Stage]
          /\ out' \in [Client -> [kind : {"none", "ok", "conflict", "missing", "error"},
                                  shown : SUBSET (Path \X Content)]]
          /\ prev' \in [Client -> Client \cup {NoClient}] /\ tail' \in Client \cup {NoClient}
      BY <1>0, <1>s, <2>2, SettleType, ReleaseType DEF SettleHolding
    <3> QED
      BY <1>0, <1>4, <3>1 DEF TypeOK, Scan
  <2> QED
    BY <1>4, <2>1, <2>2 DEF Scan
<1>5. ASSUME NEW c \in Client, Prepare(c) PROVE TypeOK'
  <2>1. Above[request[c].path] \subseteq Path
    BY <1>0, <1>5, RequestType, StoreAssumption DEF Checked, Knows, Prepare
  <2> QED
    BY <1>0, <1>5, <2>1 DEF TypeOK, Prepare, Advance, Stage, Holding, lock
<1>6. ASSUME NEW c \in Client, Rename(c) PROVE TypeOK'
  <2>1. request[c].body \in Content
    BY <1>0, <1>6, RequestType DEF Checked, Knows, Rename, InChain, Holding
  <2> QED
    BY <1>0, <1>6, <2>1 DEF TypeOK, Rename, Advance, Stage, Holding, lock
<1>7. ASSUME NEW c \in Client, ReadBack(c) PROVE TypeOK'
  <2>1. request[c].path \in Path /\ files[request[c].path] \in Content
    BY <1>0, <1>7, RequestType DEF Checked, Knows, ReadBack, InChain, Holding
  <2>2. {<<request[c].path, files[request[c].path]>>} \in SUBSET (Path \X Content)
    BY <2>1
  <2>3. /\ pc' \in [Client -> Stage]
        /\ out' \in [Client -> [kind : {"none", "ok", "conflict", "missing", "error"},
                                shown : SUBSET (Path \X Content)]]
        /\ prev' \in [Client -> Client \cup {NoClient}] /\ tail' \in Client \cup {NoClient}
    BY <1>0, <2>2, <1>7, SettleType, ReleaseType DEF SettleHolding, ReadBack
  <2> QED
    BY <1>0, <1>7, <2>3 DEF TypeOK, ReadBack
<1>8. ASSUME NEW c \in Client, Unlink(c) PROVE TypeOK'
  <2>1. /\ pc' \in [Client -> Stage]
        /\ out' \in [Client -> [kind : {"none", "ok", "conflict", "missing", "error"},
                                shown : SUBSET (Path \X Content)]]
        /\ prev' \in [Client -> Client \cup {NoClient}] /\ tail' \in Client \cup {NoClient}
    BY <1>0, <1>s, <1>8, SettleType, ReleaseType DEF SettleHolding, Unlink
  <2>2. files' \in [Path -> Content \cup {Absent}]
    BY <1>0, <1>8 DEF TypeOK, Unlink
  <2> QED
    BY <1>0, <1>8, <2>1, <2>2 DEF TypeOK, Unlink
<1>9. ASSUME NEW c \in Client, Fail(c) PROVE TypeOK'
  <2>1. /\ pc' \in [Client -> Stage]
        /\ out' \in [Client -> [kind : {"none", "ok", "conflict", "missing", "error"},
                                shown : SUBSET (Path \X Content)]]
        /\ prev' \in [Client -> Client \cup {NoClient}] /\ tail' \in Client \cup {NoClient}
    BY <1>0, <1>s, <1>9, SettleType, ReleaseType DEF SettleHolding, Fail
  <2>2. Above[request[c].path] \subseteq Path
    BY <1>0, <1>9, RequestType, StoreAssumption DEF Checked, Knows, Fail, HasLock, Holding
  <2>3. dirs' \subseteq Path
    BY <1>0, <1>9, <2>2 DEF TypeOK, Fail
  <2> QED
    BY <1>0, <1>9, <2>1, <2>3 DEF TypeOK, Fail
<1>10. ASSUME NEW c \in Client, Lstat(c) PROVE TypeOK'
  <2>1. CASE Advance(c, "open") /\ UNCHANGED out
    BY <1>0, <1>10, <2>1 DEF TypeOK, Lstat, Advance, Stage, lock
  <2>2. ASSUME NEW k \in {"error", "missing"}, Settle(c, Outcome(k, {})) PROVE TypeOK'
    BY <1>0, <1>s, <1>10, <2>2, SettleType DEF TypeOK, Lstat, lock
  <2> QED
    BY <1>10, <2>1, <2>2 DEF Lstat
<1>11. ASSUME NEW c \in Client, Open(c) PROVE TypeOK'
  <2>1. request[c].path \in Path
    BY <1>0, <1>11, RequestType DEF Checked, Knows, Open
  <2>2. ASSUME NEW k \in {"error", "ok"}, NEW s \in SUBSET (Path \X Content),
               Settle(c, Outcome(k, s))
        PROVE TypeOK'
    BY <1>0, <1>11, <2>2, SettleType DEF TypeOK, Open, lock
  <2>3. CASE files[request[c].path] = Absent
    BY <1>s, <1>11, <2>2, <2>3 DEF Open
  <2>4. CASE files[request[c].path] # Absent
    <3>1. {<<request[c].path, files[request[c].path]>>} \in SUBSET (Path \X Content)
      BY <1>0, <2>1, <2>4 DEF TypeOK
    <3> QED
      BY <1>11, <2>2, <2>4, <3>1 DEF Open
  <2> QED
    BY <2>3, <2>4
<1>12. ASSUME NEW c \in Client, ReadRoot(c) PROVE TypeOK'
  BY <1>0, <1>12 DEF TypeOK, ReadRoot, Advance, Stage, RootEntries, Present, lock
<1>13. ASSUME NEW c \in Client, Visit(c) PROVE TypeOK'
  <2>1. PICK p \in todo[c] :
          LET shown == out[c].shown \cup {<<p, files[p]>>}
          IN \/ /\ p \in dirs
                /\ todo' = [todo EXCEPT ![c] = (@ \ {p}) \cup Entries(p)]
                /\ UNCHANGED <<pc, out>>
             \/ /\ files[p] # Absent
                /\ todo' = [todo EXCEPT ![c] = @ \ {p}]
                /\ out' = [out EXCEPT ![c].shown = shown]
                /\ UNCHANGED pc
    BY <1>13 DEF Visit
  <2>2. p \in Path /\ Entries(p) \subseteq Path
    BY <1>0 DEF TypeOK, Entries, Present
  <2>3. todo' \in [Client -> SUBSET Path] /\ pc' \in [Client -> Stage]
    BY <1>0, <2>1, <2>2 DEF TypeOK
  <2>4. out' \in [Client -> [kind : {"none", "ok", "conflict", "missing", "error"},
                             shown : SUBSET (Path \X Content)]]
    <3>1. CASE UNCHANGED out
      BY <1>0, <3>1 DEF TypeOK
    <3>2. CASE files[p] # Absent
               /\ out' = [out EXCEPT ![c].shown = out[c].shown \cup {<<p, files[p]>>}]
      <4>1. out[c].shown \cup {<<p, files[p]>>} \in SUBSET (Path \X Content)
        BY <1>0, <2>2, <3>2 DEF TypeOK
      <4> QED
        BY <1>0, <3>2, <4>1 DEF TypeOK
    <3> QED
      BY <2>1, <3>1, <3>2
  <2> QED
    BY <1>0, <1>13, <2>3, <2>4 DEF TypeOK, Visit, lock
<1>14. ASSUME NEW c \in Client, VisitFails(c) PROVE TypeOK'
  BY <1>0, <1>s, <1>14, SettleType DEF TypeOK, VisitFails, lock
<1>15. ASSUME NEW c \in Client, Listed(c) PROVE TypeOK'
  <2>1. out[c].shown \in SUBSET (Path \X Content)
    BY <1>0 DEF TypeOK
  <2> QED
    BY <1>0, <1>15, <2>1, SettleType DEF TypeOK, Listed, lock
<1>16. ASSUME Crash PROVE TypeOK'
  BY <1>0, <1>s, <1>16, StoreAssumption DEF TypeOK, Crash, Stage, Pending, Outcome
<1> QED
  BY <1>1, <1>2, <1>3, <1>4, <1>5, <1>6, <1>7, <1>8, <1>9, <1>10, <1>11, <1>12,
     <1>13, <1>14, <1>15, <1>16
  DEF Next, Progress

\* The chain is as it was if no request joins or leaves it.
LEMMA ChainKept ==
  ASSUME TypeOK, ChainOrder, UNCHANGED lock, InChain' = InChain,
         \A c \in Client : pc'[c] \in Holding => pc[c] \in Holding \/ HasLock(c)
  PROVE  ChainOrder'
<1>1. prev' = prev /\ tail' = tail
  BY DEF lock
<1> QED
  BY <1>1 DEF ChainOrder, HasLock

\* A request that joins awaits the tail, which nobody awaited.
LEMMA ChainJoin ==
  ASSUME TypeOK, ChainOrder, NEW c \in Client, c \notin InChain, Join(c),
         pc' = [pc EXCEPT ![c] = "wait"]
  PROVE  ChainOrder'
<1>1. InChain' = InChain \cup {c}
  BY DEF InChain, TypeOK
<1>2. /\ prev' = [prev EXCEPT ![c] = tail] /\ tail' = c
      /\ prev'[c] = tail /\ \A d \in Client \ {c} : prev'[d] = prev[d]
  BY DEF Join, TypeOK
<1>3. \A a, b \in InChain' : prev'[a] = prev'[b] => a = b
  BY <1>1, <1>2 DEF ChainOrder, InChain
<1>4. \A a \in InChain' : prev'[a] # tail'
  <2>1. \A a \in InChain : prev[a] # c
    BY StoreAssumption DEF ChainOrder
  <2>2. tail # c
    BY StoreAssumption DEF ChainOrder
  <2> QED
    BY <1>1, <1>2, <2>1, <2>2 DEF InChain
<1>5. \A a \in Client : pc'[a] \in Holding \/ a \notin InChain' => prev'[a] = NoClient
  BY <1>1, <1>2 DEF ChainOrder, InChain, TypeOK, Holding
<1>7. /\ \A a \in InChain' : prev'[a] \in InChain' \cup {NoClient}
      /\ tail' \in InChain' \cup {NoClient}
  BY <1>1, <1>2 DEF ChainOrder, InChain
<1> QED
  BY <1>3, <1>4, <1>5, <1>7 DEF ChainOrder

\* A request that releases leaves the place to the one that awaits it.
LEMMA ChainRelease ==
  ASSUME TypeOK, ChainOrder, NEW c \in InChain, prev[c] = NoClient, Release(c),
         pc' = [pc EXCEPT ![c] = "reply"]
  PROVE  ChainOrder'
<1>1. InChain' = InChain \ {c} /\ c \in Client
  BY DEF InChain, TypeOK, Holding
<1>2. /\ \A d \in Client : prev'[d] = IF prev[d] = c THEN NoClient ELSE prev[d]
      /\ tail' = IF tail = c THEN NoClient ELSE tail
  BY DEF Release, TypeOK
<1>3. \A a \in InChain \ {c} : prev[a] # NoClient
  BY DEF ChainOrder
<1>4. \A a, b \in InChain' : prev'[a] = prev'[b] => a = b
  BY <1>1, <1>2, <1>3 DEF ChainOrder, InChain
<1>5. \A a \in InChain' : prev'[a] # tail'
  BY <1>1, <1>2, <1>3 DEF ChainOrder, InChain
<1>6. \A a \in Client : pc'[a] \in Holding \/ a \notin InChain' => prev'[a] = NoClient
  BY <1>1, <1>2 DEF ChainOrder, InChain, TypeOK, Holding
<1>7. /\ \A a \in InChain' : prev'[a] \in InChain' \cup {NoClient}
      /\ tail' \in InChain' \cup {NoClient}
  BY <1>1, <1>2 DEF ChainOrder, InChain
<1> QED
  BY <1>4, <1>5, <1>6, <1>7 DEF ChainOrder
\* The order of the chain is preserved by every step.
LEMMA ChainStep ==
  ASSUME IInv, Next
  PROVE  ChainOrder'
<1>0. TypeOK /\ ChainOrder /\ Checked
  BY DEF IInv
<1>1. ASSUME NEW c \in Client, NEW q \in Request, Call(c, q) PROVE ChainOrder'
  <2>1. CASE Join(c) /\ Advance(c, "wait")
    <3>1. c \notin InChain /\ c \in Client /\ pc' = [pc EXCEPT ![c] = "wait"]
      BY <2>1, <1>1 DEF InChain, Holding, Call, Advance
    <3> QED
      BY <1>0, <2>1, <3>1, ChainJoin
  <2>2. CASE UNCHANGED lock /\ \E s \in {"lstat", "readdir", "reply"} : Advance(c, s)
    <3>1. InChain' = InChain
           /\ \A d \in Client : pc'[d] \in Holding => pc[d] \in Holding \/ HasLock(d)
      BY <1>0, <2>2, <1>1 DEF TypeOK, InChain, Holding, Call, Advance
    <3> QED
      BY <1>0, <2>2, <3>1, ChainKept
  <2> QED
    BY <1>1, <2>1, <2>2 DEF Call, Settle, Advance
<1>2. ASSUME NEW c \in Client, Reply(c) PROVE ChainOrder'
  <2>1. InChain' = InChain /\ UNCHANGED lock
         /\ \A d \in Client : pc'[d] \in Holding => pc[d] \in Holding \/ HasLock(d)
    BY <1>0, <1>2 DEF TypeOK, InChain, Holding, HasLock, lock, Reply, Advance
  <2> QED
    BY <1>0, <2>1, ChainKept
<1>3. ASSUME NEW c \in Client, Check(c) PROVE ChainOrder'
  <2>1. CASE UNCHANGED lock /\ \E s \in Holding : Advance(c, s)
    <3>1. InChain' = InChain
           /\ \A d \in Client : pc'[d] \in Holding => pc[d] \in Holding \/ HasLock(d)
      BY <1>0, <2>1, <1>3 DEF TypeOK, InChain, Holding, HasLock, Check, Advance
    <3> QED
      BY <1>0, <2>1, <3>1, ChainKept
  <2>2. CASE Release(c) /\ pc' = [pc EXCEPT ![c] = "reply"]
    <3>1. c \in InChain /\ prev[c] = NoClient
      BY <1>0, <1>3 DEF InChain, ChainOrder, HasLock, Holding, Check
    <3> QED
      BY <1>0, <2>2, <3>1, ChainRelease
  <2> QED
    BY <1>3, <2>1, <2>2 DEF Check, SettleHolding, Settle, Advance, Holding
<1>4. ASSUME NEW c \in Client, Scan(c) PROVE ChainOrder'
  <2>1. CASE UNCHANGED lock /\ \E s \in Holding : Advance(c, s)
    <3>1. InChain' = InChain
           /\ \A d \in Client : pc'[d] \in Holding => pc[d] \in Holding \/ HasLock(d)
      BY <1>0, <2>1, <1>4 DEF TypeOK, InChain, Holding, HasLock, Scan, Advance
    <3> QED
      BY <1>0, <2>1, <3>1, ChainKept
  <2>2. CASE Release(c) /\ pc' = [pc EXCEPT ![c] = "reply"]
    <3>1. c \in InChain /\ prev[c] = NoClient
      BY <1>0, <1>4 DEF InChain, ChainOrder, HasLock, Holding, Scan
    <3> QED
      BY <1>0, <2>2, <3>1, ChainRelease
  <2> QED
    BY <1>4, <2>1, <2>2 DEF Scan, SettleHolding, Settle, Advance, Holding
<1>5. ASSUME NEW c \in Client, Prepare(c) PROVE ChainOrder'
  <2>1. InChain' = InChain /\ UNCHANGED lock
         /\ \A d \in Client : pc'[d] \in Holding => pc[d] \in Holding \/ HasLock(d)
    BY <1>0, <1>5 DEF TypeOK, InChain, Holding, HasLock, lock, Prepare, Advance
  <2> QED
    BY <1>0, <2>1, ChainKept
<1>6. ASSUME NEW c \in Client, Rename(c) PROVE ChainOrder'
  <2>1. InChain' = InChain /\ UNCHANGED lock
         /\ \A d \in Client : pc'[d] \in Holding => pc[d] \in Holding \/ HasLock(d)
    BY <1>0, <1>6 DEF TypeOK, InChain, Holding, HasLock, lock, Rename, Advance
  <2> QED
    BY <1>0, <2>1, ChainKept
<1>7. ASSUME NEW c \in Client, ReadBack(c) PROVE ChainOrder'
  <2>1. c \in InChain /\ prev[c] = NoClient
    BY <1>0, <1>7 DEF InChain, Holding, ChainOrder, ReadBack
  <2>2. Release(c) /\ pc' = [pc EXCEPT ![c] = "reply"]
    BY <1>7 DEF SettleHolding, Settle, ReadBack
  <2> QED
    BY <1>0, <2>1, <2>2, ChainRelease
<1>8. ASSUME NEW c \in Client, Unlink(c) PROVE ChainOrder'
  <2>1. c \in InChain /\ prev[c] = NoClient
    BY <1>0, <1>8 DEF InChain, Holding, ChainOrder, Unlink
  <2>2. Release(c) /\ pc' = [pc EXCEPT ![c] = "reply"]
    BY <1>8 DEF SettleHolding, Settle, Unlink
  <2> QED
    BY <1>0, <2>1, <2>2, ChainRelease
<1>9. ASSUME NEW c \in Client, Fail(c) PROVE ChainOrder'
  <2>1. c \in InChain /\ prev[c] = NoClient
    BY <1>0, <1>9 DEF InChain, Holding, ChainOrder, HasLock, Fail
  <2>2. Release(c) /\ pc' = [pc EXCEPT ![c] = "reply"]
    BY <1>9 DEF SettleHolding, Settle, Fail
  <2> QED
    BY <1>0, <2>1, <2>2, ChainRelease
<1>10. ASSUME NEW c \in Client, Lstat(c) PROVE ChainOrder'
  <2>1. InChain' = InChain /\ UNCHANGED lock
         /\ \A d \in Client : pc'[d] \in Holding => pc[d] \in Holding \/ HasLock(d)
    BY <1>0, <1>10 DEF TypeOK, InChain, Holding, HasLock, lock, Lstat, Advance, Settle
  <2> QED
    BY <1>0, <2>1, ChainKept
<1>11. ASSUME NEW c \in Client, Open(c) PROVE ChainOrder'
  <2>1. InChain' = InChain /\ UNCHANGED lock
         /\ \A d \in Client : pc'[d] \in Holding => pc[d] \in Holding \/ HasLock(d)
    BY <1>0, <1>11 DEF TypeOK, InChain, Holding, HasLock, lock, Open, Settle
  <2> QED
    BY <1>0, <2>1, ChainKept
<1>12. ASSUME NEW c \in Client, ReadRoot(c) PROVE ChainOrder'
  <2>1. InChain' = InChain /\ UNCHANGED lock
         /\ \A d \in Client : pc'[d] \in Holding => pc[d] \in Holding \/ HasLock(d)
    BY <1>0, <1>12 DEF TypeOK, InChain, Holding, HasLock, lock, ReadRoot, Advance
  <2> QED
    BY <1>0, <2>1, ChainKept
<1>13. ASSUME NEW c \in Client, Visit(c) PROVE ChainOrder'
  <2>1. InChain' = InChain /\ UNCHANGED lock
         /\ \A d \in Client : pc'[d] \in Holding => pc[d] \in Holding \/ HasLock(d)
    BY <1>0, <1>13 DEF TypeOK, InChain, Holding, HasLock, lock, Visit
  <2> QED
    BY <1>0, <2>1, ChainKept
<1>14. ASSUME NEW c \in Client, VisitFails(c) PROVE ChainOrder'
  <2>1. InChain' = InChain /\ UNCHANGED lock
         /\ \A d \in Client : pc'[d] \in Holding => pc[d] \in Holding \/ HasLock(d)
    BY <1>0, <1>14 DEF TypeOK, InChain, Holding, HasLock, lock, VisitFails, Settle
  <2> QED
    BY <1>0, <2>1, ChainKept
<1>15. ASSUME NEW c \in Client, Listed(c) PROVE ChainOrder'
  <2>1. InChain' = InChain /\ UNCHANGED lock
         /\ \A d \in Client : pc'[d] \in Holding => pc[d] \in Holding \/ HasLock(d)
    BY <1>0, <1>15 DEF TypeOK, InChain, Holding, HasLock, lock, Listed, Settle
  <2> QED
    BY <1>0, <2>1, ChainKept
<1>16. ASSUME Crash PROVE ChainOrder'
  <2>1. InChain' = {} /\ tail' = NoClient /\ \A d \in Client : prev'[d] = NoClient
    BY <1>16 DEF Crash, InChain, Holding
  <2> QED
    BY <2>1 DEF ChainOrder
<1> QED
  BY <1>1, <1>2, <1>3, <1>4, <1>5, <1>6, <1>7, <1>8, <1>9, <1>10, <1>11, <1>12, <1>13, <1>14, <1>15, <1>16
  DEF Next, Progress

\* Only one request holds the lock, or has just been given it.
LEMMA Exclusive ==
  ASSUME ChainOrder, NEW c \in Client, NEW d \in Client,
         HasLock(c) \/ pc[c] \in Holding, HasLock(d) \/ pc[d] \in Holding
  PROVE  c = d
BY DEF ChainOrder, InChain, HasLock

\* A request is not concerned by the steps of others that leave the disk alone.
LEMMA Bystander ==
  ASSUME NEW d \in Client, Knows(d), UNCHANGED <<files, dirs>>,
         pc'[d] = pc[d], request'[d] = request[d], out'[d] = out[d]
  PROVE  Knows(d)'
BY DEF Knows, Blocked, Demanded, Mutates

\* Nor, outside the lock, by those that change it.
LEMMA Outsider ==
  ASSUME NEW d \in Client, Knows(d), pc[d] \notin Holding,
         pc'[d] = pc[d], request'[d] = request[d], out'[d] = out[d]
  PROVE  Knows(d)'
BY DEF Knows, Holding, Mutates

\* A request that is through knows only that it has an outcome.
LEMMA Through ==
  ASSUME TypeOK, NEW c \in Client, NEW k, NEW x, k # "none", Settle(c, Outcome(k, x)),
         request'[c] \in Request
  PROVE  Knows(c)'
<1>1. pc'[c] = "reply" /\ out'[c].kind = k
  BY DEF TypeOK, Settle, Outcome
<1> QED
  BY <1>1 DEF Knows, Holding

\* What a request knows at each stage, after every step.
LEMMA CheckedStep ==
  ASSUME IInv, Next
  PROVE  Checked'
<1> SUFFICES ASSUME NEW d \in Client PROVE Knows(d)'
  BY DEF Checked
<1>0. TypeOK /\ ChainOrder /\ Knows(d) /\ Checked /\ TreeShaped
  BY DEF IInv, Checked
<1>1. ASSUME NEW c \in Client, NEW q \in Request, Call(c, q) PROVE Knows(d)'
  <2>1. CASE d # c
    <3>1. pc'[d] = pc[d] /\ request'[d] = request[d] /\ out'[d] = out[d] /\ UNCHANGED <<files, dirs>>
      BY <1>0, <1>1, <2>1 DEF TypeOK, Call, Advance, Settle, Outcome
    <3> QED
      BY <1>0, <3>1, Bystander
  <2>2. CASE d = c
    <3>1. request'[c] = q /\ UNCHANGED <<files, dirs>>
      BY <1>0, <1>1 DEF TypeOK, Call
    <3>2. CASE Settle(c, Outcome("error", {}))
      BY <1>0, <2>2, <3>1, <3>2, Through
    <3>3. CASE ~Mutates(q) /\ UNCHANGED out
               /\ Advance(c, IF q.kind = "read" THEN "lstat" ELSE "readdir")
      BY <1>0, <1>1, <2>2, <3>1, <3>3, RequestType DEF Knows, Blocked, Demanded, Mutates, Holding, TypeOK, Pending, Outcome, Advance, Call
    <3>4. CASE Mutates(q) /\ UNCHANGED out /\ Advance(c, "wait")
      BY <1>0, <1>1, <2>2, <3>1, <3>4, RequestType DEF Knows, Blocked, Demanded, Mutates, Holding, TypeOK, Pending, Outcome, Advance, Call
    <3> QED
      BY <1>1, <3>2, <3>3, <3>4 DEF Call
  <2> QED
    BY <2>1, <2>2
<1>2. ASSUME NEW c \in Client, Reply(c) PROVE Knows(d)'
  <2>1. CASE d # c
    <3>1. pc'[d] = pc[d] /\ request'[d] = request[d] /\ out'[d] = out[d] /\ UNCHANGED <<files, dirs>>
      BY <1>0, <1>2, <2>1 DEF TypeOK, Reply, Advance
    <3> QED
      BY <1>0, <3>1, Bystander
  <2>2. CASE d = c
    BY <1>0, <1>2, <2>2, RequestType, StoreAssumption DEF Knows, Blocked, Demanded, Mutates, Holding, Stage, TypeOK, Pending, Outcome, Reply, Advance
  <2> QED
    BY <2>1, <2>2
<1>3. ASSUME NEW c \in Client, Check(c) PROVE Knows(d)'
  <2>1. CASE d # c
    <3>1. pc'[d] = pc[d] /\ request'[d] = request[d] /\ out'[d] = out[d] /\ UNCHANGED <<files, dirs>>
      BY <1>0, <1>3, <2>1 DEF TypeOK, Check, HasLock, Advance, SettleHolding, Settle, Outcome
    <3> QED
      BY <1>0, <3>1, Bystander
  <2>2. CASE d = c
    <3>1. request'[c] \in Request /\ UNCHANGED <<files, dirs, request>>
      BY <1>0, <1>3, <2>2 DEF Check, HasLock, Knows
    <3>2. ASSUME NEW k \in {"error", "conflict"}, Settle(c, Outcome(k, {})) PROVE Knows(d)'
      BY <1>0, <2>2, <3>1, <3>2, Through
    <3>3. CASE /\ ~Blocked(request[c].path) /\ files[request[c].path] = Demanded(request[c])
               /\ UNCHANGED out
               /\ Advance(c, IF request[c].kind = "delete" THEN "unlink" ELSE "scan")
      <4>1. /\ pc[c] = "wait" /\ request[c] \in Request /\ Mutates(request[c])
            /\ out[c] = Pending
        BY <1>0, <1>3, <2>2 DEF Check, HasLock, Knows
      <4>2. pc'[c] = IF request[c].kind = "delete" THEN "unlink" ELSE "scan"
        BY <1>0, <3>3 DEF TypeOK, Advance
      <4> QED
        BY <2>2, <3>1, <3>3, <4>1, <4>2 DEF Knows, Blocked, Demanded, Mutates, Holding
    <3> QED
      BY <1>3, <3>2, <3>3 DEF Check, SettleHolding
  <2> QED
    BY <2>1, <2>2
<1>4. ASSUME NEW c \in Client, Scan(c) PROVE Knows(d)'
  <2>1. CASE d # c
    <3>1. pc'[d] = pc[d] /\ request'[d] = request[d] /\ out'[d] = out[d] /\ UNCHANGED <<files, dirs>>
      BY <1>0, <1>4, <2>1 DEF TypeOK, Scan, Advance, SettleHolding, Settle, Outcome
    <3> QED
      BY <1>0, <3>1, Bystander
  <2>2. CASE d = c
    <3>1. request'[c] \in Request /\ UNCHANGED <<files, dirs, request>>
      BY <1>0, <1>4, <2>2 DEF Scan, Knows
    <3>2. CASE Settle(c, Outcome("error", {}))
      BY <1>0, <2>2, <3>1, <3>2, Through
    <3>3. CASE Advance(c, "prepare") /\ UNCHANGED out
      <4>1. pc[c] = "scan" /\ pc'[c] = "prepare"
        BY <1>0, <1>4, <3>3 DEF TypeOK, Advance, Scan
      <4> QED
        BY <1>0, <2>2, <3>1, <3>3, <4>1 DEF Knows, Blocked, Demanded, Mutates, Holding
    <3> QED
      BY <1>4, <3>2, <3>3 DEF Scan, SettleHolding
  <2> QED
    BY <2>1, <2>2
<1>5. ASSUME NEW c \in Client, Prepare(c) PROVE Knows(d)'
  <2>1. CASE d # c
    <3>1. pc'[d] = pc[d] /\ request'[d] = request[d] /\ out'[d] = out[d]
      BY <1>0, <1>5, <2>1 DEF TypeOK, Prepare, Advance
    <3>2. pc[d] \notin Holding
      BY <1>0, <1>5, <2>1, Exclusive DEF Holding, Prepare, Advance
    <3> QED
      BY <1>0, <3>1, <3>2, Outsider
  <2>2. CASE d = c
    BY <1>0, <1>5, <2>2, RequestType, StoreAssumption DEF Knows, Blocked, Demanded, Mutates, Holding, Stage, TypeOK, Pending, Outcome, Prepare, Advance
  <2> QED
    BY <2>1, <2>2
<1>6. ASSUME NEW c \in Client, Rename(c) PROVE Knows(d)'
  <2>1. CASE d # c
    <3>1. pc'[d] = pc[d] /\ request'[d] = request[d] /\ out'[d] = out[d]
      BY <1>0, <1>6, <2>1 DEF TypeOK, Rename, Advance
    <3>2. pc[d] \notin Holding
      BY <1>0, <1>6, <2>1, Exclusive DEF Holding, Rename, Advance
    <3> QED
      BY <1>0, <3>1, <3>2, Outsider
  <2>2. CASE d = c
    BY <1>0, <1>6, <2>2, RequestType, StoreAssumption DEF Knows, Blocked, Demanded, Mutates, Holding, Stage, TypeOK, Pending, Outcome, Rename, Advance
  <2> QED
    BY <2>1, <2>2
<1>7. ASSUME NEW c \in Client, ReadBack(c) PROVE Knows(d)'
  <2>1. CASE d # c
    <3>1. pc'[d] = pc[d] /\ request'[d] = request[d] /\ out'[d] = out[d] /\ UNCHANGED <<files, dirs>>
      BY <1>0, <1>7, <2>1 DEF TypeOK, ReadBack, SettleHolding, Settle, Outcome
    <3> QED
      BY <1>0, <3>1, Bystander
  <2>2. CASE d = c
    BY <1>0, <1>7, <2>2, RequestType, StoreAssumption DEF Knows, Blocked, Demanded, Mutates, Holding, Stage, TypeOK, Pending, Outcome, ReadBack, SettleHolding, Settle, Outcome
  <2> QED
    BY <2>1, <2>2
<1>8. ASSUME NEW c \in Client, Unlink(c) PROVE Knows(d)'
  <2>1. CASE d # c
    <3>1. pc'[d] = pc[d] /\ request'[d] = request[d] /\ out'[d] = out[d]
      BY <1>0, <1>8, <2>1 DEF TypeOK, Unlink, SettleHolding, Settle, Outcome
    <3>2. pc[d] \notin Holding
      BY <1>0, <1>8, <2>1, Exclusive DEF Holding, Unlink, SettleHolding, Settle, Outcome
    <3> QED
      BY <1>0, <3>1, <3>2, Outsider
  <2>2. CASE d = c
    BY <1>0, <1>8, <2>2, RequestType, StoreAssumption DEF Knows, Blocked, Demanded, Mutates, Holding, Stage, TypeOK, Pending, Outcome, Unlink, SettleHolding, Settle, Outcome
  <2> QED
    BY <2>1, <2>2
<1>9. ASSUME NEW c \in Client, Fail(c) PROVE Knows(d)'
  <2>1. CASE d # c
    <3>1. pc'[d] = pc[d] /\ request'[d] = request[d] /\ out'[d] = out[d]
      BY <1>0, <1>9, <2>1 DEF TypeOK, Fail, SettleHolding, Settle, Outcome
    <3>2. pc[d] \notin Holding
      BY <1>0, <1>9, <2>1, Exclusive DEF Holding, Fail, SettleHolding, Settle, Outcome
    <3> QED
      BY <1>0, <3>1, <3>2, Outsider
  <2>2. CASE d = c
    <3>1. request'[c] \in Request
      BY <1>0, <1>9, <2>2 DEF Fail, HasLock, Knows, Holding
    <3> QED
      BY <1>0, <1>9, <2>2, <3>1, Through DEF Fail, SettleHolding
  <2> QED
    BY <2>1, <2>2
<1>10. ASSUME NEW c \in Client, Lstat(c) PROVE Knows(d)'
  <2>1. CASE d # c
    <3>1. pc'[d] = pc[d] /\ request'[d] = request[d] /\ out'[d] = out[d] /\ UNCHANGED <<files, dirs>>
      BY <1>0, <1>10, <2>1 DEF TypeOK, Lstat, Advance, Settle, Outcome
    <3> QED
      BY <1>0, <3>1, Bystander
  <2>2. CASE d = c
    <3>1. request'[c] \in Request /\ UNCHANGED <<files, dirs, request>>
      BY <1>0, <1>10, <2>2 DEF Lstat, Knows
    <3>2. ASSUME NEW k \in {"error", "missing"}, Settle(c, Outcome(k, {})) PROVE Knows(d)'
      BY <1>0, <2>2, <3>1, <3>2, Through
    <3>3. CASE Advance(c, "open") /\ UNCHANGED out
      <4>1. pc[c] = "lstat" /\ pc'[c] = "open"
        BY <1>0, <1>10, <3>3 DEF TypeOK, Advance, Lstat
      <4> QED
        BY <1>0, <2>2, <3>1, <3>3, <4>1 DEF Knows, Mutates, Holding
    <3> QED
      BY <1>10, <3>2, <3>3 DEF Lstat
  <2> QED
    BY <2>1, <2>2
<1>11. ASSUME NEW c \in Client, Open(c) PROVE Knows(d)'
  <2>1. CASE d # c
    <3>1. pc'[d] = pc[d] /\ request'[d] = request[d] /\ out'[d] = out[d] /\ UNCHANGED <<files, dirs>>
      BY <1>0, <1>11, <2>1 DEF TypeOK, Open, Settle, Outcome
    <3> QED
      BY <1>0, <3>1, Bystander
  <2>2. CASE d = c
    BY <1>0, <1>11, <2>2, RequestType, StoreAssumption DEF Knows, Blocked, Demanded, Mutates, Holding, Stage, TypeOK, Pending, Outcome, Open, Settle, Outcome
  <2> QED
    BY <2>1, <2>2
<1>12. ASSUME NEW c \in Client, ReadRoot(c) PROVE Knows(d)'
  <2>1. CASE d # c
    <3>1. pc'[d] = pc[d] /\ request'[d] = request[d] /\ out'[d] = out[d] /\ UNCHANGED <<files, dirs>>
      BY <1>0, <1>12, <2>1 DEF TypeOK, ReadRoot, Advance
    <3> QED
      BY <1>0, <3>1, Bystander
  <2>2. CASE d = c
    BY <1>0, <1>12, <2>2, RequestType, StoreAssumption DEF Knows, Blocked, Demanded, Mutates, Holding, Stage, TypeOK, Pending, Outcome, ReadRoot, Advance
  <2> QED
    BY <2>1, <2>2
<1>13. ASSUME NEW c \in Client, Visit(c) PROVE Knows(d)'
  <2>1. CASE d # c
    <3>1. pc'[d] = pc[d] /\ request'[d] = request[d] /\ out'[d] = out[d] /\ UNCHANGED <<files, dirs>>
      BY <1>0, <1>13, <2>1 DEF TypeOK, Visit
    <3> QED
      BY <1>0, <3>1, Bystander
  <2>2. CASE d = c
    BY <1>0, <1>13, <2>2, RequestType, StoreAssumption DEF Knows, Blocked, Demanded, Mutates, Holding, Stage, TypeOK, Pending, Outcome, Visit
  <2> QED
    BY <2>1, <2>2
<1>14. ASSUME NEW c \in Client, VisitFails(c) PROVE Knows(d)'
  <2>1. CASE d # c
    <3>1. pc'[d] = pc[d] /\ request'[d] = request[d] /\ out'[d] = out[d] /\ UNCHANGED <<files, dirs>>
      BY <1>0, <1>14, <2>1 DEF TypeOK, VisitFails, Settle, Outcome
    <3> QED
      BY <1>0, <3>1, Bystander
  <2>2. CASE d = c
    BY <1>0, <1>14, <2>2, RequestType, StoreAssumption DEF Knows, Blocked, Demanded, Mutates, Holding, Stage, TypeOK, Pending, Outcome, VisitFails, Settle, Outcome
  <2> QED
    BY <2>1, <2>2
<1>15. ASSUME NEW c \in Client, Listed(c) PROVE Knows(d)'
  <2>1. CASE d # c
    <3>1. pc'[d] = pc[d] /\ request'[d] = request[d] /\ out'[d] = out[d] /\ UNCHANGED <<files, dirs>>
      BY <1>0, <1>15, <2>1 DEF TypeOK, Listed, Settle, Outcome
    <3> QED
      BY <1>0, <3>1, Bystander
  <2>2. CASE d = c
    BY <1>0, <1>15, <2>2, RequestType, StoreAssumption DEF Knows, Blocked, Demanded, Mutates, Holding, Stage, TypeOK, Pending, Outcome, Listed, Settle, Outcome
  <2> QED
    BY <2>1, <2>2
<1>16. ASSUME Crash PROVE Knows(d)'
  BY <1>16 DEF Crash, Knows, Holding, Pending
<1> QED
  BY <1>1, <1>2, <1>3, <1>4, <1>5, <1>6, <1>7, <1>8, <1>9, <1>10, <1>11, <1>12, <1>13, <1>14, <1>15, <1>16
  DEF Next, Progress

\* A step that changes neither files nor directories keeps the tree.
LEMMA TreeKept ==
  ASSUME TreeShaped, UNCHANGED <<files, dirs>> PROVE TreeShaped'
BY DEF TreeShaped, Blocked

\* New directories above an unblocked path keep the tree.
LEMMA TreeGrown ==
  ASSUME TypeOK, TreeShaped, NEW p \in Path, ~Blocked(p), files' = files,
         dirs' = dirs \cup Above[p]
  PROVE  TreeShaped'
BY StoreAssumption DEF TreeShaped, Blocked, TypeOK

\* The files and directories form a tree, after every step.
LEMMA TreeStep ==
  ASSUME IInv, Next
  PROVE  TreeShaped'
<1>0. TypeOK /\ ChainOrder /\ Checked /\ TreeShaped
  BY DEF IInv
<1>1. ASSUME UNCHANGED <<files, dirs>> PROVE TreeShaped'
  BY <1>0, <1>1, TreeKept
<1>2. ASSUME NEW c \in Client, Prepare(c) \/ (Fail(c) /\ dirs' # dirs) PROVE TreeShaped'
  <2>1. /\ pc[c] = "prepare" /\ files' = files
        /\ dirs' = dirs \cup Above[request[c].path]
    BY <1>2 DEF Prepare, Fail
  <2>2. request[c].path \in Path /\ ~Blocked(request[c].path)
    BY <1>0, <2>1, RequestType DEF Checked, Knows, Holding
  <2> QED
    BY <1>0, <2>1, <2>2, TreeGrown
<1>3. ASSUME NEW c \in Client, Rename(c) PROVE TreeShaped'
  <2>1. /\ request[c].path \in Path /\ ~Blocked(request[c].path)
        /\ Above[request[c].path] \subseteq dirs
    BY <1>0, <1>3, RequestType DEF Checked, Knows, Rename
  <2>2. dirs' = dirs /\ \A p \in Path \ {request[c].path} : files'[p] = files[p]
    BY <1>0, <1>3 DEF TypeOK, Rename
  <2> QED
    BY <1>0, <2>1, <2>2, StoreAssumption DEF TreeShaped, Blocked
<1>4. ASSUME NEW c \in Client, Unlink(c) PROVE TreeShaped'
  <2>1. dirs' = dirs /\ \A p \in Path : files'[p] \in {files[p], Absent}
    BY <1>0, <1>4 DEF TypeOK, Unlink
  <2> QED
    BY <1>0, <2>1, StoreAssumption DEF TreeShaped, Blocked
<1>5. ASSUME NEW c \in Client, Fail(c), dirs' = dirs PROVE TreeShaped'
  BY <1>1, <1>5 DEF Fail
<1> QED
  BY <1>1, <1>2, <1>3, <1>4, <1>5
  DEF Next, Progress, Call, Reply, Check, Scan, ReadBack, Lstat, Open, ReadRoot, Visit,
      VisitFails, Listed, Crash

\* The invariant holds of an empty workspace.
LEMMA InitIInv == Init => IInv
<1> SUFFICES ASSUME Init PROVE IInv
  OBVIOUS
<1>1. TypeOK
  BY StoreAssumption DEF Init, TypeOK, Stage, Pending, Outcome
<1>2. ChainOrder
  BY DEF Init, ChainOrder, InChain, Holding
<1>3. Checked
  BY DEF Init, Checked, Knows, Holding, Pending, Outcome
<1>4. TreeShaped
  BY DEF Init, TreeShaped
<1> QED
  BY <1>1, <1>2, <1>3, <1>4 DEF IInv

\* The invariant is inductive.
LEMMA Inductive == IInv /\ [Next]_vars => IInv'
<1> SUFFICES ASSUME IInv, [Next]_vars PROVE IInv'
  OBVIOUS
<1>1. CASE Next
  BY <1>1, TypeStep, ChainStep, CheckedStep, TreeStep DEF IInv
<1>2. CASE UNCHANGED vars
  <2>1. TypeOK' /\ ChainOrder'
    BY <1>2 DEF IInv, vars, TypeOK, ChainOrder, InChain
  <2>2. Checked'
    BY <1>2, Bystander DEF IInv, vars, Checked
  <2>3. TreeShaped'
    BY <1>2, TreeKept DEF IInv, vars
  <2> QED
    BY <2>1, <2>2, <2>3 DEF IInv
<1> QED
  BY <1>1, <1>2

\* Every reachable state satisfies the invariant.
THEOREM Invariance == Spec => []IInv
  BY InitIInv, Inductive, PTL DEF Spec

\* At most one mutation is past `await previous` (withMutationLock).
THEOREM MutualExclusion == Spec => []OneMutation
<1>1. IInv => OneMutation
  BY Exclusive DEF IInv, OneMutation
<1> QED
  BY <1>1, Invariance, PTL

\* No sequence of writes and deletions makes a path a file and a directory.
THEOREM TreeStaysShaped == Spec => []TreeShaped
<1>1. IInv => TreeShaped
  BY DEF IInv
<1> QED
  BY <1>1, Invariance, PTL

\* What a step of request c that gives it stage s and outcome o amounts to.
LEMMA SettledSet ==
  ASSUME TypeOK, NEW c \in Client, NEW s, NEW o, s # "readback",
         pc' = [pc EXCEPT ![c] = s], out' = [out EXCEPT ![c] = o], UNCHANGED request
  PROVE  Settled' = [Settled EXCEPT ![c] = o]
BY DEF TypeOK, Settled

\* What a request is called with, and what it can have as outcome.
LEMMA StageFacts ==
  ASSUME IInv, NEW c \in Client
  PROVE  /\ pc[c] # "idle" => request[c] \in Request /\ request[c] # NoRequest
         /\ pc[c] = "idle" => request[c] = NoRequest
         /\ pc[c] \notin {"readback", "reply", "idle"} => Store!Called(c)
         /\ pc[c] # "readback" => Settled[c] = out[c]
         /\ pc[c] = "readback" => Settled[c] =
              Outcome("ok", {<<request[c].path, files[request[c].path]>>})
         /\ pc[c] = "reply" => out[c].kind # "none"
         /\ pc[c] \notin {"visit", "reply"} => out[c] = Pending
<1>1. Knows(c) /\ c \in Client
  BY DEF IInv, Checked
<1>2. pc[c] # "idle" => request[c] \in Request /\ request[c] # NoRequest
  BY <1>1, StoreAssumption DEF Knows
<1>3. /\ pc[c] = "idle" => request[c] = NoRequest
      /\ pc[c] = "reply" => out[c].kind # "none"
      /\ pc[c] = "visit" => out[c].kind = "none"
      /\ pc[c] \notin {"visit", "reply"} => out[c] = Pending
      /\ pc[c] = "readback" => files[request[c].path] = request[c].body
  BY <1>1 DEF Knows
<1>4. Settled[c] = IF pc[c] = "readback"
                   THEN Outcome("ok", {<<request[c].path, request[c].body>>}) ELSE out[c]
  BY DEF Settled
<1>5. Pending.kind = "none"
  BY DEF Pending, Outcome
<1>6. ASSUME pc[c] \notin {"readback", "reply", "idle"} PROVE Store!Called(c)
  BY <1>2, <1>3, <1>4, <1>5, <1>6 DEF Store!Called
<1> QED
  BY <1>2, <1>3, <1>4, <1>6

\* A step that ends with an error changes nothing else.
LEMMA ErrorStep ==
  ASSUME IInv, NEW c \in Client, pc[c] \notin {"readback", "reply", "idle"},
         Settle(c, Outcome("error", {})), UNCHANGED <<files, request>>
  PROVE  Store!Error(c)
<1>1. Settled' = [Settled EXCEPT ![c] = Outcome("error", {})]
  BY SettledSet DEF IInv, Settle
<1> QED
  BY <1>1, StageFacts DEF Store!Error, Store!Refused, Outcome

\* A step inside a request that neither changes files nor settles it is invisible.
LEMMA InnerStep ==
  ASSUME TypeOK, NEW c \in Client, NEW s, s # "readback", pc[c] # "readback",
         pc' = [pc EXCEPT ![c] = s], UNCHANGED <<files, request, out>>
  PROVE  UNCHANGED Store!vars
BY DEF TypeOK, Settled, Store!vars

\* Every step of the store is a step of WorkspaceCAS, or none.
LEMMA RefinementStep ==
  ASSUME IInv, [Next]_vars
  PROVE  [Store!Next]_(Store!vars)
<1>0. TypeOK /\ Checked
  BY DEF IInv
<1> DEFINE Done == [Store!Next]_(Store!vars)
<1>e. ASSUME NEW c \in Client, Store!Error(c) PROVE Done
  BY <1>e DEF Store!Next
<1>1. ASSUME NEW c \in Client, NEW q \in Request, Call(c, q) PROVE Done
  <2>1. request[c] = NoRequest /\ request' = [request EXCEPT ![c] = q] /\ files' = files
    BY <1>1, StageFacts DEF Call
  <2>2. out[c] = Pending
    BY <1>1, StageFacts DEF Call
  <2>3. out' = [out EXCEPT ![c] = Pending] \/ out' = [out EXCEPT ![c] = Outcome("error", {})]
    BY <1>0, <1>1, <2>2 DEF Call, Settle, TypeOK
  <2>4. pc'[c] # "readback" /\ \A d \in Client \ {c} : pc'[d] = pc[d] /\ request'[d] = request[d]
    BY <1>0, <1>1 DEF Call, Settle, Advance, TypeOK
  <2>5. \E o \in {Pending, Outcome("error", {})} : Settled' = [Settled EXCEPT ![c] = o]
    BY <1>0, <2>3, <2>4 DEF Settled, TypeOK
  <2>6. Store!Call(c, q)
    BY <2>1, <2>5 DEF Store!Call, Store!Pending, Store!Refused, Pending, Outcome
  <2> QED
    BY <2>6 DEF Store!Next
<1>2. ASSUME NEW c \in Client, Reply(c) PROVE Done
  <2>1. request[c] # NoRequest /\ Settled[c].kind # "none"
    BY <1>2, StageFacts DEF Reply
  <2>2. Settled' = [Settled EXCEPT ![c] = Pending]
    BY <1>0, <1>2 DEF Reply, Advance, Settled, TypeOK
  <2>3. Store!Answer(c)
    BY <1>2, <2>1, <2>2 DEF Store!Answer, Reply, Store!Pending, Pending, Outcome
  <2> QED
    BY <2>3 DEF Store!Next
<1>3. ASSUME NEW c \in Client, Check(c) PROVE Done
  <2>1. pc[c] = "wait" /\ Mutates(request[c]) /\ UNCHANGED <<files, request>>
    BY <1>0, <1>3 DEF Check, HasLock, Checked, Knows
  <2>2. CASE Settle(c, Outcome("error", {}))
    BY <1>e, <2>1, <2>2, ErrorStep
  <2>3. CASE files[request[c].path] # Demanded(request[c]) /\ Settle(c, Outcome("conflict", {}))
    <3>1. Settled' = [Settled EXCEPT ![c] = Outcome("conflict", {})]
      BY <1>0, <2>1, <2>3, SettledSet DEF Settle
    <3>2. Settled[c] = Pending /\ Store!Called(c)
      BY <2>1, StageFacts
    <3>3. Settled' = [Settled EXCEPT ![c].kind = "conflict"]
      <4>1. Settled[c] = [kind |-> "none", shown |-> {}]
        BY <3>2 DEF Pending, Outcome
      <4>2. [Settled[c] EXCEPT !.kind = "conflict"] = [kind |-> "conflict", shown |-> {}]
        BY <4>1
      <4> QED
        BY <3>1, <4>2 DEF Outcome
    <3>4. Store!Conflict(c)
      BY <2>1, <2>3, <3>2, <3>3 DEF Store!Conflict, Store!Demanded, Demanded, Store!Mutates, Mutates
    <3> QED
      BY <3>4 DEF Store!Next
  <2>4. ASSUME NEW s \in {"unlink", "scan"}, Advance(c, s), UNCHANGED out PROVE Done
    BY <1>0, <2>1, <2>4, InnerStep DEF Advance
  <2> QED
    BY <1>3, <2>2, <2>3, <2>4 DEF Check, SettleHolding
<1>4. ASSUME NEW c \in Client, Scan(c) PROVE Done
  <2>1. CASE Settle(c, Outcome("error", {}))
    BY <1>e, <1>4, <2>1, ErrorStep DEF Scan
  <2>2. CASE Advance(c, "prepare") /\ UNCHANGED out
    BY <1>0, <1>4, <2>2, InnerStep DEF Scan, Advance
  <2> QED
    BY <1>4, <2>1, <2>2 DEF Scan, SettleHolding
<1>5. ASSUME NEW c \in Client, Prepare(c) PROVE Done
  BY <1>0, <1>5, InnerStep DEF Prepare, Advance
<1>6. ASSUME NEW c \in Client, Rename(c) PROVE Done
  <2>1. /\ pc[c] = "rename" /\ Mutates(request[c]) /\ request[c].kind # "delete"
        /\ files[request[c].path] = Demanded(request[c])
    BY <1>0, <1>6 DEF Rename, Checked, Knows, Holding
  <2>2. Settled' = [Settled EXCEPT ![c] = Outcome("ok", {<<request[c].path, request[c].body>>})]
    BY <1>0, <1>6 DEF Rename, Advance, Settled, TypeOK
  <2>3. Store!Apply(c)
    BY <1>6, <2>1, <2>2, StageFacts
    DEF Store!Apply, Store!Demanded, Store!Mutates, Store!Result, Demanded, Mutates, Outcome, Rename
  <2> QED
    BY <2>3 DEF Store!Next
<1>7. ASSUME NEW c \in Client, ReadBack(c) PROVE Done
  <2>1. Settled[c] = Outcome("ok", {<<request[c].path, files[request[c].path]>>})
    BY <1>7, StageFacts DEF ReadBack
  <2>2. Settled' = [Settled EXCEPT ![c] = Settled[c]]
    BY <1>0, <1>7, <2>1, SettledSet DEF ReadBack, SettleHolding, Settle
  <2> QED
    BY <1>7, <2>2 DEF Settled, Store!vars, ReadBack
<1>8. ASSUME NEW c \in Client, Unlink(c) PROVE Done
  <2>1. /\ pc[c] = "unlink" /\ request[c].kind = "delete" /\ request[c].body = Absent
        /\ files[request[c].path] = Demanded(request[c])
    BY <1>0, <1>8, RequestType DEF Unlink, Checked, Knows, Holding
  <2>2. Settled' = [Settled EXCEPT ![c] = Outcome("ok", {})]
    BY <1>0, <1>8, SettledSet DEF Unlink, SettleHolding, Settle
  <2>3. Store!Apply(c)
    BY <1>8, <2>1, <2>2, StageFacts
    DEF Store!Apply, Store!Demanded, Store!Mutates, Store!Result, Demanded, Mutates, Outcome, Unlink
  <2> QED
    BY <2>3 DEF Store!Next
<1>9. ASSUME NEW c \in Client, Fail(c) PROVE Done
  <2>1. CASE pc[c] # "readback"
    BY <1>e, <1>9, <2>1, ErrorStep DEF Fail, SettleHolding, HasLock, Holding
  <2>2. CASE pc[c] = "readback"
    <3>1. Settled' = [Settled EXCEPT ![c] = Outcome("error", {})]
      BY <1>0, <1>9, SettledSet DEF Fail, SettleHolding, Settle
    <3>2. Settled[c].kind = "ok" /\ request[c] # NoRequest /\ Mutates(request[c])
      <4>1. Settled[c].kind = "ok" /\ request[c] # NoRequest
        <5>1. /\ request[c] # NoRequest
              /\ Settled[c] = Outcome("ok", {<<request[c].path, files[request[c].path]>>})
          BY <2>2, StageFacts
        <5> QED
          BY <5>1 DEF Outcome
      <4> QED
        BY <1>0, <2>2, <4>1 DEF Checked, Knows, Holding
    <3>3. Store!LoseResult(c)
      BY <1>9, <3>1, <3>2 DEF Store!LoseResult, Store!Refused, Outcome, Store!Mutates, Mutates, Fail
    <3> QED
      BY <3>3 DEF Store!Next
  <2> QED
    BY <2>1, <2>2
<1>10. ASSUME NEW c \in Client, Lstat(c) PROVE Done
  <2>1. pc[c] = "lstat" /\ UNCHANGED <<files, request>> /\ request[c].kind = "read"
    BY <1>0, <1>10 DEF Lstat, Checked, Knows
  <2>2. CASE Settle(c, Outcome("error", {}))
    BY <1>e, <2>1, <2>2, ErrorStep
  <2>3. CASE files[request[c].path] = Absent /\ Settle(c, Outcome("missing", {}))
    <3>1. Settled' = [Settled EXCEPT ![c] = Outcome("missing", {})]
      BY <1>0, <2>1, <2>3, SettledSet DEF Settle
    <3>2. Store!Read(c)
      BY <2>1, <2>3, <3>1, StageFacts DEF Store!Read, Outcome
    <3> QED
      BY <3>2 DEF Store!Next
  <2>4. CASE Advance(c, "open") /\ UNCHANGED out
    BY <1>0, <2>1, <2>4, InnerStep DEF Advance
  <2> QED
    BY <1>10, <2>2, <2>3, <2>4 DEF Lstat
<1>11. ASSUME NEW c \in Client, Open(c) PROVE Done
  <2>1. pc[c] = "open" /\ UNCHANGED <<files, request>> /\ request[c].kind = "read"
    BY <1>0, <1>11 DEF Open, Checked, Knows
  <2>2. CASE files[request[c].path] = Absent
    BY <1>e, <1>11, <2>1, <2>2, ErrorStep DEF Open
  <2>3. CASE files[request[c].path] # Absent
    <3>1. Settled' = [Settled EXCEPT ![c] =
                        Outcome("ok", {<<request[c].path, files[request[c].path]>>})]
      BY <1>0, <1>11, <2>1, <2>3, SettledSet DEF Settle, Open
    <3>2. Store!Read(c)
      BY <2>1, <2>3, <3>1, StageFacts DEF Store!Read, Outcome
    <3> QED
      BY <3>2 DEF Store!Next
  <2> QED
    BY <2>2, <2>3
<1>12. ASSUME NEW c \in Client, ReadRoot(c) PROVE Done
  BY <1>0, <1>12, InnerStep DEF ReadRoot, Advance
<1>13. ASSUME NEW c \in Client, Visit(c) PROVE Done
  <2>1. pc[c] = "visit" /\ UNCHANGED <<files, request, pc>> /\ request[c].kind = "list"
    BY <1>0, <1>13 DEF Visit, Checked, Knows
  <2>2. CASE UNCHANGED out
    BY <2>1, <2>2 DEF Settled, Store!vars
  <2>3. ASSUME NEW p \in Path, files[p] # Absent,
               out' = [out EXCEPT ![c].shown = out[c].shown \cup {<<p, files[p]>>}]
        PROVE  Done
    <3>1. Settled' = [Settled EXCEPT ![c].shown = @ \cup {<<p, files[p]>>}]
      BY <1>0, <2>1, <2>3 DEF Settled, TypeOK
    <3>2. Store!Visit(c)
      BY <2>1, <2>3, <3>1, StageFacts DEF Store!Visit
    <3> QED
      BY <3>2 DEF Store!Next
  <2> QED
    BY <1>0, <1>13, <2>2, <2>3 DEF Visit, TypeOK
<1>14. ASSUME NEW c \in Client, VisitFails(c) PROVE Done
  BY <1>e, <1>14, ErrorStep DEF VisitFails
<1>15. ASSUME NEW c \in Client, Listed(c) PROVE Done
  <2>1. pc[c] = "visit" /\ UNCHANGED <<files, request>> /\ request[c].kind = "list"
    BY <1>0, <1>15 DEF Listed, Checked, Knows
  <2>2. Settled' = [Settled EXCEPT ![c] = Outcome("ok", out[c].shown)]
    BY <1>0, <1>15, SettledSet DEF Settle, Listed
  <2>3. Settled[c] = out[c] /\ out[c] = [kind |-> out[c].kind, shown |-> out[c].shown]
    BY <1>0, <2>1, StageFacts DEF TypeOK
  <2>4. Settled' = [Settled EXCEPT ![c].kind = "ok"]
    BY <2>2, <2>3 DEF Outcome, Settled
  <2>5. Store!Listed(c)
    BY <2>1, <2>4, StageFacts DEF Store!Listed
  <2> QED
    BY <2>5 DEF Store!Next
<1>16. ASSUME Crash PROVE Done
  <2>1. Settled' = [c \in Client |-> Pending]
    BY <1>16 DEF Crash, Settled
  <2>2. Store!Crash
    BY <1>16, <2>1 DEF Crash, Store!Crash, Store!Pending, Pending, Outcome
  <2> QED
    BY <2>2 DEF Store!Next
<1>17. CASE UNCHANGED vars
  BY <1>17 DEF vars, Store!vars, Settled
<1> QED
  BY <1>1, <1>2, <1>3, <1>4, <1>5, <1>6, <1>7, <1>8, <1>9, <1>10, <1>11, <1>12,
     <1>13, <1>14, <1>15, <1>16, <1>17
  DEF Next, Progress

\* The store implements conditional requests that are atomic (write, delete, read).
THEOREM StoreImplementsCAS == Spec => ImplementsCAS
<1>1. Init => Store!Init
  BY DEF Init, Store!Init, Settled, Store!Pending, Pending, Outcome
<1>2. IInv /\ [Next]_vars => [Store!Next]_(Store!vars)
  BY RefinementStep
<1> QED
  BY <1>1, <1>2, Invariance, PTL DEF Spec, ImplementsCAS, Store!Spec

-----------------------------------------------------------------------------
(* The bytes of a set of entries: Bytes folds it in the order of CHOOSE, and *)
(* adds up the same in any order.                                            *)

\* A nonempty family of subsets of a finite set has one from which no element
\* can be taken without leaving the family.
LEMMA Minimal ==
  ASSUME NEW U, IsFiniteSet(U), NEW B, B \subseteq SUBSET U, B # {}
  PROVE  \E X \in B : \A e \in X : X \ {e} \notin B
<1>1. B \subseteq FiniteSubsetsOf(U)
  BY FS_FiniteSubsetsOfFinite
<1>2. PICK X \in B : \A Y \in B : <<Y, X>> \notin StrictSubsetOrdering(U)
  BY <1>1, FS_StrictSubsetOrderingWellFounded, WFMin, Zenon
<1> QED
  BY <1>1, <1>2 DEF StrictSubsetOrdering

\* The entry FoldSet takes next, and its size.
Pick(T)  == CHOOSE e \in T : TRUE
Weigh(e) == Size[e[2]]

\* g adds up the sizes of every subset of S as FoldSet does.
Adds(g, S) ==
  g = [T \in SUBSET S |-> IF T = {} THEN 0 ELSE g[T \ {Pick(T)}] + Weigh(Pick(T))]

\* What it does for each of them.
LEMMA AddsEach ==
  ASSUME NEW S, NEW g, Adds(g, S), NEW T \in SUBSET S
  PROVE  g[T] = IF T = {} THEN 0 ELSE g[T \ {Pick(T)}] + Weigh(Pick(T))
  BY Zenon DEF Adds

\* It is one of them.
LEMMA PickIn ==
  ASSUME NEW T, T # {}
  PROVE  Pick(T) \in T
  BY DEF Pick

\* Two such functions agree where both are defined.
LEMMA AddsUnique ==
  ASSUME NEW S, NEW R, NEW g, NEW h, Adds(g, S), Adds(h, R),
         NEW T, IsFiniteSet(T), T \subseteq S, T \subseteq R
  PROVE  g[T] = h[T]
<1> DEFINE bad == {X \in SUBSET T : g[X] # h[X]}
<1> SUFFICES ASSUME bad # {} PROVE FALSE
  OBVIOUS
<1>1. PICK X \in bad : \A e \in X : X \ {e} \notin bad
  <2> bad \subseteq SUBSET T
    OBVIOUS
  <2> HIDE DEF bad
  <2> QED
    BY Minimal
<1>2. g[X] = IF X = {} THEN 0 ELSE g[X \ {Pick(X)}] + Weigh(Pick(X))
  BY AddsEach
<1>3. h[X] = IF X = {} THEN 0 ELSE h[X \ {Pick(X)}] + Weigh(Pick(X))
  BY AddsEach
<1>4. X # {} => g[X \ {Pick(X)}] = h[X \ {Pick(X)}]
  BY <1>1, PickIn
<1> QED
  BY <1>2, <1>3, <1>4

\* There is such a function for every finite set.
LEMMA AddsExists ==
  ASSUME NEW U, IsFiniteSet(U)
  PROVE  \E g : Adds(g, U)
<1> DEFINE bad == {X \in SUBSET U : ~\E g : Adds(g, X)}
<1> SUFFICES ASSUME bad # {} PROVE FALSE
  OBVIOUS
<1>1. PICK S \in bad : \A e \in S : S \ {e} \notin bad
  <2> bad \subseteq SUBSET U
    OBVIOUS
  <2> HIDE DEF bad
  <2> QED
    BY Minimal
<1>2. S \in SUBSET U /\ \A e \in S : \E g : Adds(g, S \ {e})
  BY <1>1
<1> DEFINE part(e) == CHOOSE g : Adds(g, S \ {e})
           less(T) == part(Pick(S \ T))[T]
           g == [T \in SUBSET S |->
                   IF T # S THEN less(T)
                   ELSE IF S = {} THEN 0 ELSE less(S \ {Pick(S)}) + Weigh(Pick(S))]
<1>3. \A e \in S : Adds(part(e), S \ {e})
  BY <1>2
<1>4. ASSUME NEW T \in SUBSET S, NEW e \in S, e \notin T
      PROVE  less(T) = part(e)[T]
  <2>1. Pick(S \ T) \in S \ T
    BY <1>4, PickIn
  <2>2. Adds(part(e), S \ {e}) /\ Adds(part(Pick(S \ T)), S \ {Pick(S \ T)})
    BY <1>3, <2>1
  <2>3. IsFiniteSet(T) /\ T \subseteq S \ {e} /\ T \subseteq S \ {Pick(S \ T)}
    BY <1>2, <1>4, <2>1, FS_Subset
  <2>4. PICK p, q : p = part(e) /\ q = part(Pick(S \ T))
    OBVIOUS
  <2>5. PICK a, b : a = S \ {e} /\ b = S \ {Pick(S \ T)}
    OBVIOUS
  <2>6. Adds(p, a) /\ Adds(q, b) /\ T \subseteq a /\ T \subseteq b
    BY <2>2, <2>3, <2>4, <2>5
  <2>7. p[T] = q[T]
    BY <2>3, <2>6, AddsUnique
  <2> QED
    BY <2>4, <2>7
<1>5. ASSUME NEW T \in SUBSET S, T # S
      PROVE  g[T] = IF T = {} THEN 0 ELSE g[T \ {Pick(T)}] + Weigh(Pick(T))
  <2>1. PICK e \in S : e \notin T
    BY <1>5
  <2>2. g[T] = part(e)[T]
    BY <1>4, <1>5, <2>1
  <2>3. T # {} => T \ {Pick(T)} \in SUBSET S /\ T \ {Pick(T)} # S /\ e \notin T \ {Pick(T)}
    BY <1>5, <2>1
  <2>4. T # {} => g[T \ {Pick(T)}] = part(e)[T \ {Pick(T)}]
    BY <1>4, <2>3
  <2>5. part(e)[T] = IF T = {} THEN 0 ELSE part(e)[T \ {Pick(T)}] + Weigh(Pick(T))
    <3>1. T \in SUBSET (S \ {e})
      BY <2>1
    <3>2. PICK p : p = part(e)
      OBVIOUS
    <3>3. Adds(p, S \ {e})
      BY <1>3, <3>2
    <3>4. p[T] = IF T = {} THEN 0 ELSE p[T \ {Pick(T)}] + Weigh(Pick(T))
      BY <3>1, <3>3, AddsEach
    <3> QED
      BY <3>2, <3>4
  <2> HIDE DEF g, part
  <2> QED
    BY <2>2, <2>4, <2>5
<1>6. g[S] = IF S = {} THEN 0 ELSE g[S \ {Pick(S)}] + Weigh(Pick(S))
  <2>1. S # {} => S \ {Pick(S)} \in SUBSET S /\ S \ {Pick(S)} # S
    BY PickIn
  <2> HIDE DEF less
  <2> QED
    BY <2>1
<1>7. \A T \in SUBSET S : g[T] = IF T = {} THEN 0 ELSE g[T \ {Pick(T)}] + Weigh(Pick(T))
  <2> HIDE DEF g
  <2> QED
    BY <1>5, <1>6
<1>8. Adds(g, S)
  <2>1. g = [T \in SUBSET S |-> g[T]]
    OBVIOUS
  <2> HIDE DEF g
  <2> QED
    BY <1>7, <2>1, Zenon DEF Adds
<1> QED
  BY <1>1, <1>8

\* A path and what its file holds.
Entry == Path \X Content

\* Bytes is such a function, at its own set.
LEMMA BytesAdds ==
  ASSUME NEW S, IsFiniteSet(S)
  PROVE  \E g : Adds(g, S) /\ Bytes(S) = g[S]
<1>1. PICK h : Adds(h, S)
  BY AddsExists
<1> DEFINE g == CHOOSE g : g = [T \in SUBSET S |->
                  IF T = {} THEN 0
                  ELSE g[T \ {CHOOSE e \in T : TRUE}] + Size[(CHOOSE e \in T : TRUE)[2]]]
<1>2. Bytes(S) = g[S]
  BY DEF Bytes, FoldSet, MapThenFoldSet
<1>3. Adds(g, S)
  BY <1>1, Zenon DEF Adds, Pick, Weigh
<1> QED
  BY <1>2, <1>3

\* No entries, no bytes.
LEMMA BytesNone == Bytes({}) = 0
<1>1. IsFiniteSet({})
  BY FS_EmptySet
<1>2. PICK g : Adds(g, {}) /\ Bytes({}) = g[{}]
  BY <1>1, BytesAdds
<1>3. {} \in SUBSET {}
  OBVIOUS
<1> QED
  BY <1>2, <1>3, AddsEach

\* FoldSet's step.
LEMMA BytesPick ==
  ASSUME NEW S, IsFiniteSet(S), S # {}
  PROVE  Bytes(S) = Bytes(S \ {Pick(S)}) + Weigh(Pick(S))
<1>1. PICK g : Adds(g, S) /\ Bytes(S) = g[S]
  BY BytesAdds
<1>2. PICK R : R = S \ {Pick(S)}
  OBVIOUS
<1>3. IsFiniteSet(R) /\ R \subseteq S
  BY <1>2, FS_Subset
<1>4. PICK h : Adds(h, R) /\ Bytes(R) = h[R]
  BY <1>3, BytesAdds
<1>5. g[R] = h[R]
  BY <1>1, <1>3, <1>4, AddsUnique
<1>6. S \in SUBSET S
  OBVIOUS
<1>7. g[S] = g[S \ {Pick(S)}] + Weigh(Pick(S))
  BY <1>1, <1>6, AddsEach
<1> QED
  BY <1>1, <1>2, <1>4, <1>5, <1>7

\* A size is a number.
LEMMA WeighType ==
  ASSUME NEW e \in Entry
  PROVE  Weigh(e) \in Nat
  BY StoreAssumption DEF Entry, Weigh

\* The bytes of finitely many entries are a number.
LEMMA BytesType ==
  ASSUME NEW S \in SUBSET Entry, IsFiniteSet(S)
  PROVE  Bytes(S) \in Nat
<1> DEFINE bad == {X \in SUBSET S : Bytes(X) \notin Nat}
<1> SUFFICES ASSUME bad # {} PROVE FALSE
  OBVIOUS
<1>1. PICK X \in bad : \A e \in X : X \ {e} \notin bad
  <2> bad \subseteq SUBSET S
    OBVIOUS
  <2> HIDE DEF bad
  <2> QED
    BY Minimal
<1>2. X \subseteq S /\ IsFiniteSet(X) /\ Bytes(X) \notin Nat
  BY FS_Subset
<1>3. X # {}
  BY <1>2, BytesNone
<1>4. PICK e : e = Pick(X)
  OBVIOUS
<1>5. e \in X /\ e \in Entry
  BY <1>2, <1>3, <1>4, PickIn
<1>6. Bytes(X \ {e}) \in Nat
  BY <1>1, <1>5
<1>7. Bytes(X) = Bytes(X \ {e}) + Weigh(e)
  BY <1>2, <1>3, <1>4, BytesPick
<1> QED
  BY <1>2, <1>5, <1>6, <1>7, WeighType

\* Any entry may be taken out.
LEMMA BytesLess ==
  ASSUME NEW U \in SUBSET Entry, IsFiniteSet(U)
  PROVE  \A x \in U : Bytes(U) = Bytes(U \ {x}) + Weigh(x)
<1> DEFINE right(X) == \A x \in X : Bytes(X) = Bytes(X \ {x}) + Weigh(x)
           bad == {X \in SUBSET U : ~right(X)}
<1> SUFFICES ASSUME bad # {} PROVE FALSE
  OBVIOUS
<1>1. PICK X \in bad : \A e \in X : X \ {e} \notin bad
  <2> bad \subseteq SUBSET U
    OBVIOUS
  <2> HIDE DEF bad
  <2> QED
    BY Minimal
<1>2. X \in SUBSET Entry /\ IsFiniteSet(X) /\ X \subseteq U
  BY FS_Subset
<1>3. PICK x \in X : Bytes(X) # Bytes(X \ {x}) + Weigh(x)
  OBVIOUS
<1>4. PICK p : p = Pick(X)
  OBVIOUS
<1>5. p \in X /\ Bytes(X) = Bytes(X \ {p}) + Weigh(p)
  BY <1>2, <1>3, <1>4, BytesPick, PickIn
<1>6. p # x
  BY <1>3, <1>5
<1>7. PICK A, B, C : A = X \ {p} /\ B = X \ {x} /\ C = X \ {p, x}
  OBVIOUS
<1>8. A \ {x} = C /\ B \ {p} = C /\ x \in A /\ p \in B
  BY <1>5, <1>6, <1>7
<1>9. right(A) /\ right(B)
  BY <1>1, <1>2, <1>3, <1>5, <1>7
<1>10. Bytes(A) = Bytes(C) + Weigh(x) /\ Bytes(B) = Bytes(C) + Weigh(p)
  BY <1>8, <1>9
<1>11. Bytes(C) \in Nat
  BY <1>2, <1>7, FS_Subset, BytesType
<1>12. Weigh(x) \in Nat /\ Weigh(p) \in Nat
  BY <1>2, <1>5, WeighType
<1>13. Bytes(X) = Bytes(A) + Weigh(p) /\ Bytes(X) # Bytes(B) + Weigh(x)
  BY <1>3, <1>5, <1>7
<1> HIDE DEF right, bad
<1> QED
  BY <1>10, <1>11, <1>12, <1>13

-----------------------------------------------------------------------------
(* WithinLimits: the files are finitely many, what a write was checked       *)
(* against is still so when it renames, and a content too large never gets   *)
(* to the lock.                                                              *)

\* A request before its rename.
Passed(c) ==
  /\ pc[c] = "wait" \/ pc[c] \in Holding =>
       request[c].body = Absent \/ Size[request[c].body] <= MaxFileBytes
  /\ pc[c] \in {"prepare", "rename"} => ~OverLimits(request[c])

LimitInv == IsFiniteSet(Present) /\ WithinLimits /\ \A c \in Client : Passed(c)

\* The entries of the files.
LEMMA StoredType ==
  ASSUME TypeOK, IsFiniteSet(Present)
  PROVE  Stored \in SUBSET Entry /\ IsFiniteSet(Stored) /\ Bytes(Stored) \in Nat
<1>1. Stored \in SUBSET Entry
  BY DEF Stored, Present, Entry, TypeOK
<1> DEFINE f == [p \in Present |-> <<p, files[p]>>]
<1>2. f \in Surjection(Present, Stored)
  BY DEF Surjection, Stored
<1>3. IsFiniteSet(Stored)
  BY <1>2, FS_Surjection
<1> QED
  BY <1>1, <1>3, BytesType

\* The entries but for that of p.
Rest(p) == {<<q, files[q]>> : q \in Present \ {p}}

\* They are less by the size of p's content, if it has one.
LEMMA StoredWithout ==
  ASSUME TypeOK, IsFiniteSet(Present), NEW p \in Path
  PROVE  /\ Rest(p) \in SUBSET Entry /\ IsFiniteSet(Rest(p)) /\ Bytes(Rest(p)) \in Nat
         /\ Bytes(Stored) - (IF files[p] = Absent THEN 0 ELSE Size[files[p]]) = Bytes(Rest(p))
         /\ Bytes(Rest(p)) <= Bytes(Stored)
<1>0. PICK rest : rest = Rest(p)
  OBVIOUS
<1>1. Stored \in SUBSET Entry /\ IsFiniteSet(Stored) /\ Bytes(Stored) \in Nat
  BY StoredType
<1>2. rest \subseteq Stored
  BY <1>0 DEF Stored, Rest
<1>3. rest \in SUBSET Entry /\ IsFiniteSet(rest) /\ Bytes(rest) \in Nat
  BY <1>1, <1>2, FS_Subset, BytesType
<1>4. CASE files[p] = Absent
  <2>1. Present \ {p} = Present
    BY <1>4 DEF Present
  <2>2. rest = Stored
    BY <1>0, <2>1 DEF Stored, Rest
  <2> QED
    BY <1>0, <1>1, <1>3, <1>4, <2>2
<1>5. CASE files[p] # Absent
  <2>1. PICK x : x = <<p, files[p]>>
    OBVIOUS
  <2>2. x \in Stored /\ Stored \ {x} = rest
    BY <1>0, <1>5, <2>1 DEF Stored, Present, Rest
  <2>3. Weigh(x) = Size[files[p]] /\ x \in Entry
    BY <1>1, <2>1, <2>2 DEF Weigh
  <2>4. Weigh(x) \in Nat
    BY <2>3, WeighType
  <2>5. Bytes(Stored) = Bytes(rest) + Weigh(x)
    BY <1>1, <2>2, BytesLess
  <2> QED
    BY <1>0, <1>1, <1>3, <1>5, <2>3, <2>4, <2>5
<1> QED
  BY <1>4, <1>5

\* A file is written: by as much more as it is larger.
LEMMA WriteKeeps ==
  ASSUME TypeOK, IsFiniteSet(Present), NEW p \in Path, NEW b \in Content,
         files' = [files EXCEPT ![p] = b]
  PROVE  /\ IsFiniteSet(Present')
         /\ Cardinality(Present') = Cardinality(Present) + (IF files[p] = Absent THEN 1 ELSE 0)
         /\ Cardinality(Present) \in Nat
         /\ Bytes(Stored') = Bytes(Stored) - (IF files[p] = Absent THEN 0 ELSE Size[files[p]])
                             + Size[b]
         /\ \A q \in Present' : q = p \/ (q \in Present /\ files'[q] = files[q])
<1>0. PICK rest : rest = Rest(p)
  OBVIOUS
<1>1. /\ rest \in SUBSET Entry /\ IsFiniteSet(rest) /\ Bytes(rest) \in Nat
      /\ Bytes(Stored) - (IF files[p] = Absent THEN 0 ELSE Size[files[p]]) = Bytes(rest)
  BY <1>0, StoredWithout
<1>2. files'[p] = b /\ \A q \in Path : q # p => files'[q] = files[q]
  BY DEF TypeOK
<1>3. Present' = Present \cup {p}
  BY <1>2, StoreAssumption DEF Present
<1>4. p \in Present <=> files[p] # Absent
  BY DEF Present
<1>5. /\ IsFiniteSet(Present') /\ Cardinality(Present) \in Nat
      /\ Cardinality(Present') = Cardinality(Present) + (IF files[p] = Absent THEN 1 ELSE 0)
  BY <1>3, <1>4, FS_AddElement, FS_CardinalityType
<1>6. PICK x : x = <<p, b>>
  OBVIOUS
<1>7. Stored' = rest \cup {x}
  BY <1>0, <1>2, <1>3, <1>6 DEF Stored, Present, Rest
<1>8. x \notin rest
  BY <1>0, <1>6 DEF Rest
<1>9. x \in Entry /\ Weigh(x) = Size[b]
  BY <1>6 DEF Entry, Weigh
<1>10. Bytes(Stored') = Bytes(rest) + Weigh(x)
  <2>1. PICK U : U = rest \cup {x}
    OBVIOUS
  <2>2. U \in SUBSET Entry /\ IsFiniteSet(U) /\ x \in U /\ U \ {x} = rest
    BY <1>1, <1>8, <1>9, <2>1, FS_AddElement
  <2>3. Bytes(U) = Bytes(U \ {x}) + Weigh(x)
    BY <2>2, BytesLess
  <2> QED
    BY <1>7, <2>1, <2>2, <2>3
<1>11. \A q \in Present' : q = p \/ (q \in Present /\ files'[q] = files[q])
  BY <1>2, <1>3 DEF Present
<1>12. Bytes(Stored') = Bytes(Stored) - (IF files[p] = Absent THEN 0 ELSE Size[files[p]])
                         + Size[b]
  BY <1>1, <1>9, <1>10
<1> QED
  BY <1>5, <1>11, <1>12

\* A file is deleted.
LEMMA DeleteKeeps ==
  ASSUME TypeOK, IsFiniteSet(Present), WithinLimits, NEW p \in Path,
         files' = [files EXCEPT ![p] = Absent]
  PROVE  IsFiniteSet(Present') /\ WithinLimits'
<1>0. PICK rest : rest = Rest(p)
  OBVIOUS
<1>1. Bytes(rest) \in Nat /\ Bytes(rest) <= Bytes(Stored) /\ Bytes(Stored) \in Nat
  BY <1>0, StoredWithout, StoredType
<1>2. files'[p] = Absent /\ \A q \in Path : q # p => files'[q] = files[q]
  BY DEF TypeOK
<1>3. Present' = Present \ {p}
  BY <1>2 DEF Present
<1>4. Stored' = rest
  BY <1>0, <1>2, <1>3 DEF Stored, Present, Rest
<1>5. IsFiniteSet(Present') /\ Cardinality(Present') <= Cardinality(Present)
  BY <1>3, FS_Subset
<1>6. Cardinality(Present) \in Nat /\ Cardinality(Present') \in Nat
  BY <1>5, FS_CardinalityType
<1>7. Cardinality(Present') <= MaxEntries
  BY <1>5, <1>6, StoreAssumption DEF WithinLimits
<1>8. Bytes(Stored') <= MaxBytes
  BY <1>1, <1>4, StoreAssumption DEF WithinLimits
<1>9. \A q \in Present' : Size[files'[q]] <= MaxFileBytes
  BY <1>2, <1>3 DEF WithinLimits, Present
<1> QED
  BY <1>5, <1>7, <1>8, <1>9 DEF WithinLimits

\* A request that does not move has passed what it had, unless the disk changes
\* under one that holds the lock.
LEMMA PassedKept ==
  ASSUME NEW d \in Client, Passed(d), pc'[d] = pc[d], request'[d] = request[d],
         files' = files \/ pc[d] \notin Holding
  PROVE  Passed(d)'
<1>1. CASE files' = files
  BY <1>1 DEF Passed, OverLimits, Present, Stored
<1>2. CASE pc[d] \notin Holding
  BY <1>2 DEF Passed, Holding
<1> QED
  BY <1>1, <1>2

\* Nor has one that is not, or no more, before its rename.
LEMMA PassedOutside ==
  ASSUME NEW d \in Client, pc'[d] \notin Holding \cup {"wait"}
  PROVE  Passed(d)'
BY DEF Passed, Holding

\* A request that goes on leaves the files, and has been checked when it gets there.
LEMMA PassedOn ==
  ASSUME NEW c \in Client, Passed(c), request' = request, files' = files,
         pc[c] \in Holding \cup {"wait"},
         pc'[c] \in {"prepare", "rename"} => ~OverLimits(request[c])
  PROVE  Passed(c)'
<1>1. request[c].body = Absent \/ Size[request[c].body] <= MaxFileBytes
  BY DEF Passed
<1>2. pc'[c] \in {"prepare", "rename"} => ~OverLimits(request[c])'
  BY DEF OverLimits, Present, Stored
<1> QED
  BY <1>1, <1>2 DEF Passed

\* What each step of request c does to c.
LEMMA PassedMoves ==
  ASSUME IInv, LimitInv, NEW c \in Client, Progress(c) \/ \E q \in Request : Call(c, q)
  PROVE  Passed(c)'
<1> USE DEF Advance
<1>0. TypeOK /\ Passed(c)
  BY DEF IInv, LimitInv
<1>1. CASE \E q \in Request : Call(c, q)
  <2>1. PICK q \in Request : Call(c, q)
    BY <1>1
  <2>2. request'[c] = q
    BY <1>0, <2>1 DEF Call, TypeOK
  <2>3. \/ pc'[c] \in {"lstat", "readdir", "reply"}
        \/ pc'[c] = "wait" /\ (q.body = Absent \/ ~(Size[q.body] > MaxFileBytes))
    BY <1>0, <2>1 DEF Call, TypeOK, Settle
  <2>4. CASE pc'[c] \in {"lstat", "readdir", "reply"}
    BY <2>4, PassedOutside DEF Holding
  <2>5. CASE pc'[c] = "wait" /\ (q.body = Absent \/ ~(Size[q.body] > MaxFileBytes))
    <3>1. q.body = Absent \/ Size[q.body] <= MaxFileBytes
      BY <2>5, StoreAssumption DEF RequestShape
    <3> QED
      BY <2>2, <2>5, <3>1 DEF Passed, Holding
  <2> QED
    BY <2>3, <2>4, <2>5
<1>2. CASE Check(c)
  <2>1. pc'[c] \in {"reply", "unlink", "scan"} /\ request' = request /\ files' = files
    BY <1>0, <1>2 DEF Check, SettleHolding, Settle, TypeOK
  <2>2. pc[c] = "wait"
    BY <1>2 DEF Check, HasLock
  <2> QED
    BY <1>0, <2>1, <2>2, PassedOn
<1>3. CASE Scan(c)
  <2>1. /\ request' = request /\ files' = files /\ pc[c] = "scan"
        /\ pc'[c] \in {"reply", "prepare"} /\ (pc'[c] = "prepare" => ~OverLimits(request[c]))
    BY <1>0, <1>3 DEF Scan, SettleHolding, Settle, TypeOK
  <2> QED
    BY <1>0, <2>1, PassedOn DEF Holding
<1>4. CASE Prepare(c)
  <2>1. request' = request /\ files' = files /\ pc[c] = "prepare"
    BY <1>4 DEF Prepare
  <2>2. ~OverLimits(request[c])
    BY <1>0, <2>1 DEF Passed
  <2> QED
    BY <1>0, <2>1, <2>2, PassedOn DEF Holding
<1>5. CASE Rename(c)
  <2>1. /\ pc'[c] = "readback" /\ request' = request
        /\ request[c].body = Absent \/ Size[request[c].body] <= MaxFileBytes
    BY <1>0, <1>5 DEF Rename, TypeOK, Passed, Holding
  <2> QED
    BY <2>1 DEF Passed
<1>6. CASE ReadBack(c) \/ Unlink(c) \/ Fail(c) \/ Open(c) \/ VisitFails(c) \/ Listed(c)
  <2>1. pc'[c] = "reply"
    BY <1>0, <1>6
       DEF ReadBack, Unlink, Fail, Open, VisitFails, Listed, SettleHolding, Settle, TypeOK
  <2> QED
    BY <2>1, PassedOutside DEF Holding
<1>7. CASE Lstat(c) \/ ReadRoot(c) \/ Visit(c) \/ Reply(c)
  <2>1. pc'[c] \in {"reply", "open", "visit", "idle"}
    BY <1>0, <1>7 DEF Lstat, ReadRoot, Visit, Reply, Settle, TypeOK
  <2> QED
    BY <2>1, PassedOutside DEF Holding
<1> QED
  BY <1>1, <1>2, <1>3, <1>4, <1>5, <1>6, <1>7 DEF Progress

\* A request stays where it is while another one makes a step, and that one
\* changes the files only if it alone holds the lock.
LEMMA PassedElsewhere ==
  ASSUME IInv, LimitInv, NEW c \in Client, NEW d \in Client, d # c,
         Progress(c) \/ \E q \in Request : Call(c, q)
  PROVE  Passed(d)'
<1>0. TypeOK /\ ChainOrder /\ Passed(d)
  BY DEF IInv, LimitInv
<1>1. CASE \E q \in Request : Call(c, q)
  <2>1. pc'[d] = pc[d] /\ request'[d] = request[d] /\ files' = files
    BY <1>0, <1>1 DEF Call, TypeOK, Advance, Settle
  <2> QED
    BY <1>0, <2>1, PassedKept
<1>2. CASE Check(c) \/ Scan(c) \/ Prepare(c) \/ ReadBack(c) \/ Fail(c)
  <2>1. pc'[d] = pc[d] /\ request'[d] = request[d] /\ files' = files
    BY <1>0, <1>2
       DEF Check, Scan, Prepare, ReadBack, Fail, TypeOK, Advance, Settle, SettleHolding
  <2> QED
    BY <1>0, <2>1, PassedKept
<1>3. CASE Lstat(c) \/ Open(c) \/ ReadRoot(c) \/ Visit(c) \/ VisitFails(c) \/ Listed(c)
           \/ Reply(c)
  <2>1. pc'[d] = pc[d] /\ request'[d] = request[d] /\ files' = files
    BY <1>0, <1>3
       DEF Lstat, Open, ReadRoot, Visit, VisitFails, Listed, Reply, TypeOK, Advance, Settle
  <2> QED
    BY <1>0, <2>1, PassedKept
<1>4. CASE Rename(c) \/ Unlink(c)
  <2>1. pc'[d] = pc[d] /\ request'[d] = request[d] /\ pc[c] \in Holding
    BY <1>0, <1>4
       DEF Rename, Unlink, TypeOK, Advance, Settle, SettleHolding, Holding
  <2>2. pc[d] \notin Holding
    BY <1>0, <2>1, Exclusive
  <2> QED
    BY <1>0, <2>1, <2>2, PassedKept
<1> QED
  BY <1>1, <1>2, <1>3, <1>4 DEF Progress

\* The limits hold after a rename, because they were checked under the lock.
LEMMA RenameFits ==
  ASSUME IInv, LimitInv, NEW c \in Client, Rename(c)
  PROVE  IsFiniteSet(Present') /\ WithinLimits'
<1>1. TypeOK /\ WithinLimits /\ IsFiniteSet(Present) /\ Passed(c) /\ Knows(c)
  BY DEF IInv, LimitInv, Checked
<1>2. PICK p, b : p = request[c].path /\ b = request[c].body
  OBVIOUS
<1>3. pc[c] = "rename" /\ files' = [files EXCEPT ![p] = b]
  BY <1>2 DEF Rename
<1>4. p \in Path /\ b \in Content
  <2>1. request[c] \in Request /\ request[c].kind # "delete" /\ Mutates(request[c])
    BY <1>1, <1>3 DEF Knows, Holding
  <2> QED
    BY <1>2, <2>1, StoreAssumption DEF RequestShape, Mutates
<1>5. Size[b] \in Nat /\ Size[b] <= MaxFileBytes
  BY <1>1, <1>2, <1>3, <1>4, StoreAssumption DEF Passed, Holding
<1>6. /\ files[p] = Absent => ~(Cardinality(Present) >= MaxEntries)
      /\ ~(Bytes(Stored) - (IF files[p] = Absent THEN 0 ELSE Size[files[p]]) + Size[b] > MaxBytes)
  BY <1>1, <1>2, <1>3 DEF Passed, OverLimits
<1>7. /\ IsFiniteSet(Present')
      /\ Cardinality(Present') = Cardinality(Present) + (IF files[p] = Absent THEN 1 ELSE 0)
      /\ Cardinality(Present) \in Nat
      /\ Bytes(Stored') = Bytes(Stored) - (IF files[p] = Absent THEN 0 ELSE Size[files[p]])
                          + Size[b]
      /\ \A q \in Present' : q = p \/ (q \in Present /\ files'[q] = files[q])
  BY <1>1, <1>3, <1>4, WriteKeeps
<1>8. Cardinality(Present') <= MaxEntries
  BY <1>1, <1>6, <1>7, StoreAssumption DEF WithinLimits
<1>9. Bytes(Stored') <= MaxBytes
  <2>1. Bytes(Rest(p)) \in Nat
        /\ Bytes(Stored) - (IF files[p] = Absent THEN 0 ELSE Size[files[p]]) = Bytes(Rest(p))
    BY <1>1, <1>4, StoredWithout
  <2> QED
    BY <1>5, <1>6, <1>7, <2>1, StoreAssumption
<1>10. \A q \in Present' : Size[files'[q]] <= MaxFileBytes
  <2>1. files'[p] = b
    BY <1>1, <1>3, <1>4 DEF TypeOK
  <2> QED
    BY <1>1, <1>5, <1>7, <2>1 DEF WithinLimits
<1> QED
  BY <1>7, <1>8, <1>9, <1>10 DEF WithinLimits

\* Files that stay as they are stay within the limits.
LEMMA SameFits ==
  ASSUME LimitInv, files' = files
  PROVE  IsFiniteSet(Present') /\ WithinLimits'
BY DEF LimitInv, WithinLimits, Present, Stored

\* Every step keeps the limits.
LEMMA LimitStep ==
  ASSUME IInv, LimitInv, [Next]_vars
  PROVE  LimitInv'
<1>1. CASE UNCHANGED vars
  <2>1. \A d \in Client : Passed(d)'
    BY <1>1, PassedKept DEF vars, LimitInv
  <2> QED
    BY <1>1, <2>1, SameFits DEF vars, LimitInv
<1>2. CASE Crash
  <2>1. \A d \in Client : Passed(d)'
    BY <1>2, PassedOutside DEF Crash, Holding
  <2> QED
    BY <1>2, <2>1, SameFits DEF Crash, LimitInv
<1>3. ASSUME NEW c \in Client, Progress(c) \/ \E q \in Request : Call(c, q)
      PROVE  LimitInv'
  <2>1. \A d \in Client : Passed(d)'
    BY <1>3, PassedMoves, PassedElsewhere
  <2>2. IsFiniteSet(Present') /\ WithinLimits'
    <3>1. CASE Rename(c)
      BY <3>1, RenameFits
    <3>2. CASE Unlink(c)
      <4>1. TypeOK /\ IsFiniteSet(Present) /\ WithinLimits /\ Knows(c)
        BY DEF IInv, LimitInv, Checked
      <4>2. files' = [files EXCEPT ![request[c].path] = Absent] /\ pc[c] = "unlink"
        BY <3>2 DEF Unlink
      <4>3. request[c].path \in Path
        BY <4>1, <4>2, RequestType DEF Knows
      <4> QED
        BY <4>1, <4>2, <4>3, DeleteKeeps
    <3>3. CASE ~Rename(c) /\ ~Unlink(c)
      <4>1. files' = files
        BY <1>3, <3>3
           DEF Progress, Check, Scan, Prepare, ReadBack, Fail, Lstat, Open, ReadRoot, Visit,
               VisitFails, Listed, Reply, Call
      <4> QED
        BY <4>1, SameFits
    <3> QED
      BY <3>1, <3>2, <3>3
  <2> QED
    BY <2>1, <2>2 DEF LimitInv
<1> QED
  BY <1>1, <1>2, <1>3 DEF Next

\* An empty workspace is within its limits.
LEMMA LimitInit ==
  ASSUME Init
  PROVE  LimitInv
<1>1. Present = {} /\ Stored = {}
  BY DEF Init, Present, Stored
<1>2. WithinLimits /\ IsFiniteSet(Present)
  BY <1>1, BytesNone, FS_EmptySet, StoreAssumption DEF WithinLimits
<1>3. \A c \in Client : Passed(c)
  BY DEF Init, Passed, Holding
<1> QED
  BY <1>2, <1>3 DEF LimitInv

\* The workspace stays within its limits, however many writes were under way when
\* each of them was checked (write).
THEOREM LimitsHold == Spec => []WithinLimits
<1>1. Init => LimitInv
  BY LimitInit
<1>2. IInv /\ LimitInv /\ [Next]_vars => LimitInv'
  BY LimitStep
<1>3. LimitInv => WithinLimits
  BY DEF LimitInv
<1> QED
  BY <1>1, <1>2, <1>3, Invariance, PTL DEF Spec
=============================================================================
