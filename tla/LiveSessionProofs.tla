------------------------- MODULE LiveSessionProofs -------------------------
(***************************************************************************)
(* Proofs about LiveSession, for every bound: IInv is an inductive         *)
(* invariant (InitIInv, Inductive), and the type invariant, OneRenderer,   *)
(* SettledIsShown and Reaped follow from it.  The lemmas up to TypeStep    *)
(* say what each helper of the model does to the types; each later lemma   *)
(* carries one part of IInv over every action.  NoEditLost is inductive    *)
(* given IInv (EditsStep); PublishedWhole follows from IInv and Shown.     *)
(* The last part is the refinement of LiveProtocol: PeerInv says what the  *)
(* outbound chain holds for whom (Chained) and how what the peer has seen  *)
(* relates to what the coroutines are about to send (View).                *)
(***************************************************************************)
EXTENDS MCLiveSession, SequenceTheorems, TLAPS

\* A message built from well-typed parts is a frame (sendJson).
LEMMA MsgType ==
  ASSUME NEW t \in FrameType, NEW r \in 0..MaxRevision, NEW n \in Nat,
         NEW k \in Waiter
  PROVE  Msg(t, r, n, k) \in Frame
BY DEF Msg, Frame

\* What Head, Tail, Len and Append do to a sequence over S.
LEMMA SeqFacts ==
  ASSUME NEW S, NEW s \in Seq(S)
  PROVE  /\ Len(s) \in Nat
         /\ (s = <<>>) <=> (Len(s) = 0)
         /\ \A i \in 1..Len(s) : s[i] \in S
         /\ s # <<>> => /\ Tail(s) \in Seq(S) /\ Len(Tail(s)) = Len(s) - 1
                        /\ Head(s) \in S /\ Head(s) = s[1]
                        /\ \A i \in 1..Len(Tail(s)) : Tail(s)[i] = s[i+1]
         /\ \A x \in S : /\ Append(s, x) \in Seq(S)
                         /\ Len(Append(s, x)) = Len(s) + 1
                         /\ Append(s, x) # <<>>
                         /\ Append(s, x)[Len(s) + 1] = x
                         /\ \A i \in 1..Len(s) : Append(s, x)[i] = s[i]
BY EmptySeq, HeadTailProperties, LenProperties

\* Appending an element of S to a sequence over S.
LEMMA AppendType ==
  ASSUME NEW S, NEW s \in Seq(S), NEW x \in S
  PROVE  Append(s, x) \in Seq(S)
OBVIOUS

\* close() keeps the types of what it assigns, and empties the queue.
LEMMA CloseType ==
  ASSUME TypeOK, NEW out \in Seq(Frame), NEW b \in BOOLEAN, Close(out, b)
  PROVE  /\ outbound' \in Seq(Frame)
         /\ queue' \in Seq(Revision) /\ Len(queue') <= QueueLimit
         /\ closer' \in {"open", "notify", "reap", "closed"}
         /\ reapSession' \in BOOLEAN /\ reapDir' \in BOOLEAN
<1>1. Msg("session-closed", 0, 0, "close") \in Frame
  BY MsgType, LiveAssumption DEF FrameType, Waiter
<1>2. Append(out, Msg("session-closed", 0, 0, "close")) \in Seq(Frame)
  BY <1>1, AppendType
<1>3. <<>> \in Seq(Revision) /\ Len(<<>>) <= QueueLimit
  BY EmptySeq, LiveAssumption
<1> QED
  BY <1>2, <1>3 DEF TypeOK, Close, closeVars

\* Sending a frame keeps the types of pc and of the outbound chain.
LEMMA SendType ==
  ASSUME TypeOK, NEW o \in Coroutine, NEW s \in Await, NEW out \in Seq(Frame),
         NEW m \in Frame, Send(o, s, out, m)
  PROVE  pc' \in [Coroutine -> Await] /\ outbound' \in Seq(Frame)
BY AppendType DEF TypeOK, Send

\* A coroutine that returns leaves pc well typed.
LEMMA ReturnType ==
  ASSUME TypeOK, NEW o \in Coroutine
  PROVE  Return(pc, o) \in [Coroutine -> Await]
BY DEF TypeOK, Return, Await

\* sessionFailure() keeps the types of pc and of the outbound chain.
LEMMA FailSessionType ==
  ASSUME TypeOK, NEW o \in Coroutine, NEW out \in Seq(Frame), FailSession(o, out)
  PROVE  pc' \in [Coroutine -> Await] /\ outbound' \in Seq(Frame)
<1>1. Msg("session-error", applied, 0, o) \in Frame
  BY MsgType DEF TypeOK, FrameType, Waiter
<1> QED
  <2>1. Return(pc, o) \in [Coroutine -> Await]
    BY ReturnType
  <2>2. pc \in [Coroutine -> Await] /\ "failing" \in Await
    BY DEF TypeOK, Await
  <2> HIDE DEF Msg
  <2> QED
    BY <1>1, <2>1, <2>2, AppendType DEF FailSession

\* The loop of drainChanges keeps the types of what it assigns.
LEMMA TakeNextType ==
  ASSUME TypeOK, NEW p \in [Coroutine -> Await], NEW q \in Seq(Revision),
         NEW out \in Seq(Frame), TakeNext(p, q, out)
  PROVE  /\ pc' \in [Coroutine -> Await] /\ outbound' \in Seq(Frame)
         /\ rev' \in [Coroutine -> 0..MaxRevision]
         /\ queue' \in Seq(Revision) /\ Len(queue') <= Len(q)
<1>1. CASE closer = "open" /\ q # <<>>
  <2>1. /\ Head(q) \in Revision /\ Tail(q) \in Seq(Revision)
        /\ Len(Tail(q)) = Len(q) - 1 /\ Len(q) \in Nat
    BY <1>1, SeqFacts
  <2>2. Msg("revision-started", Head(q), 0, "drain") \in Frame
    BY <2>1, MsgType, LiveAssumption DEF FrameType, Waiter, Revision, Coroutine
  <2> QED
    <3>1. Append(out, Msg("revision-started", Head(q), 0, "drain")) \in Seq(Frame)
      BY <2>2, AppendType
    <3>2. rev \in [Coroutine -> 0..MaxRevision] /\ Head(q) \in 0..MaxRevision
          /\ "started" \in Await
      BY <2>1, LiveAssumption DEF TypeOK, Revision, Await
    <3>3. "drain" \in Coroutine
      BY DEF Coroutine
    <3>4. /\ pc' = [p EXCEPT !["drain"] = "started"] /\ queue' = Tail(q)
          /\ rev' = [rev EXCEPT !["drain"] = Head(q)]
          /\ outbound' = Append(out, Msg("revision-started", Head(q), 0, "drain"))
      BY <1>1 DEF TakeNext
    <3>5. pc' \in [Coroutine -> Await] /\ rev' \in [Coroutine -> 0..MaxRevision]
      BY <3>2, <3>3, <3>4
    <3> QED
      BY <2>1, <3>1, <3>4, <3>5
<1>2. CASE ~(closer = "open" /\ q # <<>>)
  BY <1>2, SeqFacts DEF TypeOK, TakeNext
<1> QED
  BY <1>1, <1>2

\* drainChanges() keeps the types of what it assigns.
LEMMA DrainType ==
  ASSUME TypeOK, NEW p \in [Coroutine -> Await], NEW q \in Seq(Revision),
         NEW out \in Seq(Frame), Drain(p, q, out)
  PROVE  /\ pc' \in [Coroutine -> Await] /\ outbound' \in Seq(Frame)
         /\ rev' \in [Coroutine -> 0..MaxRevision]
         /\ queue' \in Seq(Revision) /\ Len(queue') <= Len(q)
<1>1. CASE TakeNext(p, q, out)
  BY <1>1, TakeNextType
<1>2. CASE queue' = q /\ pc' = p /\ outbound' = out /\ UNCHANGED rev
  BY <1>2, SeqFacts DEF TypeOK
<1> QED
  BY <1>1, <1>2 DEF Drain

\* A coroutine that finishes keeps the types of what it assigns.
LEMMA FinishType ==
  ASSUME TypeOK, NEW o \in Coroutine, NEW out \in Seq(Frame), Finish(o, out)
  PROVE  /\ pc' \in [Coroutine -> Await] /\ outbound' \in Seq(Frame)
         /\ rev' \in [Coroutine -> 0..MaxRevision]
         /\ queue' \in Seq(Revision) /\ Len(queue') <= QueueLimit
<1> DEFINE p == Return(pc, o)
<1>1. p \in [Coroutine -> Await] /\ queue \in Seq(Revision) /\ Len(queue) <= QueueLimit
      /\ Len(queue) \in Nat
  BY ReturnType, SeqFacts DEF TypeOK
<1>2. TakeNext(p, queue, out) \/ Drain(p, queue, out)
  BY DEF Finish
<1>3. /\ pc' \in [Coroutine -> Await] /\ outbound' \in Seq(Frame)
      /\ rev' \in [Coroutine -> 0..MaxRevision]
      /\ queue' \in Seq(Revision) /\ Len(queue') <= Len(queue)
  <2> HIDE DEF p
  <2> QED BY <1>1, <1>2, TakeNextType, DrainType
<1> QED
  BY <1>1, <1>3, SeqFacts, LiveAssumption

\* renderRevision() keeps the types of what it assigns first.
LEMMA StartRenderType ==
  ASSUME TypeOK, NEW o \in Coroutine, NEW out \in Seq(Frame), StartRender(o, out)
  PROVE  /\ pc' \in [Coroutine -> Await] /\ outbound' \in Seq(Frame)
         /\ rev' \in [Coroutine -> 0..MaxRevision]
         /\ shot' \in [Coroutine -> Seq(Revision)]
         /\ queue' \in Seq(Revision) /\ Len(queue') <= QueueLimit
<1>1. shot' \in [Coroutine -> Seq(Revision)]
  BY EmptySeq DEF TypeOK, StartRender
<1>2. CASE closer = "open"
  <2>1. "page" \in Await
    BY DEF Await
  <2> QED
    BY <1>1, <1>2, <2>1 DEF TypeOK, StartRender
<1>3. CASE closer # "open"
  BY <1>1, <1>3, FinishType DEF StartRender
<1> QED
  BY <1>2, <1>3

\* A sendPage() task keeps the types of what it assigns.
LEMMA SendPageType ==
  ASSUME TypeOK, NEW o \in Coroutine, shot[o] # <<>>, NEW out \in Seq(Frame),
         SendPage(o, out)
  PROVE  /\ pc' \in [Coroutine -> Await] /\ outbound' \in Seq(Frame)
         /\ shot' \in [Coroutine -> Seq(Revision)]
<1> DEFINE a == Msg("page", rev[o], 0, "none")
           b == Msg("png", Head(shot[o]), 0, o)
<1>1. shot[o] \in Seq(Revision)
  BY DEF TypeOK
<1>2. Head(shot[o]) \in Revision /\ Tail(shot[o]) \in Seq(Revision)
  BY <1>1, SeqFacts
<1>3. rev[o] \in 0..MaxRevision /\ Head(shot[o]) \in 0..MaxRevision
  BY <1>2, LiveAssumption DEF TypeOK, Revision
<1>4. a \in Frame /\ b \in Frame
  BY <1>3, MsgType DEF FrameType, Waiter
<1> HIDE DEF a, b
<1>5. << a, b >> \in Seq(Frame)
  BY <1>4
<1>6. out \o << a, b >> \in Seq(Frame)
  BY <1>5, ConcatProperties
<1>7. "send" \in Await
  BY DEF Await
<1>8. /\ pc' = [pc EXCEPT ![o] = "send"] /\ shot' = [shot EXCEPT ![o] = Tail(@)]
      /\ outbound' = out \o << a, b >>
  BY DEF SendPage, a, b
<1> QED
  BY <1>2, <1>6, <1>7, <1>8 DEF TypeOK

\* Type correctness is preserved by every step.
LEMMA TypeStep ==
  ASSUME IInv, Next
  PROVE  TypeOK'
<1> USE LiveAssumption
<1>0. TypeOK /\ Stages
  BY DEF IInv
<1>m. \A r \in 0..MaxRevision, n \in Nat, k \in Waiter, t \in FrameType :
        Msg(t, r, n, k) \in Frame
  BY MsgType
<1>e. \A m \in Frame : Append(outbound, m) \in Seq(Frame)
  BY <1>0, AppendType DEF TypeOK
<1>t. outbound # <<>> => Rest \in Seq(Frame)
  BY <1>0, SeqFacts DEF TypeOK, Rest
<1>k. "drain" \in Coroutine /\ "init" \in Coroutine
  BY DEF Coroutine
<1>1. ASSUME NEW r \in Revision, Initialize(r) PROVE TypeOK'
  BY <1>0, <1>1, <1>k
  DEF TypeOK, Initialize, Await, Revision, closeVars, diskVars, nativeVars,
    revVars
<1>2. ASSUME NEW r \in Revision, Change(r) PROVE TypeOK'
  <2>1. /\ Append(queue, r) \in Seq(Revision) /\ Append(accepted, r) \in Seq(Revision)
        /\ Len(Append(queue, r)) <= QueueLimit
    BY <1>0, <1>2, SeqFacts DEF TypeOK, Change
  <2>2. /\ pc' \in [Coroutine -> Await] /\ outbound' \in Seq(Frame)
        /\ rev' \in [Coroutine -> 0..MaxRevision]
        /\ queue' \in Seq(Revision) /\ Len(queue') <= Len(Append(queue, r))
    BY <1>0, <1>2, <2>1, DrainType DEF Change, TypeOK
  <2>3. Len(queue') <= QueueLimit
    BY <2>1, <2>2, SeqFacts
  <2> QED
    BY <1>0, <1>2, <2>1, <2>2, <2>3
    DEF TypeOK, Change, Revision, closeVars, diskVars, nativeVars, revVars
<1>3. ASSUME NEW k \in Waiter, ProtocolFailure(k) PROVE outbound' \in Seq(Frame)
  BY <1>3, <1>m, <1>e DEF ProtocolFailure, FrameType
<1>4. ASSUME NEW r \in Revision, QueueFull(r) PROVE TypeOK'
  <2>1. outbound' \in Seq(Frame)
    BY <1>3, <1>4 DEF QueueFull, Waiter
  <2> QED
    BY <1>0, <1>4, <2>1
    DEF TypeOK, QueueFull, closeVars, diskVars, nativeVars, revVars
<1>5. ASSUME NEW k \in {"frame", "fatal"}, RefuseFrame(k) PROVE TypeOK'
  <2>1. outbound' \in Seq(Frame)
    BY <1>3, <1>5 DEF RefuseFrame, Waiter
  <2> QED
    BY <1>0, <1>5, <2>1
    DEF TypeOK, RefuseFrame, closeVars, diskVars, nativeVars, revVars
<1>6. CASE CloseRequested
  <2>1. Close(outbound, TRUE) /\ outbound \in Seq(Frame)
    BY <1>0, <1>6 DEF CloseRequested, TypeOK
  <2> QED
    BY <1>0, <1>6, <2>1, CloseType
    DEF TypeOK, CloseRequested, closeVars, diskVars, nativeVars, revVars
<1>7. CASE PeerVanishes
  BY <1>0, <1>7
  DEF TypeOK, PeerVanishes, closeVars, diskVars, nativeVars, revVars
<1>8. CASE SocketEvent
  <2>1. Close(outbound, FALSE) /\ outbound \in Seq(Frame)
    BY <1>0, <1>8 DEF SocketEvent, TypeOK
  <2> QED
    BY <1>0, <1>8, <2>1, CloseType
    DEF TypeOK, SocketEvent, closeVars, diskVars, nativeVars, revVars
<1>9. CASE Mkdtemp
  BY <1>0, <1>9
  DEF TypeOK, Mkdtemp, Await, closeVars, diskVars, nativeVars, revVars
<1>10. CASE Materialize
  BY <1>0, <1>10
  DEF TypeOK, Materialize, Await, closeVars, diskVars, nativeVars, revVars
<1>11. CASE Started
  <2>1. rev["init"] \in Revision /\ rev["init"] \in 0..MaxRevision
    BY <1>0, <1>11 DEF Started, Stages, Revision
  <2>2. <<rev["init"]>> \in Seq(Revision)
    BY <2>1
  <2>3. /\ pc' \in [Coroutine -> Await] /\ outbound' \in Seq(Frame)
        /\ initialized' \in BOOLEAN /\ latest' \in 0..MaxRevision
        /\ applied' \in 0..MaxRevision /\ accepted' \in Seq(Revision)
        /\ lastGood' = lastGood
    <3>1. CASE closer # "open"
      BY <1>0, <1>11, <3>1 DEF TypeOK, Started, Await, revVars
    <3>2. CASE closer = "open"
      <4>1. Msg("session-ready", rev["init"], 0, "init") \in Frame
        BY <2>1, <1>m DEF FrameType, Waiter, Coroutine
      <4>2. "ready" \in Await /\ outbound \in Seq(Frame)
        BY <1>0 DEF Await, TypeOK
      <4>3. Send("init", "ready", outbound, Msg("session-ready", rev["init"], 0, "init"))
        BY <1>11, <3>2 DEF Started
      <4>4. pc' \in [Coroutine -> Await] /\ outbound' \in Seq(Frame)
        BY <1>0, <1>k, <4>1, <4>2, <4>3, SendType
      <4> QED
        BY <1>0, <1>11, <2>1, <2>2, <3>2, <4>4 DEF TypeOK, Started
    <3> QED
      BY <3>1, <3>2
  <2> QED
    BY <1>0, <1>11, <2>2, <2>3
    DEF TypeOK, Started, Compiled, closeVars, diskVars, nativeVars, revVars
<1>12. CASE LateClose
  BY <1>0, <1>12, <1>k, ReturnType
  DEF TypeOK, LateClose, closeVars, diskVars, nativeVars, revVars
<1>13. CASE InitFails
  <2>1. pc' \in [Coroutine -> Await] /\ outbound' \in Seq(Frame)
    BY <1>0, <1>13, <1>k, FailSessionType DEF InitFails, TypeOK
  <2> QED
    BY <1>0, <1>13, <2>1
    DEF TypeOK, InitFails, closeVars, diskVars, nativeVars, revVars
<1>14. CASE ApplyOk
  <2>1. rev["drain"] \in Revision /\ rev["drain"] \in 0..MaxRevision
    BY <1>0, <1>14 DEF ApplyOk, Stages, Revision, processing
  <2>2. Append(edits, rev["drain"]) \in Seq(Revision)
    BY <1>0, <2>1, AppendType DEF TypeOK
  <2>3. Msg("revision-applied", rev["drain"], 0, "drain") \in Frame
    BY <2>1, <1>m DEF FrameType, Waiter, Coroutine
  <2>4. PICK s \in {"notrendered", "coalesced", "pending"} :
          Send("drain", s, outbound, Msg("revision-applied", rev["drain"], 0, "drain"))
    BY <1>14 DEF ApplyOk
  <2>5. s \in Await /\ outbound \in Seq(Frame)
    BY <1>0 DEF Await, TypeOK
  <2>6. pc' \in [Coroutine -> Await] /\ outbound' \in Seq(Frame)
    BY <1>0, <1>k, <2>3, <2>4, <2>5, SendType
  <2> QED
    BY <1>0, <1>14, <2>1, <2>2, <2>6
    DEF TypeOK, ApplyOk, Compiled, closeVars, diskVars, nativeVars, revVars
<1>15. CASE ApplyFails
  <2>1. Msg("protocol-error", rev["drain"], 0, "drain") \in Frame
    BY <1>0, <1>k, <1>m DEF TypeOK, FrameType, Waiter
  <2>2. "refused" \in Await /\ outbound \in Seq(Frame)
    BY <1>0 DEF Await, TypeOK
  <2>3. pc' \in [Coroutine -> Await] /\ outbound' \in Seq(Frame)
    BY <1>0, <1>15, <1>k, <2>1, <2>2, SendType DEF ApplyFails
  <2> QED
    BY <1>0, <1>15, <2>3
    DEF TypeOK, ApplyFails, MayDie, closeVars, diskVars, nativeVars, revVars
<1>16. ASSUME NEW o \in Coroutine, PageOk(o) PROVE TypeOK'
  <2>0. UNCHANGED <<socket, closeVars, diskVars, nativeVars, initialized, revVars>>
    BY <1>16 DEF PageOk
  <2>1. CASE rev[o] # latest
    <3>1. /\ pc' \in [Coroutine -> Await] /\ outbound' \in Seq(Frame)
          /\ rev' \in [Coroutine -> 0..MaxRevision]
          /\ queue' \in Seq(Revision) /\ Len(queue') <= QueueLimit
      BY <1>0, <1>16, <2>1, FinishType DEF PageOk, TypeOK
    <3>2. shot' = [shot EXCEPT ![o] = <<>>]
      BY <1>16, <2>1 DEF PageOk
    <3>3. shot' \in [Coroutine -> Seq(Revision)]
      BY <1>0, <3>2, EmptySeq DEF TypeOK
    <3> QED
      BY <1>0, <2>0, <3>1, <3>3
      DEF TypeOK, closeVars, diskVars, nativeVars, revVars
  <2>2. CASE rev[o] = latest
    <3>1. edits # <<>>
      BY <1>0, <1>16 DEF PageOk, Stages, processing, Coroutine
    <3>2. edits[Len(edits)] \in Revision
      BY <1>0, <3>1, SeqFacts DEF TypeOK
    <3>3. /\ shot' = [shot EXCEPT ![o] = Append(@, edits[Len(edits)])]
          /\ UNCHANGED <<pc, rev, queue, outbound>>
      BY <1>16, <2>2 DEF PageOk
    <3>4. shot[o] \in Seq(Revision)
      BY <1>0 DEF TypeOK
    <3>5. Append(shot[o], edits[Len(edits)]) \in Seq(Revision)
      BY <3>2, <3>4, AppendType
    <3>6. shot' \in [Coroutine -> Seq(Revision)]
      BY <1>0, <3>3, <3>5 DEF TypeOK
    <3> QED
      BY <1>0, <2>0, <3>3, <3>6
      DEF TypeOK, closeVars, diskVars, nativeVars, revVars
  <2> QED
    BY <2>1, <2>2
<1>17. ASSUME NEW o \in Coroutine, PageFails(o) PROVE TypeOK'
  BY <1>0, <1>17
  DEF TypeOK, PageFails, MayDie, Await, closeVars, diskVars, nativeVars, revVars
<1>18. ASSUME NEW o \in Coroutine, CountOk(o) PROVE TypeOK'
  <2> DEFINE Typed == /\ pc' \in [Coroutine -> Await] /\ outbound' \in Seq(Frame)
                      /\ rev' \in [Coroutine -> 0..MaxRevision]
                      /\ shot' \in [Coroutine -> Seq(Revision)]
                      /\ queue' \in Seq(Revision) /\ Len(queue') <= QueueLimit
                      /\ lastGood' \in 0..MaxRevision
  <2>1. ASSUME ~WholeDocument(o) PROVE Typed
    <3>1. FailSession(o, outbound) /\ outbound \in Seq(Frame)
          /\ UNCHANGED <<shot, rev, queue, lastGood>>
      BY <1>0, <1>18, <2>1 DEF CountOk, TypeOK
    <3>2. pc' \in [Coroutine -> Await] /\ outbound' \in Seq(Frame)
      BY <1>0, <3>1, FailSessionType
    <3> QED
      BY <1>0, <3>1, <3>2 DEF TypeOK
  <2>2. ASSUME WholeDocument(o), rev[o] # latest PROVE Typed
    <3>1. /\ Finish(o, outbound) /\ outbound \in Seq(Frame) /\ UNCHANGED lastGood
          /\ shot' = [shot EXCEPT ![o] = <<>>]
      BY <1>0, <1>18, <2>2 DEF CountOk, TypeOK
    <3>2. shot' \in [Coroutine -> Seq(Revision)]
      BY <1>0, <3>1, EmptySeq DEF TypeOK
    <3>3. /\ pc' \in [Coroutine -> Await] /\ outbound' \in Seq(Frame)
          /\ rev' \in [Coroutine -> 0..MaxRevision]
          /\ queue' \in Seq(Revision) /\ Len(queue') <= QueueLimit
      BY <1>0, <3>1, FinishType
    <3> QED
      BY <1>0, <3>1, <3>2, <3>3 DEF TypeOK
  <2>3. ASSUME WholeDocument(o), rev[o] = latest PROVE Typed
    <3>1. /\ Send(o, "doc", outbound, Msg("document", rev[o], Len(shot[o]), o))
          /\ UNCHANGED <<shot, rev, queue>> /\ lastGood' = rev[o]
      BY <1>18, <2>3 DEF CountOk
    <3>2. rev[o] \in 0..MaxRevision /\ Len(shot[o]) \in Nat
      BY <1>0 DEF TypeOK
    <3>3. Msg("document", rev[o], Len(shot[o]), o) \in Frame
      BY <3>2, <1>m DEF FrameType, Waiter
    <3>4. "doc" \in Await /\ outbound \in Seq(Frame)
      BY <1>0 DEF Await, TypeOK
    <3>5. pc' \in [Coroutine -> Await] /\ outbound' \in Seq(Frame)
      BY <1>0, <3>1, <3>3, <3>4, SendType
    <3> QED
      BY <1>0, <3>1, <3>2, <3>5 DEF TypeOK
  <2>4. Typed
    <3> HIDE DEF Typed
    <3> QED BY <2>1, <2>2, <2>3
  <2>5. UNCHANGED <<socket, closeVars, diskVars, nativeVars, initialized, latest,
                    applied, accepted>>
    BY <1>18 DEF CountOk
  <2> QED
    BY <1>0, <2>4, <2>5 DEF TypeOK, closeVars, diskVars, nativeVars, revVars
<1>19. ASSUME NEW o \in Coroutine, CountFails(o) PROVE TypeOK'
  <2>1. pc' \in [Coroutine -> Await] /\ outbound' \in Seq(Frame)
    BY <1>0, <1>19, FailSessionType DEF CountFails, TypeOK
  <2> QED
    BY <1>0, <1>19, <2>1
    DEF TypeOK, CountFails, closeVars, diskVars, nativeVars, revVars
<1>20. CASE NativeExit
  <2>1. Msg("session-error", applied, 0, "exit") \in Frame
    BY <1>0, <1>m DEF TypeOK, FrameType, Waiter
  <2>2. outbound' \in Seq(Frame)
    BY <1>0, <1>20, <1>e, <2>1 DEF NativeExit, TypeOK
  <2> QED
    BY <1>0, <1>20, <2>2
    DEF TypeOK, NativeExit, closeVars, diskVars, nativeVars, revVars
<1>21. CASE PlainSent
  <2>1. outbound' \in Seq(Frame)
    BY <1>21, <1>t DEF PlainSent, Transmit
  <2> QED
    BY <1>0, <1>21, <2>1
    DEF TypeOK, PlainSent, closeVars, diskVars, nativeVars, revVars
<1>22. CASE PlainRejected
  <2>1. Rest \in Seq(Frame) /\ Close(Rest, FALSE)
    BY <1>22, <1>t DEF PlainRejected, Reject
  <2> QED
    BY <1>0, <1>22, <2>1, CloseType
    DEF TypeOK, PlainRejected, closeVars, diskVars, nativeVars, revVars
<1>23. CASE FatalSent
  <2>1. Rest \in Seq(Frame) /\ Close(Rest, TRUE)
    BY <1>23, <1>t DEF FatalSent, Transmit
  <2> QED
    BY <1>0, <1>23, <2>1, CloseType
    DEF TypeOK, FatalSent, closeVars, diskVars, nativeVars, revVars
<1>24. CASE ClosedSent
  <2>1. outbound' \in Seq(Frame)
    BY <1>24, <1>t DEF ClosedSent, Transmit
  <2> QED
    BY <1>0, <1>24, <2>1
    DEF TypeOK, ClosedSent, closeVars, diskVars, nativeVars, revVars
<1>25. ASSUME NEW o \in Coroutine, StepSent(o) PROVE TypeOK'
  <2> DEFINE Typed == /\ pc' \in [Coroutine -> Await] /\ outbound' \in Seq(Frame)
                      /\ rev' \in [Coroutine -> 0..MaxRevision]
                      /\ shot' \in [Coroutine -> Seq(Revision)]
                      /\ queue' \in Seq(Revision) /\ Len(queue') <= QueueLimit
  <2>1. Rest \in Seq(Frame)
    BY <1>25, <1>t DEF StepSent, Transmit
  <2>2. ASSUME pc' = [pc EXCEPT ![o] = "apply"], outbound' = Rest,
               UNCHANGED <<shot, rev, queue>>
        PROVE  Typed
    BY <1>0, <2>1, <2>2 DEF TypeOK, Await
  <2>3. ASSUME Send(o, "error", Rest, Msg("compile-error", rev[o], lastGood, o)),
               UNCHANGED <<shot, rev, queue>>
        PROVE  Typed
    <3>1. rev[o] \in 0..MaxRevision /\ lastGood \in Nat /\ "error" \in Await
      BY <1>0 DEF TypeOK, Await
    <3>2. Msg("compile-error", rev[o], lastGood, o) \in Frame
      BY <3>1, <1>m DEF FrameType, Waiter
    <3>3. pc' \in [Coroutine -> Await] /\ outbound' \in Seq(Frame)
      BY <1>0, <2>1, <2>3, <3>1, <3>2, SendType
    <3> QED
      BY <1>0, <2>3, <3>3 DEF TypeOK
  <2>4. ASSUME StartRender(o, Rest) PROVE Typed
    BY <1>0, <2>1, <2>4, StartRenderType
  <2>5. ASSUME Finish(o, Rest), UNCHANGED shot PROVE Typed
    BY <1>0, <2>1, <2>5, FinishType DEF TypeOK
  <2>6. ASSUME shot[o] # <<>>, SendPage(o, Rest), UNCHANGED <<rev, queue>> PROVE Typed
    BY <1>0, <2>1, <2>6, SendPageType DEF TypeOK
  <2>7. ASSUME Send(o, "complete", Rest, Msg("revision-complete", rev[o], 0, o)),
               UNCHANGED <<shot, rev, queue>>
        PROVE  Typed
    <3>1. rev[o] \in 0..MaxRevision /\ "complete" \in Await
      BY <1>0 DEF TypeOK, Await
    <3>2. Msg("revision-complete", rev[o], 0, o) \in Frame
      BY <3>1, <1>m DEF FrameType, Waiter
    <3>3. pc' \in [Coroutine -> Await] /\ outbound' \in Seq(Frame)
      BY <1>0, <2>1, <2>7, <3>1, <3>2, SendType
    <3> QED
      BY <1>0, <2>7, <3>3 DEF TypeOK
  <2>8. Typed
    <3> HIDE DEF Typed
    <3> QED BY <1>25, <2>2, <2>3, <2>4, <2>5, <2>6, <2>7 DEF StepSent
  <2> QED
    BY <1>0, <1>25, <2>8
    DEF TypeOK, StepSent, closeVars, diskVars, nativeVars, revVars
<1>26. ASSUME NEW o \in Coroutine, StepRejected(o) PROVE TypeOK'
  <2>1. Rest \in Seq(Frame) /\ FailSession(o, Rest)
    BY <1>26, <1>t DEF StepRejected, Reject
  <2>2. pc' \in [Coroutine -> Await] /\ outbound' \in Seq(Frame)
    BY <1>0, <2>1, FailSessionType
  <2> QED
    BY <1>0, <1>26, <2>2
    DEF TypeOK, StepRejected, closeVars, diskVars, nativeVars, revVars
<1>27. ASSUME NEW o \in Coroutine, FailureSent(o) PROVE TypeOK'
  <2>1. Rest \in Seq(Frame) /\ Close(Rest, TRUE)
    BY <1>27, <1>t DEF FailureSent, Transmit
  <2>2. Return(pc, o) \in [Coroutine -> Await]
    BY <1>0, ReturnType
  <2> QED
    BY <1>0, <1>27, <2>1, <2>2, CloseType
    DEF TypeOK, FailureSent, closeVars, diskVars, nativeVars, revVars
<1>28. CASE Reap
  BY <1>0, <1>28
  DEF TypeOK, Reap, ReapSession, ReapDir, CloseDone, closeVars, diskVars,
    nativeVars, revVars
<1>29. CASE Terminated
  BY <1>0, <1>29 DEF TypeOK, Terminated, vars
<1> QED
  BY <1>1, <1>2, <1>4, <1>5, <1>6, <1>7, <1>8, <1>9, <1>10, <1>11, <1>12,
     <1>13, <1>14, <1>15, <1>16, <1>17, <1>18, <1>19, <1>20, <1>21, <1>22, <1>23,
     <1>24, <1>25, <1>26, <1>27, <1>28, <1>29
  DEF Next, PeerStep, InitStep, NativeReply, Deliver

\* The control part of the invariant is preserved by every step.
LEMMA StagesStep ==
  ASSUME IInv, Next
  PROVE  Stages' /\ OneRenderer'
<1>0. /\ Stages /\ OneRenderer
      /\ pc \in [Coroutine -> Await] /\ rev \in [Coroutine -> 0..MaxRevision]
      /\ queue \in Seq(Revision) /\ edits \in Seq(Revision)
  BY DEF IInv, TypeOK
<1>1. ASSUME NEW r \in Revision, Initialize(r) PROVE Stages' /\ OneRenderer'
  BY <1>0, <1>1, SeqFacts
  DEF Initialize, Revision, Stages, OneRenderer, initializing, processing,
    InitAwait, DrainAwait, Coroutine, closeVars, diskVars, nativeVars, revVars
<1>2. ASSUME NEW r \in Revision, Change(r) PROVE Stages' /\ OneRenderer'
  <2> DEFINE q == Append(queue, r)
  <2>1. q \in Seq(Revision) /\ q # <<>> /\ Head(q) \in Revision
    BY <1>0, SeqFacts, AppendType
  <2>2. Drain(pc, q, outbound) /\ closer = "open" /\ initialized
    BY <1>2 DEF Change, Receiving
  <2> HIDE DEF q
  <2>3. CASE pc["drain"] = "idle" /\ pc["init"] \in {"idle", "done"}
    BY <1>0, <1>2, <2>1, <2>2, <2>3
    DEF Change, Drain, TakeNext, Stages, OneRenderer, initializing, processing,
      InitAwait, DrainAwait, Coroutine, closeVars, diskVars, nativeVars, revVars
  <2>4. CASE ~(pc["drain"] = "idle" /\ pc["init"] \in {"idle", "done"})
    BY <1>0, <1>2, <2>1, <2>2, <2>4
    DEF Change, Drain, Stages, OneRenderer, initializing, processing, InitAwait,
      DrainAwait, Coroutine, closeVars, diskVars, nativeVars, revVars
  <2> QED
    BY <2>3, <2>4
<1>3. ASSUME NEW r \in Revision, QueueFull(r) PROVE Stages' /\ OneRenderer'
  BY <1>0, <1>3, SeqFacts
  DEF QueueFull, Stages, OneRenderer, initializing, processing, InitAwait,
    DrainAwait, Coroutine, closeVars, diskVars, nativeVars, revVars
<1>4. ASSUME NEW k \in {"frame", "fatal"}, RefuseFrame(k) PROVE Stages' /\ OneRenderer'
  BY <1>0, <1>4, SeqFacts
  DEF RefuseFrame, Stages, OneRenderer, initializing, processing, InitAwait,
    DrainAwait, Coroutine, closeVars, diskVars, nativeVars, revVars
<1>5. ASSUME CloseRequested PROVE Stages' /\ OneRenderer'
  BY <1>0, <1>5, SeqFacts
  DEF CloseRequested, Close, Stages, OneRenderer, initializing, processing,
    InitAwait, DrainAwait, Coroutine, closeVars, diskVars, nativeVars, revVars
<1>6. ASSUME PeerVanishes PROVE Stages' /\ OneRenderer'
  BY <1>0, <1>6, SeqFacts
  DEF PeerVanishes, Stages, OneRenderer, initializing, processing, InitAwait,
    DrainAwait, Coroutine, closeVars, diskVars, nativeVars, revVars
<1>7. ASSUME SocketEvent PROVE Stages' /\ OneRenderer'
  BY <1>0, <1>7, SeqFacts
  DEF SocketEvent, Close, Stages, OneRenderer, initializing, processing,
    InitAwait, DrainAwait, Coroutine, closeVars, diskVars, nativeVars, revVars
<1>8. ASSUME Mkdtemp PROVE Stages' /\ OneRenderer'
  BY <1>0, <1>8, SeqFacts
  DEF Mkdtemp, Stages, OneRenderer, initializing, processing, InitAwait,
    DrainAwait, Coroutine, closeVars, diskVars, nativeVars, revVars
<1>9. ASSUME Materialize PROVE Stages' /\ OneRenderer'
  BY <1>0, <1>9, SeqFacts
  DEF Materialize, Stages, OneRenderer, initializing, processing, InitAwait,
    DrainAwait, Coroutine, closeVars, diskVars, nativeVars, revVars
<1>10. ASSUME Started PROVE Stages' /\ OneRenderer'
  BY <1>0, <1>10, SeqFacts
  DEF Started, Compiled, Send, Stages, OneRenderer, initializing, processing,
    InitAwait, DrainAwait, Coroutine, closeVars, diskVars, nativeVars, revVars
<1>11. ASSUME LateClose PROVE Stages' /\ OneRenderer'
  BY <1>0, <1>11, SeqFacts
  DEF LateClose, Return, Stages, OneRenderer, initializing, processing,
    InitAwait, DrainAwait, Coroutine, closeVars, diskVars, nativeVars, revVars
<1>12. ASSUME InitFails PROVE Stages' /\ OneRenderer'
  BY <1>0, <1>12, SeqFacts
  DEF InitFails, FailSession, Return, Stages, OneRenderer, initializing,
    processing, InitAwait, DrainAwait, Coroutine, closeVars, diskVars,
    nativeVars, revVars
<1>13. ASSUME ApplyOk PROVE Stages' /\ OneRenderer'
  BY <1>0, <1>13, SeqFacts
  DEF ApplyOk, Compiled, Send, Stages, OneRenderer, initializing, processing,
    InitAwait, DrainAwait, Coroutine, closeVars, diskVars, nativeVars, revVars
<1>14. ASSUME ApplyFails PROVE Stages' /\ OneRenderer'
  BY <1>0, <1>14, SeqFacts
  DEF ApplyFails, Send, Stages, OneRenderer, initializing, processing,
    InitAwait, DrainAwait, Coroutine, closeVars, diskVars, nativeVars, revVars
<1>15. ASSUME NEW o \in Coroutine, PageOk(o) PROVE Stages' /\ OneRenderer'
  BY <1>0, <1>15, SeqFacts
  DEF PageOk, Finish, Drain, TakeNext, Return, Stages, OneRenderer,
    initializing, processing, InitAwait, DrainAwait, Coroutine, closeVars,
    diskVars, nativeVars, revVars
<1>16. ASSUME NEW o \in Coroutine, PageFails(o) PROVE Stages' /\ OneRenderer'
  BY <1>0, <1>16, SeqFacts
  DEF PageFails, Stages, OneRenderer, initializing, processing, InitAwait,
    DrainAwait, Coroutine, closeVars, diskVars, nativeVars, revVars
<1>17. ASSUME NEW o \in Coroutine, CountOk(o) PROVE Stages' /\ OneRenderer'
  BY <1>0, <1>17, SeqFacts
  DEF CountOk, FailSession, Send, Finish, Drain, TakeNext, Return, Stages,
    OneRenderer, initializing, processing, InitAwait, DrainAwait, Coroutine,
    closeVars, diskVars, nativeVars, revVars
<1>18. ASSUME NEW o \in Coroutine, CountFails(o) PROVE Stages' /\ OneRenderer'
  BY <1>0, <1>18, SeqFacts
  DEF CountFails, FailSession, Return, Stages, OneRenderer, initializing,
    processing, InitAwait, DrainAwait, Coroutine, closeVars, diskVars,
    nativeVars, revVars
<1>19. ASSUME NativeExit PROVE Stages' /\ OneRenderer'
  BY <1>0, <1>19, SeqFacts
  DEF NativeExit, Stages, OneRenderer, initializing, processing, InitAwait,
    DrainAwait, Coroutine, closeVars, diskVars, nativeVars, revVars
<1>20. ASSUME PlainSent PROVE Stages' /\ OneRenderer'
  BY <1>0, <1>20, SeqFacts
  DEF PlainSent, Stages, OneRenderer, initializing, processing, InitAwait,
    DrainAwait, Coroutine, closeVars, diskVars, nativeVars, revVars
<1>21. ASSUME PlainRejected PROVE Stages' /\ OneRenderer'
  BY <1>0, <1>21, SeqFacts
  DEF PlainRejected, Close, Stages, OneRenderer, initializing, processing,
    InitAwait, DrainAwait, Coroutine, closeVars, diskVars, nativeVars, revVars
<1>22. ASSUME FatalSent PROVE Stages' /\ OneRenderer'
  BY <1>0, <1>22, SeqFacts
  DEF FatalSent, Close, Stages, OneRenderer, initializing, processing,
    InitAwait, DrainAwait, Coroutine, closeVars, diskVars, nativeVars, revVars
<1>23. ASSUME ClosedSent PROVE Stages' /\ OneRenderer'
  BY <1>0, <1>23, SeqFacts
  DEF ClosedSent, Stages, OneRenderer, initializing, processing, InitAwait,
    DrainAwait, Coroutine, closeVars, diskVars, nativeVars, revVars
<1>24. ASSUME NEW o \in Coroutine, StepSent(o) PROVE Stages' /\ OneRenderer'
  BY <1>0, <1>24, SeqFacts
  DEF StepSent, Send, SendPage, StartRender, Finish, Drain, TakeNext, Return,
    Stages, OneRenderer, initializing, processing, InitAwait, DrainAwait,
    Coroutine, closeVars, diskVars, nativeVars, revVars
<1>25. ASSUME NEW o \in Coroutine, StepRejected(o) PROVE Stages' /\ OneRenderer'
  BY <1>0, <1>25, SeqFacts
  DEF StepRejected, FailSession, Return, Stages, OneRenderer, initializing,
    processing, InitAwait, DrainAwait, Coroutine, closeVars, diskVars,
    nativeVars, revVars
<1>26. ASSUME NEW o \in Coroutine, FailureSent(o) PROVE Stages' /\ OneRenderer'
  BY <1>0, <1>26, SeqFacts
  DEF FailureSent, Close, Return, Stages, OneRenderer, initializing, processing,
    InitAwait, DrainAwait, Coroutine, closeVars, diskVars, nativeVars, revVars
<1>27. ASSUME Reap PROVE Stages' /\ OneRenderer'
  BY <1>0, <1>27, SeqFacts
  DEF Reap, ReapSession, ReapDir, CloseDone, Stages, OneRenderer, initializing,
    processing, InitAwait, DrainAwait, Coroutine, closeVars, diskVars,
    nativeVars, revVars
<1>28. ASSUME Terminated PROVE Stages' /\ OneRenderer'
  BY <1>0, <1>28, SeqFacts
  DEF Terminated, vars, Stages, OneRenderer, initializing, processing,
    InitAwait, DrainAwait, Coroutine, closeVars, diskVars, nativeVars, revVars
<1> QED
  BY <1>1, <1>2, <1>3, <1>4, <1>5, <1>6, <1>7, <1>8, <1>9, <1>10, <1>11, <1>12,
    <1>13, <1>14, <1>15, <1>16, <1>17, <1>18, <1>19, <1>20, <1>21, <1>22, <1>23,
    <1>24, <1>25, <1>26, <1>27, <1>28
  DEF Next, PeerStep, InitStep, NativeReply, Deliver

\* Dequeuing the head of q leaves the newest revision last, or in flight.
LEMMA TakeNextNewest ==
  ASSUME NEW q \in Seq(Revision), q # <<>>, NEW t, t = Tail(q)
  PROVE  q[Len(q)] = IF t # <<>> THEN t[Len(t)] ELSE Head(q)
<1>1. /\ Len(q) \in Nat /\ t \in Seq(Revision) /\ Len(t) = Len(q) - 1
      /\ Head(q) = q[1] /\ \A i \in 1..Len(t) : t[i] = q[i + 1]
      /\ (t = <<>>) <=> (Len(t) = 0)
  BY SeqFacts
<1> QED
  BY <1>1

\* What close() has still to do, after every step.
LEMMA ReapingStep ==
  ASSUME IInv, Next
  PROVE  Reaping'
<1>0. /\ Stages /\ OneRenderer /\ Reaping
      /\ pc \in [Coroutine -> Await] /\ rev \in [Coroutine -> 0..MaxRevision]
      /\ queue \in Seq(Revision) /\ edits \in Seq(Revision)
  BY DEF IInv, TypeOK
<1>1. ASSUME NEW r \in Revision, Initialize(r) PROVE Reaping'
  BY <1>0, <1>1, SeqFacts
  DEF Initialize, Revision, Reaping, Stages, OneRenderer, initializing,
    processing, InitAwait, DrainAwait, Coroutine, closeVars, diskVars,
    nativeVars, revVars
<1>2. ASSUME NEW r \in Revision, Change(r) PROVE Reaping'
  BY <1>0, <1>2, SeqFacts
  DEF Change, Drain, TakeNext, Reaping, Stages, OneRenderer, initializing,
    processing, InitAwait, DrainAwait, Coroutine, closeVars, diskVars,
    nativeVars, revVars
<1>3. ASSUME NEW r \in Revision, QueueFull(r) PROVE Reaping'
  BY <1>0, <1>3, SeqFacts
  DEF QueueFull, Reaping, Stages, OneRenderer, initializing, processing,
    InitAwait, DrainAwait, Coroutine, closeVars, diskVars, nativeVars, revVars
<1>4. ASSUME NEW k \in {"frame", "fatal"}, RefuseFrame(k) PROVE Reaping'
  BY <1>0, <1>4, SeqFacts
  DEF RefuseFrame, Reaping, Stages, OneRenderer, initializing, processing,
    InitAwait, DrainAwait, Coroutine, closeVars, diskVars, nativeVars, revVars
<1>5. ASSUME CloseRequested PROVE Reaping'
  BY <1>0, <1>5, SeqFacts
  DEF CloseRequested, Close, Reaping, Stages, OneRenderer, initializing,
    processing, InitAwait, DrainAwait, Coroutine, closeVars, diskVars,
    nativeVars, revVars
<1>6. ASSUME PeerVanishes PROVE Reaping'
  BY <1>0, <1>6, SeqFacts
  DEF PeerVanishes, Reaping, Stages, OneRenderer, initializing, processing,
    InitAwait, DrainAwait, Coroutine, closeVars, diskVars, nativeVars, revVars
<1>7. ASSUME SocketEvent PROVE Reaping'
  BY <1>0, <1>7, SeqFacts
  DEF SocketEvent, Close, Reaping, Stages, OneRenderer, initializing,
    processing, InitAwait, DrainAwait, Coroutine, closeVars, diskVars,
    nativeVars, revVars
<1>8. ASSUME Mkdtemp PROVE Reaping'
  BY <1>0, <1>8, SeqFacts
  DEF Mkdtemp, Reaping, Stages, OneRenderer, initializing, processing,
    InitAwait, DrainAwait, Coroutine, closeVars, diskVars, nativeVars, revVars
<1>9. ASSUME Materialize PROVE Reaping'
  BY <1>0, <1>9, SeqFacts
  DEF Materialize, Reaping, Stages, OneRenderer, initializing, processing,
    InitAwait, DrainAwait, Coroutine, closeVars, diskVars, nativeVars, revVars
<1>10. ASSUME Started PROVE Reaping'
  BY <1>0, <1>10, SeqFacts
  DEF Started, Compiled, Send, Reaping, Stages, OneRenderer, initializing,
    processing, InitAwait, DrainAwait, Coroutine, closeVars, diskVars,
    nativeVars, revVars
<1>11. ASSUME LateClose PROVE Reaping'
  BY <1>0, <1>11, SeqFacts
  DEF LateClose, Return, Reaping, Stages, OneRenderer, initializing, processing,
    InitAwait, DrainAwait, Coroutine, closeVars, diskVars, nativeVars, revVars
<1>12. ASSUME InitFails PROVE Reaping'
  BY <1>0, <1>12, SeqFacts
  DEF InitFails, FailSession, Return, Reaping, Stages, OneRenderer,
    initializing, processing, InitAwait, DrainAwait, Coroutine, closeVars,
    diskVars, nativeVars, revVars
<1>13. ASSUME ApplyOk PROVE Reaping'
  BY <1>0, <1>13, SeqFacts
  DEF ApplyOk, Compiled, Send, Reaping, Stages, OneRenderer, initializing,
    processing, InitAwait, DrainAwait, Coroutine, closeVars, diskVars,
    nativeVars, revVars
<1>14. ASSUME ApplyFails PROVE Reaping'
  BY <1>0, <1>14, SeqFacts
  DEF ApplyFails, MayDie, Send, Reaping, Stages, OneRenderer, initializing,
    processing, InitAwait, DrainAwait, Coroutine, closeVars, diskVars,
    nativeVars, revVars
<1>15. ASSUME NEW o \in Coroutine, PageOk(o) PROVE Reaping'
  BY <1>0, <1>15, SeqFacts
  DEF PageOk, Finish, Drain, TakeNext, Return, Reaping, Stages, OneRenderer,
    initializing, processing, InitAwait, DrainAwait, Coroutine, closeVars,
    diskVars, nativeVars, revVars
<1>16. ASSUME NEW o \in Coroutine, PageFails(o) PROVE Reaping'
  BY <1>0, <1>16, SeqFacts
  DEF PageFails, MayDie, Reaping, Stages, OneRenderer, initializing, processing,
    InitAwait, DrainAwait, Coroutine, closeVars, diskVars, nativeVars, revVars
<1>17. ASSUME NEW o \in Coroutine, CountOk(o) PROVE Reaping'
  BY <1>0, <1>17, SeqFacts
  DEF CountOk, FailSession, Send, Finish, Drain, TakeNext, Return, Reaping,
    Stages, OneRenderer, initializing, processing, InitAwait, DrainAwait,
    Coroutine, closeVars, diskVars, nativeVars, revVars
<1>18. ASSUME NEW o \in Coroutine, CountFails(o) PROVE Reaping'
  BY <1>0, <1>18, SeqFacts
  DEF CountFails, FailSession, Return, Reaping, Stages, OneRenderer,
    initializing, processing, InitAwait, DrainAwait, Coroutine, closeVars,
    diskVars, nativeVars, revVars
<1>19. ASSUME NativeExit PROVE Reaping'
  BY <1>0, <1>19, SeqFacts
  DEF NativeExit, Reaping, Stages, OneRenderer, initializing, processing,
    InitAwait, DrainAwait, Coroutine, closeVars, diskVars, nativeVars, revVars
<1>20. ASSUME PlainSent PROVE Reaping'
  BY <1>0, <1>20, SeqFacts
  DEF PlainSent, Reaping, Stages, OneRenderer, initializing, processing,
    InitAwait, DrainAwait, Coroutine, closeVars, diskVars, nativeVars, revVars
<1>21. ASSUME PlainRejected PROVE Reaping'
  BY <1>0, <1>21, SeqFacts
  DEF PlainRejected, Close, Reaping, Stages, OneRenderer, initializing,
    processing, InitAwait, DrainAwait, Coroutine, closeVars, diskVars,
    nativeVars, revVars
<1>22. ASSUME FatalSent PROVE Reaping'
  BY <1>0, <1>22, SeqFacts
  DEF FatalSent, Close, Reaping, Stages, OneRenderer, initializing, processing,
    InitAwait, DrainAwait, Coroutine, closeVars, diskVars, nativeVars, revVars
<1>23. ASSUME ClosedSent PROVE Reaping'
  BY <1>0, <1>23, SeqFacts
  DEF ClosedSent, Reaping, Stages, OneRenderer, initializing, processing,
    InitAwait, DrainAwait, Coroutine, closeVars, diskVars, nativeVars, revVars
<1>24. ASSUME NEW o \in Coroutine, StepSent(o) PROVE Reaping'
  BY <1>0, <1>24, SeqFacts
  DEF StepSent, Send, SendPage, StartRender, Finish, Drain, TakeNext, Return,
    Reaping, Stages, OneRenderer, initializing, processing, InitAwait,
    DrainAwait, Coroutine, closeVars, diskVars, nativeVars, revVars
<1>25. ASSUME NEW o \in Coroutine, StepRejected(o) PROVE Reaping'
  BY <1>0, <1>25, SeqFacts
  DEF StepRejected, FailSession, Return, Reaping, Stages, OneRenderer,
    initializing, processing, InitAwait, DrainAwait, Coroutine, closeVars,
    diskVars, nativeVars, revVars
<1>26. ASSUME NEW o \in Coroutine, FailureSent(o) PROVE Reaping'
  BY <1>0, <1>26, SeqFacts
  DEF FailureSent, Close, Return, Reaping, Stages, OneRenderer, initializing,
    processing, InitAwait, DrainAwait, Coroutine, closeVars, diskVars,
    nativeVars, revVars
<1>27. ASSUME Reap PROVE Reaping'
  BY <1>0, <1>27, SeqFacts
  DEF Reap, ReapSession, ReapDir, CloseDone, Reaping, Stages, OneRenderer,
    initializing, processing, InitAwait, DrainAwait, Coroutine, closeVars,
    diskVars, nativeVars, revVars
<1>28. ASSUME Terminated PROVE Reaping'
  BY <1>0, <1>28, SeqFacts
  DEF Terminated, vars, Reaping, Stages, OneRenderer, initializing, processing,
    InitAwait, DrainAwait, Coroutine, closeVars, diskVars, nativeVars, revVars
<1> QED
  BY <1>1, <1>2, <1>3, <1>4, <1>5, <1>6, <1>7, <1>8, <1>9, <1>10, <1>11, <1>12,
    <1>13, <1>14, <1>15, <1>16, <1>17, <1>18, <1>19, <1>20, <1>21, <1>22, <1>23,
    <1>24, <1>25, <1>26, <1>27, <1>28
  DEF Next, PeerStep, InitStep, NativeReply, Deliver

\* What a working coroutine knows of its revision, after every step.
LEMMA WorkingStep ==
  ASSUME IInv, Next
  PROVE  \A w \in Coroutine : Working(w)'
<1>0. /\ Stages /\ OneRenderer /\ \A o \in Coroutine : Working(o)
      /\ pc \in [Coroutine -> Await] /\ rev \in [Coroutine -> 0..MaxRevision]
      /\ queue \in Seq(Revision) /\ edits \in Seq(Revision)
  BY DEF IInv, TypeOK
<1>1. ASSUME NEW r \in Revision, Initialize(r) PROVE \A w \in Coroutine : Working(w)'
  BY <1>0, <1>1, SeqFacts
  DEF Initialize, Revision, Working, Rendering, Stages, OneRenderer,
    initializing, processing, InitAwait, DrainAwait, Coroutine, closeVars,
    diskVars, nativeVars, revVars
<1>2. ASSUME NEW r \in Revision, Change(r) PROVE \A w \in Coroutine : Working(w)'
  BY <1>0, <1>2, SeqFacts
  DEF Change, Drain, TakeNext, Working, Rendering, Stages, OneRenderer,
    initializing, processing, InitAwait, DrainAwait, Coroutine, closeVars,
    diskVars, nativeVars, revVars
<1>3. ASSUME NEW r \in Revision, QueueFull(r) PROVE \A w \in Coroutine : Working(w)'
  BY <1>0, <1>3, SeqFacts
  DEF QueueFull, Working, Rendering, Stages, OneRenderer, initializing,
    processing, InitAwait, DrainAwait, Coroutine, closeVars, diskVars,
    nativeVars, revVars
<1>4. ASSUME NEW k \in {"frame", "fatal"}, RefuseFrame(k) PROVE \A w \in Coroutine : Working(w)'
  BY <1>0, <1>4, SeqFacts
  DEF RefuseFrame, Working, Rendering, Stages, OneRenderer, initializing,
    processing, InitAwait, DrainAwait, Coroutine, closeVars, diskVars,
    nativeVars, revVars
<1>5. ASSUME CloseRequested PROVE \A w \in Coroutine : Working(w)'
  BY <1>0, <1>5, SeqFacts
  DEF CloseRequested, Close, Working, Rendering, Stages, OneRenderer,
    initializing, processing, InitAwait, DrainAwait, Coroutine, closeVars,
    diskVars, nativeVars, revVars
<1>6. ASSUME PeerVanishes PROVE \A w \in Coroutine : Working(w)'
  BY <1>0, <1>6, SeqFacts
  DEF PeerVanishes, Working, Rendering, Stages, OneRenderer, initializing,
    processing, InitAwait, DrainAwait, Coroutine, closeVars, diskVars,
    nativeVars, revVars
<1>7. ASSUME SocketEvent PROVE \A w \in Coroutine : Working(w)'
  BY <1>0, <1>7, SeqFacts
  DEF SocketEvent, Close, Working, Rendering, Stages, OneRenderer, initializing,
    processing, InitAwait, DrainAwait, Coroutine, closeVars, diskVars,
    nativeVars, revVars
<1>8. ASSUME Mkdtemp PROVE \A w \in Coroutine : Working(w)'
  BY <1>0, <1>8, SeqFacts
  DEF Mkdtemp, Working, Rendering, Stages, OneRenderer, initializing,
    processing, InitAwait, DrainAwait, Coroutine, closeVars, diskVars,
    nativeVars, revVars
<1>9. ASSUME Materialize PROVE \A w \in Coroutine : Working(w)'
  BY <1>0, <1>9, SeqFacts
  DEF Materialize, Working, Rendering, Stages, OneRenderer, initializing,
    processing, InitAwait, DrainAwait, Coroutine, closeVars, diskVars,
    nativeVars, revVars
<1>10. ASSUME Started PROVE \A w \in Coroutine : Working(w)'
  BY <1>0, <1>10, SeqFacts
  DEF Started, Compiled, Send, Working, Rendering, Stages, OneRenderer,
    initializing, processing, InitAwait, DrainAwait, Coroutine, closeVars,
    diskVars, nativeVars, revVars
<1>11. ASSUME LateClose PROVE \A w \in Coroutine : Working(w)'
  BY <1>0, <1>11, SeqFacts
  DEF LateClose, Return, Working, Rendering, Stages, OneRenderer, initializing,
    processing, InitAwait, DrainAwait, Coroutine, closeVars, diskVars,
    nativeVars, revVars
<1>12. ASSUME InitFails PROVE \A w \in Coroutine : Working(w)'
  BY <1>0, <1>12, SeqFacts
  DEF InitFails, FailSession, Return, Working, Rendering, Stages, OneRenderer,
    initializing, processing, InitAwait, DrainAwait, Coroutine, closeVars,
    diskVars, nativeVars, revVars
<1>13. ASSUME ApplyOk PROVE \A w \in Coroutine : Working(w)'
  BY <1>0, <1>13, SeqFacts
  DEF ApplyOk, Compiled, Send, Working, Rendering, Stages, OneRenderer,
    initializing, processing, InitAwait, DrainAwait, Coroutine, closeVars,
    diskVars, nativeVars, revVars
<1>14. ASSUME ApplyFails PROVE \A w \in Coroutine : Working(w)'
  BY <1>0, <1>14, SeqFacts
  DEF ApplyFails, MayDie, Send, Working, Rendering, Stages, OneRenderer,
    initializing, processing, InitAwait, DrainAwait, Coroutine, closeVars,
    diskVars, nativeVars, revVars
<1>15. ASSUME NEW o \in Coroutine, PageOk(o) PROVE \A w \in Coroutine : Working(w)'
  BY <1>0, <1>15, SeqFacts
  DEF PageOk, Finish, Drain, TakeNext, Return, Working, Rendering, Stages,
    OneRenderer, initializing, processing, InitAwait, DrainAwait, Coroutine,
    closeVars, diskVars, nativeVars, revVars
<1>16. ASSUME NEW o \in Coroutine, PageFails(o) PROVE \A w \in Coroutine : Working(w)'
  BY <1>0, <1>16, SeqFacts
  DEF PageFails, MayDie, Working, Rendering, Stages, OneRenderer, initializing,
    processing, InitAwait, DrainAwait, Coroutine, closeVars, diskVars,
    nativeVars, revVars
<1>17. ASSUME NEW o \in Coroutine, CountOk(o) PROVE \A w \in Coroutine : Working(w)'
  BY <1>0, <1>17, SeqFacts
  DEF CountOk, FailSession, Send, Finish, Drain, TakeNext, Return, Working,
    Rendering, Stages, OneRenderer, initializing, processing, InitAwait,
    DrainAwait, Coroutine, closeVars, diskVars, nativeVars, revVars
<1>18. ASSUME NEW o \in Coroutine, CountFails(o) PROVE \A w \in Coroutine : Working(w)'
  BY <1>0, <1>18, SeqFacts
  DEF CountFails, FailSession, Return, Working, Rendering, Stages, OneRenderer,
    initializing, processing, InitAwait, DrainAwait, Coroutine, closeVars,
    diskVars, nativeVars, revVars
<1>19. ASSUME NativeExit PROVE \A w \in Coroutine : Working(w)'
  BY <1>0, <1>19, SeqFacts
  DEF NativeExit, Working, Rendering, Stages, OneRenderer, initializing,
    processing, InitAwait, DrainAwait, Coroutine, closeVars, diskVars,
    nativeVars, revVars
<1>20. ASSUME PlainSent PROVE \A w \in Coroutine : Working(w)'
  BY <1>0, <1>20, SeqFacts
  DEF PlainSent, Working, Rendering, Stages, OneRenderer, initializing,
    processing, InitAwait, DrainAwait, Coroutine, closeVars, diskVars,
    nativeVars, revVars
<1>21. ASSUME PlainRejected PROVE \A w \in Coroutine : Working(w)'
  BY <1>0, <1>21, SeqFacts
  DEF PlainRejected, Close, Working, Rendering, Stages, OneRenderer,
    initializing, processing, InitAwait, DrainAwait, Coroutine, closeVars,
    diskVars, nativeVars, revVars
<1>22. ASSUME FatalSent PROVE \A w \in Coroutine : Working(w)'
  BY <1>0, <1>22, SeqFacts
  DEF FatalSent, Close, Working, Rendering, Stages, OneRenderer, initializing,
    processing, InitAwait, DrainAwait, Coroutine, closeVars, diskVars,
    nativeVars, revVars
<1>23. ASSUME ClosedSent PROVE \A w \in Coroutine : Working(w)'
  BY <1>0, <1>23, SeqFacts
  DEF ClosedSent, Working, Rendering, Stages, OneRenderer, initializing,
    processing, InitAwait, DrainAwait, Coroutine, closeVars, diskVars,
    nativeVars, revVars
<1>24. ASSUME NEW o \in Coroutine, StepSent(o) PROVE \A w \in Coroutine : Working(w)'
  BY <1>0, <1>24, SeqFacts
  DEF StepSent, Send, SendPage, StartRender, Finish, Drain, TakeNext, Return,
    Working, Rendering, Stages, OneRenderer, initializing, processing,
    InitAwait, DrainAwait, Coroutine, closeVars, diskVars, nativeVars, revVars
<1>25. ASSUME NEW o \in Coroutine, StepRejected(o) PROVE \A w \in Coroutine : Working(w)'
  BY <1>0, <1>25, SeqFacts
  DEF StepRejected, FailSession, Return, Working, Rendering, Stages,
    OneRenderer, initializing, processing, InitAwait, DrainAwait, Coroutine,
    closeVars, diskVars, nativeVars, revVars
<1>26. ASSUME NEW o \in Coroutine, FailureSent(o) PROVE \A w \in Coroutine : Working(w)'
  BY <1>0, <1>26, SeqFacts
  DEF FailureSent, Close, Return, Working, Rendering, Stages, OneRenderer,
    initializing, processing, InitAwait, DrainAwait, Coroutine, closeVars,
    diskVars, nativeVars, revVars
<1>27. ASSUME Reap PROVE \A w \in Coroutine : Working(w)'
  BY <1>0, <1>27, SeqFacts
  DEF Reap, ReapSession, ReapDir, CloseDone, Working, Rendering, Stages,
    OneRenderer, initializing, processing, InitAwait, DrainAwait, Coroutine,
    closeVars, diskVars, nativeVars, revVars
<1>28. ASSUME Terminated PROVE \A w \in Coroutine : Working(w)'
  BY <1>0, <1>28, SeqFacts
  DEF Terminated, vars, Working, Rendering, Stages, OneRenderer, initializing,
    processing, InitAwait, DrainAwait, Coroutine, closeVars, diskVars,
    nativeVars, revVars
<1> QED
  BY <1>1, <1>2, <1>3, <1>4, <1>5, <1>6, <1>7, <1>8, <1>9, <1>10, <1>11, <1>12,
    <1>13, <1>14, <1>15, <1>16, <1>17, <1>18, <1>19, <1>20, <1>21, <1>22, <1>23,
    <1>24, <1>25, <1>26, <1>27, <1>28
  DEF Next, PeerStep, InitStep, NativeReply, Deliver

\* A coroutine that finishes leaves the newest revision where Newest says.
LEMMA FinishNewest ==
  ASSUME IInv, NEW o \in Coroutine, pc[o] \in Rendering, NEW out, Finish(o, out),
         UNCHANGED <<closer, initialized, latest, applied>>
  PROVE  Newest'
<1>0. /\ Stages /\ OneRenderer /\ Newest
      /\ pc \in [Coroutine -> Await] /\ rev \in [Coroutine -> 0..MaxRevision]
      /\ queue \in Seq(Revision)
  BY DEF IInv, TypeOK
<1>1. /\ pc["drain"] \notin {"failing", "started", "apply", "refused"} /\ initialized
      /\ Return(pc, o)["drain"] = "idle"
  <2>1. CASE o = "init"
    <3>1. pc["drain"] = "idle" /\ initialized
      BY <1>0, <2>1
      DEF Rendering, Stages, OneRenderer, InitAwait, initializing, processing
    <3> QED
      BY <1>0, <2>1, <3>1 DEF Coroutine, Return
  <2>2. CASE o = "drain"
    <3>1. processing /\ initialized
      BY <1>0, <2>2 DEF Rendering, Stages, processing
    <3>2. Return(pc, o)["drain"] = "idle"
      BY <1>0, <2>2 DEF Coroutine, Return
    <3>3. pc["drain"] \in Rendering
      BY <2>2
    <3> QED
      BY <3>1, <3>2, <3>3 DEF Rendering
  <2> QED
    BY <2>1, <2>2 DEF Coroutine
<1>2. CASE closer = "open" /\ queue # <<>> /\ TakeNext(Return(pc, o), queue, out)
  <2>1. queue' = Tail(queue) /\ rev'["drain"] = Head(queue) /\ pc'["drain"] = "started"
    BY <1>0, <1>2 DEF TakeNext, Coroutine, Return
  <2>2. latest = queue[Len(queue)]
    BY <1>0, <1>1, <1>2 DEF Newest
  <2>3. queue[Len(queue)] = IF queue' # <<>> THEN queue'[Len(queue')] ELSE Head(queue)
    BY <1>0, <1>2, <2>1, TakeNextNewest
  <2> QED
    BY <2>1, <2>2, <2>3 DEF Newest, InFlight
<1>3. CASE queue' = queue /\ pc' = Return(pc, o)
  BY <1>0, <1>1, <1>3 DEF Newest, InFlight
<1> QED
  BY <1>2, <1>3 DEF Finish, Drain, TakeNext

\* Which revision is the newest, after every step.
LEMMA NewestStep ==
  ASSUME IInv, Next
  PROVE  Newest'
<1>0. /\ Stages /\ OneRenderer /\ Newest /\ \A o \in Coroutine : Working(o)
      /\ pc \in [Coroutine -> Await] /\ rev \in [Coroutine -> 0..MaxRevision]
      /\ queue \in Seq(Revision) /\ edits \in Seq(Revision)
  BY DEF IInv, TypeOK
<1>1. ASSUME NEW r \in Revision, Initialize(r) PROVE Newest'
  BY <1>0, <1>1, SeqFacts
  DEF Initialize, Revision, Newest, InFlight, Working, Rendering, Stages,
    OneRenderer, initializing, processing, InitAwait, DrainAwait, Coroutine,
    closeVars, diskVars, nativeVars, revVars
<1>2. ASSUME NEW r \in Revision, Change(r) PROVE Newest'
  <2> DEFINE q == Append(queue, r)
  <2>1. q \in Seq(Revision) /\ q # <<>> /\ Head(q) \in Revision /\ q[Len(q)] = r
    BY <1>0, SeqFacts, AppendType
  <2>2. /\ Drain(pc, q, outbound) /\ closer = "open" /\ initialized
        /\ latest' = r /\ applied' = applied
        /\ UNCHANGED <<closer, initialized>>
    BY <1>2 DEF Change, Receiving, closeVars
  <2> HIDE DEF q
  <2>3. CASE pc["drain"] = "idle" /\ pc["init"] \in {"idle", "done"}
    <3>1. queue' = Tail(q) /\ rev'["drain"] = Head(q) /\ pc'["drain"] = "started"
      BY <1>0, <2>1, <2>2, <2>3 DEF Drain, TakeNext, Coroutine
    <3>2. q[Len(q)] = IF queue' # <<>> THEN queue'[Len(queue')] ELSE Head(q)
      BY <2>1, <3>1, TakeNextNewest
    <3> QED
      BY <2>1, <2>2, <3>1, <3>2 DEF Newest, InFlight
  <2>4. CASE ~(pc["drain"] = "idle" /\ pc["init"] \in {"idle", "done"})
    <3>1. queue' = q /\ pc' = pc
      BY <2>2, <2>4 DEF Drain
    <3> QED
      BY <2>1, <2>2, <3>1 DEF Newest, InFlight
  <2> QED
    BY <2>3, <2>4
<1>3. ASSUME NEW r \in Revision, QueueFull(r) PROVE Newest'
  BY <1>0, <1>3, SeqFacts
  DEF QueueFull, Newest, InFlight, Working, Rendering, Stages, OneRenderer,
    initializing, processing, InitAwait, DrainAwait, Coroutine, closeVars,
    diskVars, nativeVars, revVars
<1>4. ASSUME NEW k \in {"frame", "fatal"}, RefuseFrame(k) PROVE Newest'
  BY <1>0, <1>4, SeqFacts
  DEF RefuseFrame, Newest, InFlight, Working, Rendering, Stages, OneRenderer,
    initializing, processing, InitAwait, DrainAwait, Coroutine, closeVars,
    diskVars, nativeVars, revVars
<1>5. ASSUME CloseRequested PROVE Newest'
  BY <1>0, <1>5, SeqFacts
  DEF CloseRequested, Close, Newest, InFlight, Working, Rendering, Stages,
    OneRenderer, initializing, processing, InitAwait, DrainAwait, Coroutine,
    closeVars, diskVars, nativeVars, revVars
<1>6. ASSUME PeerVanishes PROVE Newest'
  BY <1>0, <1>6, SeqFacts
  DEF PeerVanishes, Newest, InFlight, Working, Rendering, Stages, OneRenderer,
    initializing, processing, InitAwait, DrainAwait, Coroutine, closeVars,
    diskVars, nativeVars, revVars
<1>7. ASSUME SocketEvent PROVE Newest'
  BY <1>0, <1>7, SeqFacts
  DEF SocketEvent, Close, Newest, InFlight, Working, Rendering, Stages,
    OneRenderer, initializing, processing, InitAwait, DrainAwait, Coroutine,
    closeVars, diskVars, nativeVars, revVars
<1>8. ASSUME Mkdtemp PROVE Newest'
  BY <1>0, <1>8, SeqFacts
  DEF Mkdtemp, Newest, InFlight, Working, Rendering, Stages, OneRenderer,
    initializing, processing, InitAwait, DrainAwait, Coroutine, closeVars,
    diskVars, nativeVars, revVars
<1>9. ASSUME Materialize PROVE Newest'
  BY <1>0, <1>9, SeqFacts
  DEF Materialize, Newest, InFlight, Working, Rendering, Stages, OneRenderer,
    initializing, processing, InitAwait, DrainAwait, Coroutine, closeVars,
    diskVars, nativeVars, revVars
<1>10. ASSUME Started PROVE Newest'
  BY <1>0, <1>10, SeqFacts
  DEF Started, Compiled, Send, Newest, InFlight, Working, Rendering, Stages,
    OneRenderer, initializing, processing, InitAwait, DrainAwait, Coroutine,
    closeVars, diskVars, nativeVars, revVars
<1>11. ASSUME LateClose PROVE Newest'
  BY <1>0, <1>11, SeqFacts
  DEF LateClose, Return, Newest, InFlight, Working, Rendering, Stages,
    OneRenderer, initializing, processing, InitAwait, DrainAwait, Coroutine,
    closeVars, diskVars, nativeVars, revVars
<1>12. ASSUME InitFails PROVE Newest'
  BY <1>0, <1>12, SeqFacts
  DEF InitFails, FailSession, Return, Newest, InFlight, Working, Rendering,
    Stages, OneRenderer, initializing, processing, InitAwait, DrainAwait,
    Coroutine, closeVars, diskVars, nativeVars, revVars
<1>13. ASSUME ApplyOk PROVE Newest'
  BY <1>0, <1>13, SeqFacts
  DEF ApplyOk, Compiled, Send, Newest, InFlight, Working, Rendering, Stages,
    OneRenderer, initializing, processing, InitAwait, DrainAwait, Coroutine,
    closeVars, diskVars, nativeVars, revVars
<1>14. ASSUME ApplyFails PROVE Newest'
  BY <1>0, <1>14, SeqFacts
  DEF ApplyFails, MayDie, Send, Newest, InFlight, Working, Rendering, Stages,
    OneRenderer, initializing, processing, InitAwait, DrainAwait, Coroutine,
    closeVars, diskVars, nativeVars, revVars
<1>15. ASSUME NEW o \in Coroutine, PageOk(o) PROVE Newest'
  <2>1. pc[o] \in Rendering /\ UNCHANGED <<closer, initialized, latest, applied>>
    BY <1>15 DEF PageOk, Rendering, closeVars, revVars
  <2>2. CASE Finish(o, outbound)
    BY <2>1, <2>2, FinishNewest
  <2>3. CASE UNCHANGED <<pc, rev, queue, outbound>>
    BY <1>0, <2>1, <2>3 DEF Newest, InFlight
  <2> QED
    BY <1>15, <2>2, <2>3 DEF PageOk
<1>16. ASSUME NEW o \in Coroutine, PageFails(o) PROVE Newest'
  BY <1>0, <1>16, SeqFacts
  DEF PageFails, MayDie, Newest, InFlight, Working, Rendering, Stages,
    OneRenderer, initializing, processing, InitAwait, DrainAwait, Coroutine,
    closeVars, diskVars, nativeVars, revVars
<1>17. ASSUME NEW o \in Coroutine, CountOk(o) PROVE Newest'
  <2>1. /\ pc[o] \in Rendering /\ UNCHANGED <<closer, initialized, latest, applied>>
        /\ pc[o] = "count"
    BY <1>17 DEF CountOk, Rendering, closeVars, revVars
  <2>2. CASE Finish(o, outbound)
    BY <2>1, <2>2, FinishNewest
  <2>3. CASE FailSession(o, outbound) /\ UNCHANGED <<rev, queue>>
    BY <1>0, <2>1, <2>3 DEF FailSession, Return, Newest, InFlight, Coroutine
  <2>4. CASE UNCHANGED <<rev, queue>> /\ pc' = [pc EXCEPT ![o] = "doc"]
    BY <1>0, <2>1, <2>4 DEF Newest, InFlight, Coroutine
  <2> QED
    BY <1>17, <2>2, <2>3, <2>4 DEF CountOk, Send
<1>18. ASSUME NEW o \in Coroutine, CountFails(o) PROVE Newest'
  BY <1>0, <1>18, SeqFacts
  DEF CountFails, FailSession, Return, Newest, InFlight, Working, Rendering,
    Stages, OneRenderer, initializing, processing, InitAwait, DrainAwait,
    Coroutine, closeVars, diskVars, nativeVars, revVars
<1>19. ASSUME NativeExit PROVE Newest'
  BY <1>0, <1>19, SeqFacts
  DEF NativeExit, Newest, InFlight, Working, Rendering, Stages, OneRenderer,
    initializing, processing, InitAwait, DrainAwait, Coroutine, closeVars,
    diskVars, nativeVars, revVars
<1>20. ASSUME PlainSent PROVE Newest'
  BY <1>0, <1>20, SeqFacts
  DEF PlainSent, Newest, InFlight, Working, Rendering, Stages, OneRenderer,
    initializing, processing, InitAwait, DrainAwait, Coroutine, closeVars,
    diskVars, nativeVars, revVars
<1>21. ASSUME PlainRejected PROVE Newest'
  BY <1>0, <1>21, SeqFacts
  DEF PlainRejected, Close, Newest, InFlight, Working, Rendering, Stages,
    OneRenderer, initializing, processing, InitAwait, DrainAwait, Coroutine,
    closeVars, diskVars, nativeVars, revVars
<1>22. ASSUME FatalSent PROVE Newest'
  BY <1>0, <1>22, SeqFacts
  DEF FatalSent, Close, Newest, InFlight, Working, Rendering, Stages,
    OneRenderer, initializing, processing, InitAwait, DrainAwait, Coroutine,
    closeVars, diskVars, nativeVars, revVars
<1>23. ASSUME ClosedSent PROVE Newest'
  BY <1>0, <1>23, SeqFacts
  DEF ClosedSent, Newest, InFlight, Working, Rendering, Stages, OneRenderer,
    initializing, processing, InitAwait, DrainAwait, Coroutine, closeVars,
    diskVars, nativeVars, revVars
<1>24. ASSUME NEW o \in Coroutine, StepSent(o) PROVE Newest'
  <2>1. UNCHANGED <<closer, initialized, latest, applied>>
    BY <1>24 DEF StepSent, closeVars, revVars
  <2>2. ASSUME pc[o] = "started", pc' = [pc EXCEPT ![o] = "apply"],
               UNCHANGED <<shot, rev, queue>>
        PROVE  Newest'
    BY <1>0, <2>1, <2>2 DEF Newest, InFlight, Coroutine
  <2>3. ASSUME NEW t \in {"page", "error", "send", "complete"}, pc[o] \in Rendering,
               pc' = [pc EXCEPT ![o] = t], UNCHANGED <<rev, queue>>
        PROVE  Newest'
    BY <1>0, <2>1, <2>3 DEF Newest, InFlight, Coroutine, Rendering
  <2>4. ASSUME pc[o] \in Rendering, Finish(o, Rest) PROVE Newest'
    BY <2>1, <2>4, FinishNewest
  <2>5. CASE pc[o] = "started"
    BY <1>24, <2>2, <2>5 DEF StepSent
  <2>6. CASE pc[o] = "notrendered" \/ (pc[o] = "ready" /\ latexError)
    BY <1>24, <2>3, <2>6 DEF StepSent, Send, Rendering
  <2>7. CASE pc[o] = "pending" \/ (pc[o] = "ready" /\ ~latexError)
    <3>1. pc[o] \in Rendering /\ StartRender(o, Rest)
      BY <1>24, <2>7 DEF StepSent, Rendering
    <3> QED
      BY <2>3, <2>4, <3>1 DEF StartRender
  <2>8. CASE pc[o] \in {"coalesced", "error", "complete"}
    BY <1>24, <2>4, <2>8 DEF StepSent, Rendering
  <2>9. CASE pc[o] \in {"doc", "send"}
    BY <1>24, <2>3, <2>9 DEF StepSent, Send, SendPage, Rendering
  <2> QED
    BY <1>24, <2>5, <2>6, <2>7, <2>8, <2>9 DEF StepSent
<1>25. ASSUME NEW o \in Coroutine, StepRejected(o) PROVE Newest'
  BY <1>0, <1>25, SeqFacts
  DEF StepRejected, FailSession, Return, Newest, InFlight, Working, Rendering,
    Stages, OneRenderer, initializing, processing, InitAwait, DrainAwait,
    Coroutine, closeVars, diskVars, nativeVars, revVars
<1>26. ASSUME NEW o \in Coroutine, FailureSent(o) PROVE Newest'
  BY <1>0, <1>26, SeqFacts
  DEF FailureSent, Close, Return, Newest, InFlight, Working, Rendering, Stages,
    OneRenderer, initializing, processing, InitAwait, DrainAwait, Coroutine,
    closeVars, diskVars, nativeVars, revVars
<1>27. ASSUME Reap PROVE Newest'
  <2>1. CASE ReapSession
    BY <1>0, <2>1
    DEF ReapSession, Newest, InFlight, Working, Rendering, Stages, OneRenderer,
      initializing, processing, InitAwait, DrainAwait, Coroutine, closeVars,
      diskVars, nativeVars, revVars
  <2>2. CASE ReapDir
    BY <1>0, <2>2
    DEF ReapDir, Newest, InFlight, Working, Rendering, Stages, OneRenderer,
      initializing, processing, InitAwait, DrainAwait, Coroutine, closeVars,
      diskVars, nativeVars, revVars
  <2>3. CASE CloseDone
    BY <1>0, <2>3
    DEF CloseDone, Newest, InFlight, Working, Rendering, Stages, OneRenderer,
      initializing, processing, InitAwait, DrainAwait, Coroutine, closeVars,
      diskVars, nativeVars, revVars
  <2> QED
    BY <1>27, <2>1, <2>2, <2>3 DEF Reap
<1>28. ASSUME Terminated PROVE Newest'
  BY <1>0, <1>28, SeqFacts
  DEF Terminated, vars, Newest, InFlight, Working, Rendering, Stages,
    OneRenderer, initializing, processing, InitAwait, DrainAwait, Coroutine,
    closeVars, diskVars, nativeVars, revVars
<1> QED
  BY <1>1, <1>2, <1>3, <1>4, <1>5, <1>6, <1>7, <1>8, <1>9, <1>10, <1>11, <1>12,
    <1>13, <1>14, <1>15, <1>16, <1>17, <1>18, <1>19, <1>20, <1>21, <1>22, <1>23,
    <1>24, <1>25, <1>26, <1>27, <1>28
  DEF Next, PeerStep, InitStep, NativeReply, Deliver

\* A session at rest shows its newest revision, after every step.
LEMMA SettledStep ==
  ASSUME IInv, Next
  PROVE  SettledIsShown'
<1>0. /\ Stages /\ OneRenderer /\ Newest /\ SettledIsShown /\ \A o \in Coroutine : Working(o)
      /\ pc \in [Coroutine -> Await] /\ rev \in [Coroutine -> 0..MaxRevision]
      /\ queue \in Seq(Revision) /\ edits \in Seq(Revision)
  BY DEF IInv, TypeOK
<1>1. ASSUME NEW r \in Revision, Initialize(r) PROVE SettledIsShown'
  BY <1>0, <1>1, SeqFacts
  DEF Initialize, Revision, SettledIsShown, Newest, InFlight, Working,
    Rendering, Stages, OneRenderer, initializing, processing, InitAwait,
    DrainAwait, Coroutine, closeVars, diskVars, nativeVars, revVars
<1>2. ASSUME NEW r \in Revision, Change(r) PROVE SettledIsShown'
  BY <1>0, <1>2, SeqFacts
  DEF Change, Drain, TakeNext, SettledIsShown, Newest, InFlight, Working,
    Rendering, Stages, OneRenderer, initializing, processing, InitAwait,
    DrainAwait, Coroutine, closeVars, diskVars, nativeVars, revVars
<1>3. ASSUME NEW r \in Revision, QueueFull(r) PROVE SettledIsShown'
  BY <1>0, <1>3, SeqFacts
  DEF QueueFull, SettledIsShown, Newest, InFlight, Working, Rendering, Stages,
    OneRenderer, initializing, processing, InitAwait, DrainAwait, Coroutine,
    closeVars, diskVars, nativeVars, revVars
<1>4. ASSUME NEW k \in {"frame", "fatal"}, RefuseFrame(k) PROVE SettledIsShown'
  BY <1>0, <1>4, SeqFacts
  DEF RefuseFrame, SettledIsShown, Newest, InFlight, Working, Rendering, Stages,
    OneRenderer, initializing, processing, InitAwait, DrainAwait, Coroutine,
    closeVars, diskVars, nativeVars, revVars
<1>5. ASSUME CloseRequested PROVE SettledIsShown'
  BY <1>0, <1>5, SeqFacts
  DEF CloseRequested, Close, SettledIsShown, Newest, InFlight, Working,
    Rendering, Stages, OneRenderer, initializing, processing, InitAwait,
    DrainAwait, Coroutine, closeVars, diskVars, nativeVars, revVars
<1>6. ASSUME PeerVanishes PROVE SettledIsShown'
  BY <1>0, <1>6, SeqFacts
  DEF PeerVanishes, SettledIsShown, Newest, InFlight, Working, Rendering,
    Stages, OneRenderer, initializing, processing, InitAwait, DrainAwait,
    Coroutine, closeVars, diskVars, nativeVars, revVars
<1>7. ASSUME SocketEvent PROVE SettledIsShown'
  BY <1>0, <1>7, SeqFacts
  DEF SocketEvent, Close, SettledIsShown, Newest, InFlight, Working, Rendering,
    Stages, OneRenderer, initializing, processing, InitAwait, DrainAwait,
    Coroutine, closeVars, diskVars, nativeVars, revVars
<1>8. ASSUME Mkdtemp PROVE SettledIsShown'
  BY <1>0, <1>8, SeqFacts
  DEF Mkdtemp, SettledIsShown, Newest, InFlight, Working, Rendering, Stages,
    OneRenderer, initializing, processing, InitAwait, DrainAwait, Coroutine,
    closeVars, diskVars, nativeVars, revVars
<1>9. ASSUME Materialize PROVE SettledIsShown'
  BY <1>0, <1>9, SeqFacts
  DEF Materialize, SettledIsShown, Newest, InFlight, Working, Rendering, Stages,
    OneRenderer, initializing, processing, InitAwait, DrainAwait, Coroutine,
    closeVars, diskVars, nativeVars, revVars
<1>10. ASSUME Started PROVE SettledIsShown'
  BY <1>0, <1>10, SeqFacts
  DEF Started, Compiled, Send, SettledIsShown, Newest, InFlight, Working,
    Rendering, Stages, OneRenderer, initializing, processing, InitAwait,
    DrainAwait, Coroutine, closeVars, diskVars, nativeVars, revVars
<1>11. ASSUME LateClose PROVE SettledIsShown'
  BY <1>0, <1>11, SeqFacts
  DEF LateClose, Return, SettledIsShown, Newest, InFlight, Working, Rendering,
    Stages, OneRenderer, initializing, processing, InitAwait, DrainAwait,
    Coroutine, closeVars, diskVars, nativeVars, revVars
<1>12. ASSUME InitFails PROVE SettledIsShown'
  BY <1>0, <1>12, SeqFacts
  DEF InitFails, FailSession, Return, SettledIsShown, Newest, InFlight, Working,
    Rendering, Stages, OneRenderer, initializing, processing, InitAwait,
    DrainAwait, Coroutine, closeVars, diskVars, nativeVars, revVars
<1>13. ASSUME ApplyOk PROVE SettledIsShown'
  BY <1>0, <1>13, SeqFacts
  DEF ApplyOk, Compiled, Send, SettledIsShown, Newest, InFlight, Working,
    Rendering, Stages, OneRenderer, initializing, processing, InitAwait,
    DrainAwait, Coroutine, closeVars, diskVars, nativeVars, revVars
<1>14. ASSUME ApplyFails PROVE SettledIsShown'
  BY <1>0, <1>14, SeqFacts
  DEF ApplyFails, MayDie, Send, SettledIsShown, Newest, InFlight, Working,
    Rendering, Stages, OneRenderer, initializing, processing, InitAwait,
    DrainAwait, Coroutine, closeVars, diskVars, nativeVars, revVars
<1>15. ASSUME NEW o \in Coroutine, PageOk(o) PROVE SettledIsShown'
  BY <1>0, <1>15, SeqFacts
  DEF PageOk, Finish, Drain, TakeNext, Return, SettledIsShown, Newest, InFlight,
    Working, Rendering, Stages, OneRenderer, initializing, processing,
    InitAwait, DrainAwait, Coroutine, closeVars, diskVars, nativeVars, revVars
<1>16. ASSUME NEW o \in Coroutine, PageFails(o) PROVE SettledIsShown'
  BY <1>0, <1>16, SeqFacts
  DEF PageFails, MayDie, SettledIsShown, Newest, InFlight, Working, Rendering,
    Stages, OneRenderer, initializing, processing, InitAwait, DrainAwait,
    Coroutine, closeVars, diskVars, nativeVars, revVars
<1>17. ASSUME NEW o \in Coroutine, CountOk(o) PROVE SettledIsShown'
  BY <1>0, <1>17, SeqFacts
  DEF CountOk, FailSession, Send, Finish, Drain, TakeNext, Return,
    SettledIsShown, Newest, InFlight, Working, Rendering, Stages, OneRenderer,
    initializing, processing, InitAwait, DrainAwait, Coroutine, closeVars,
    diskVars, nativeVars, revVars
<1>18. ASSUME NEW o \in Coroutine, CountFails(o) PROVE SettledIsShown'
  BY <1>0, <1>18, SeqFacts
  DEF CountFails, FailSession, Return, SettledIsShown, Newest, InFlight,
    Working, Rendering, Stages, OneRenderer, initializing, processing,
    InitAwait, DrainAwait, Coroutine, closeVars, diskVars, nativeVars, revVars
<1>19. ASSUME NativeExit PROVE SettledIsShown'
  BY <1>0, <1>19, SeqFacts
  DEF NativeExit, SettledIsShown, Newest, InFlight, Working, Rendering, Stages,
    OneRenderer, initializing, processing, InitAwait, DrainAwait, Coroutine,
    closeVars, diskVars, nativeVars, revVars
<1>20. ASSUME PlainSent PROVE SettledIsShown'
  BY <1>0, <1>20, SeqFacts
  DEF PlainSent, SettledIsShown, Newest, InFlight, Working, Rendering, Stages,
    OneRenderer, initializing, processing, InitAwait, DrainAwait, Coroutine,
    closeVars, diskVars, nativeVars, revVars
<1>21. ASSUME PlainRejected PROVE SettledIsShown'
  BY <1>0, <1>21, SeqFacts
  DEF PlainRejected, Close, SettledIsShown, Newest, InFlight, Working,
    Rendering, Stages, OneRenderer, initializing, processing, InitAwait,
    DrainAwait, Coroutine, closeVars, diskVars, nativeVars, revVars
<1>22. ASSUME FatalSent PROVE SettledIsShown'
  BY <1>0, <1>22, SeqFacts
  DEF FatalSent, Close, SettledIsShown, Newest, InFlight, Working, Rendering,
    Stages, OneRenderer, initializing, processing, InitAwait, DrainAwait,
    Coroutine, closeVars, diskVars, nativeVars, revVars
<1>23. ASSUME ClosedSent PROVE SettledIsShown'
  BY <1>0, <1>23, SeqFacts
  DEF ClosedSent, SettledIsShown, Newest, InFlight, Working, Rendering, Stages,
    OneRenderer, initializing, processing, InitAwait, DrainAwait, Coroutine,
    closeVars, diskVars, nativeVars, revVars
<1>24. ASSUME NEW o \in Coroutine, StepSent(o) PROVE SettledIsShown'
  BY <1>0, <1>24, SeqFacts
  DEF StepSent, Send, SendPage, StartRender, Finish, Drain, TakeNext, Return,
    SettledIsShown, Newest, InFlight, Working, Rendering, Stages, OneRenderer,
    initializing, processing, InitAwait, DrainAwait, Coroutine, closeVars,
    diskVars, nativeVars, revVars
<1>25. ASSUME NEW o \in Coroutine, StepRejected(o) PROVE SettledIsShown'
  BY <1>0, <1>25, SeqFacts
  DEF StepRejected, FailSession, Return, SettledIsShown, Newest, InFlight,
    Working, Rendering, Stages, OneRenderer, initializing, processing,
    InitAwait, DrainAwait, Coroutine, closeVars, diskVars, nativeVars, revVars
<1>26. ASSUME NEW o \in Coroutine, FailureSent(o) PROVE SettledIsShown'
  BY <1>0, <1>26, SeqFacts
  DEF FailureSent, Close, Return, SettledIsShown, Newest, InFlight, Working,
    Rendering, Stages, OneRenderer, initializing, processing, InitAwait,
    DrainAwait, Coroutine, closeVars, diskVars, nativeVars, revVars
<1>27. ASSUME Reap PROVE SettledIsShown'
  <2>1. CASE ReapSession
    BY <1>0, <2>1
    DEF ReapSession, SettledIsShown, Newest, InFlight, Working, Rendering,
      Stages, OneRenderer, initializing, processing, InitAwait, DrainAwait,
      Coroutine, closeVars, diskVars, nativeVars, revVars
  <2>2. CASE ReapDir
    BY <1>0, <2>2
    DEF ReapDir, SettledIsShown, Newest, InFlight, Working, Rendering, Stages,
      OneRenderer, initializing, processing, InitAwait, DrainAwait, Coroutine,
      closeVars, diskVars, nativeVars, revVars
  <2>3. CASE CloseDone
    BY <1>0, <2>3
    DEF CloseDone, SettledIsShown, Newest, InFlight, Working, Rendering, Stages,
      OneRenderer, initializing, processing, InitAwait, DrainAwait, Coroutine,
      closeVars, diskVars, nativeVars, revVars
  <2> QED
    BY <1>27, <2>1, <2>2, <2>3 DEF Reap
<1>28. ASSUME Terminated PROVE SettledIsShown'
  BY <1>0, <1>28, SeqFacts
  DEF Terminated, vars, SettledIsShown, Newest, InFlight, Working, Rendering,
    Stages, OneRenderer, initializing, processing, InitAwait, DrainAwait,
    Coroutine, closeVars, diskVars, nativeVars, revVars
<1> QED
  BY <1>1, <1>2, <1>3, <1>4, <1>5, <1>6, <1>7, <1>8, <1>9, <1>10, <1>11, <1>12,
    <1>13, <1>14, <1>15, <1>16, <1>17, <1>18, <1>19, <1>20, <1>21, <1>22, <1>23,
    <1>24, <1>25, <1>26, <1>27, <1>28
  DEF Next, PeerStep, InitStep, NativeReply, Deliver

\* The invariant holds of a connection that has just been opened.
LEMMA InitIInv == Init => IInv
<1> SUFFICES ASSUME Init PROVE IInv
  OBVIOUS
<1>1. /\ Revision \subseteq Nat /\ <<>> \in Seq(Revision) /\ <<>> \in Seq(Frame)
      /\ Len(<<>>) = 0
  BY DEF Revision
<1>2. TypeOK
  <2>1. /\ pc \in [Coroutine -> Await] /\ rev \in [Coroutine -> 0..MaxRevision]
        /\ shot \in [Coroutine -> Seq(Revision)]
    BY <1>1, LiveAssumption DEF Init, Await
  <2>2. Len(queue) <= QueueLimit /\ pages \in 0..(PageLimit + 1)
    BY <1>1, LiveAssumption DEF Init
  <2>3. /\ edits \in Seq(Revision) /\ queue \in Seq(Revision)
        /\ outbound \in Seq(Frame) /\ accepted \in Seq(Revision)
    BY <1>1 DEF Init
  <2>4. /\ socket = "open" /\ closer = "open" /\ native = "none"
        /\ reapSession \in BOOLEAN /\ reapDir \in BOOLEAN /\ workspace \in BOOLEAN
        /\ dir \in BOOLEAN /\ latexError \in BOOLEAN /\ initialized \in BOOLEAN
    BY DEF Init
  <2>5. /\ latest \in 0..MaxRevision /\ applied \in 0..MaxRevision
        /\ lastGood \in 0..MaxRevision
    BY LiveAssumption DEF Init
  <2> QED
    BY <2>1, <2>2, <2>3, <2>4, <2>5 DEF TypeOK
<1>3. /\ closer = "open" /\ reapSession = FALSE /\ reapDir = FALSE /\ ~initialized
      /\ pc["init"] = "idle" /\ pc["drain"] = "idle" /\ queue = <<>>
  BY DEF Init, Coroutine
<1>4. Stages /\ OneRenderer
  BY <1>3
  DEF Stages, OneRenderer, initializing, processing, InitAwait, DrainAwait
<1>5. Newest /\ SettledIsShown /\ Reaping
  BY <1>3 DEF Newest, SettledIsShown, Reaping
<1>6. \A o \in Coroutine : Working(o)
  BY <1>3 DEF Coroutine, Working, Rendering
<1> QED
  BY <1>2, <1>4, <1>5, <1>6 DEF IInv

\* The invariant is inductive.
LEMMA Inductive == IInv /\ [Next]_vars => IInv'
<1> SUFFICES ASSUME IInv, [Next]_vars PROVE IInv'
  OBVIOUS
<1>1. CASE Next
  BY <1>1, TypeStep, StagesStep, ReapingStep, WorkingStep, NewestStep,
    SettledStep
  DEF IInv
<1>2. CASE UNCHANGED vars
  <2>1. TypeOK'
    BY <1>2 DEF IInv, TypeOK, vars
  <2>2. Stages' /\ OneRenderer' /\ Reaping' /\ SettledIsShown'
    BY <1>2
    DEF IInv, vars, Stages, OneRenderer, Reaping, SettledIsShown, initializing,
      processing
  <2>3. Newest' /\ \A o \in Coroutine : Working(o)'
    BY <1>2 DEF IInv, vars, Newest, InFlight, Working
  <2> QED
    BY <2>1, <2>2, <2>3 DEF IInv
<1> QED
  BY <1>1, <1>2

\* Every reachable state satisfies the invariant.
THEOREM Invariance == Spec => []IInv
  BY InitIInv, Inductive, PTL DEF Spec

\* Types hold, and no client can make the queue of pending changes exceed its
\* limit (enqueueChange).
THEOREM TypeCorrect == Spec => []TypeOK
<1>1. IInv => TypeOK
  BY DEF IInv
<1> QED
  BY <1>1, Invariance, PTL

\* The initial render and drainChanges never overlap (drainChanges).
THEOREM RenderersExclude == Spec => []OneRenderer
<1>1. IInv => OneRenderer
  BY DEF IInv
<1> QED
  BY <1>1, Invariance, PTL

\* No change is left in the queue of an idle session and its newest revision
\* has been published or does not compile (drainChanges, renderRevision).
THEOREM NoLostWakeup == Spec => []SettledIsShown
<1>1. IInv => SettledIsShown
  BY DEF IInv
<1> QED
  BY <1>1, Invariance, PTL

\* close() leaves no process and no directory of an initialized connection.
THEOREM NothingLeft == Spec => []Reaped
<1>1. IInv => Reaped
  BY DEF IInv, Reaping, Reaped
<1> QED
  BY <1>1, Invariance, PTL


-----------------------------------------------------------------------------
\* The edits do not move, or the next one is dequeued.
NothingTaken ==
  closer' = "open" /\ initialized' /\ pc'["drain"] # "failing" =>
    /\ closer = "open" /\ initialized /\ pc["drain"] # "failing"
    /\ accepted' = accepted /\ edits' = edits
    /\ \/ queue' = queue /\ InFlight' = InFlight
       \/ /\ queue # <<>> /\ InFlight = <<>>
          /\ queue' = Tail(queue) /\ InFlight' = <<Head(queue)>>

\* Where the edits are is not changed by dequeueing one.
LEMMA NothingTakenKeeps ==
  ASSUME IInv, IInv', NoEditLost, NothingTaken
  PROVE  NoEditLost'
<1> SUFFICES ASSUME closer' = "open", initialized', pc'["drain"] # "failing"
             PROVE  accepted' = edits' \o InFlight' \o queue'
  BY DEF NoEditLost
<1>1. /\ accepted = edits \o InFlight \o queue /\ accepted' = accepted /\ edits' = edits
  BY DEF NothingTaken, NoEditLost
<1>2. CASE queue' = queue /\ InFlight' = InFlight
  BY <1>1, <1>2
<1>3. CASE /\ queue # <<>> /\ InFlight = <<>>
           /\ queue' = Tail(queue) /\ InFlight' = <<Head(queue)>>
  <2>1. edits \in Seq(Revision) /\ queue \in Seq(Revision)
    BY DEF IInv, TypeOK
  <2>2. Tail(queue) \in Seq(Revision) /\ <<Head(queue)>> \in Seq(Revision)
        /\ <<>> \in Seq(Revision)
    BY <1>3, <2>1, SeqFacts
  <2>3. <<Head(queue)>> \o Tail(queue) = queue
    BY <1>3, <2>1
  <2>4. edits \o <<>> = edits
    BY <2>1, ConcatEmptySeq
  <2>5. (edits \o <<Head(queue)>>) \o Tail(queue) = edits \o (<<Head(queue)>> \o Tail(queue))
    BY <2>1, <2>2, ConcatAssociative
  <2> QED
    BY <1>1, <1>3, <2>3, <2>4, <2>5
<1> QED
  BY <1>2, <1>3 DEF NothingTaken

\* The order of the edits: those applied, the one in flight, the queued ones.
Line(e, f, q)   == e \o f \o q
Queued(s, r)    == Append(s, r)
TakenFrom(e, s) == Line(e, <<Head(s)>>, Tail(s))

\* An edit appended to the queue, and at once dequeued if nothing was in flight,
\* is the last of the accepted ones.
LEMMA AppendedStays ==
  ASSUME NEW S, NEW e \in Seq(S), NEW f \in Seq(S), NEW q \in Seq(S), NEW r \in S
  PROVE  /\ Queued(Line(e, f, q), r) = Line(e, f, Queued(q, r))
         /\ f = <<>> => Queued(Line(e, f, q), r) = TakenFrom(e, Queued(q, r))
<1> DEFINE more == Append(q, r)
<1>1. more \in Seq(S) /\ more # <<>> /\ e \o f \in Seq(S) /\ more = q \o <<r>>
      /\ <<r>> \in Seq(S)
  BY AppendIsConcat, ConcatProperties
<1>2. (e \o f) \o q \in Seq(S)
  BY <1>1, ConcatProperties
<1>3. Append((e \o f) \o q, r) = ((e \o f) \o q) \o <<r>>
  BY <1>2, AppendIsConcat
<1>4. ((e \o f) \o q) \o <<r>> = (e \o f) \o more
  BY <1>1, ConcatAssociative
<1>5. ASSUME f = <<>>
      PROVE  Append((e \o f) \o q, r) = (e \o <<Head(more)>>) \o Tail(more)
  <2>0. more \in Seq(S) /\ more # <<>>
    BY <1>1
  <2> HIDE DEF more
  <2>1. Tail(more) \in Seq(S) /\ <<Head(more)>> \in Seq(S)
    BY <2>0, SeqFacts
  <2>2. <<Head(more)>> \o Tail(more) = more
    BY <2>0
  <2>3. e \o <<>> = e
    BY ConcatEmptySeq
  <2>4. (e \o <<Head(more)>>) \o Tail(more) = e \o (<<Head(more)>> \o Tail(more))
    BY <2>1, ConcatAssociative
  <2> QED
    BY <1>3, <1>4, <1>5, <2>2, <2>3, <2>4
<1> QED
  BY <1>3, <1>4, <1>5 DEF Queued, Line, TakenFrom

\* Only enqueueChange accepts an edit and only ApplyOk applies one.
LEMMA EditsStep ==
  ASSUME IInv, NoEditLost, [Next]_vars
  PROVE  NoEditLost'
<1>0. /\ IInv' /\ Stages /\ OneRenderer
      /\ pc \in [Coroutine -> Await] /\ rev \in [Coroutine -> 0..MaxRevision]
      /\ queue \in Seq(Revision) /\ edits \in Seq(Revision) /\ accepted \in Seq(Revision)
  BY Inductive DEF IInv, TypeOK
<1>1. ASSUME NEW r \in Revision, Initialize(r) PROVE NoEditLost'
  <2>1. NothingTaken
    BY <1>0, <1>1 DEF Initialize, NothingTaken
  <2> QED
    BY <1>0, <2>1, NothingTakenKeeps
<1>2. ASSUME NEW r \in Revision, QueueFull(r) PROVE NoEditLost'
  <2>1. NothingTaken
    BY <1>0, <1>2
    DEF QueueFull, closeVars, nativeVars, revVars, NothingTaken, InFlight
  <2> QED
    BY <1>0, <2>1, NothingTakenKeeps
<1>3. ASSUME NEW k \in {"frame", "fatal"}, RefuseFrame(k) PROVE NoEditLost'
  <2>1. NothingTaken
    BY <1>0, <1>3
    DEF RefuseFrame, closeVars, nativeVars, revVars, NothingTaken, InFlight
  <2> QED
    BY <1>0, <2>1, NothingTakenKeeps
<1>4. ASSUME CloseRequested PROVE NoEditLost'
  <2>1. NothingTaken
    BY <1>0, <1>4 DEF CloseRequested, Close, NothingTaken
  <2> QED
    BY <1>0, <2>1, NothingTakenKeeps
<1>5. ASSUME PeerVanishes PROVE NoEditLost'
  <2>1. NothingTaken
    BY <1>0, <1>5
    DEF PeerVanishes, closeVars, nativeVars, revVars, NothingTaken, InFlight
  <2> QED
    BY <1>0, <2>1, NothingTakenKeeps
<1>6. ASSUME SocketEvent PROVE NoEditLost'
  <2>1. NothingTaken
    BY <1>0, <1>6 DEF SocketEvent, Close, closeVars, NothingTaken
  <2> QED
    BY <1>0, <2>1, NothingTakenKeeps
<1>7. ASSUME Mkdtemp PROVE NoEditLost'
  <2>1. NothingTaken
    BY <1>0, <1>7 DEF Mkdtemp, NothingTaken, Stages
  <2> QED
    BY <1>0, <2>1, NothingTakenKeeps
<1>8. ASSUME Materialize PROVE NoEditLost'
  <2>1. NothingTaken
    BY <1>0, <1>8 DEF Materialize, NothingTaken, Stages
  <2> QED
    BY <1>0, <2>1, NothingTakenKeeps
<1>9. ASSUME LateClose PROVE NoEditLost'
  <2>1. NothingTaken
    BY <1>0, <1>9 DEF LateClose, NothingTaken, Stages
  <2> QED
    BY <1>0, <2>1, NothingTakenKeeps
<1>10. ASSUME InitFails PROVE NoEditLost'
  <2>1. NothingTaken
    BY <1>0, <1>10 DEF InitFails, NothingTaken, Stages
  <2> QED
    BY <1>0, <2>1, NothingTakenKeeps
<1>11. ASSUME ApplyFails PROVE NoEditLost'
  <2>1. NothingTaken
    BY <1>0, <1>11
    DEF ApplyFails, Send, closeVars, revVars, NothingTaken, InFlight
  <2> QED
    BY <1>0, <2>1, NothingTakenKeeps
<1>12. ASSUME NEW o \in Coroutine, PageOk(o) PROVE NoEditLost'
  <2>1. NothingTaken
    BY <1>0, <1>12
    DEF PageOk, Finish, Drain, TakeNext, Return, closeVars, nativeVars, revVars,
      NothingTaken, InFlight, Coroutine
  <2> QED
    BY <1>0, <2>1, NothingTakenKeeps
<1>13. ASSUME NEW o \in Coroutine, PageFails(o) PROVE NoEditLost'
  <2>1. NothingTaken
    BY <1>0, <1>13 DEF PageFails, closeVars, revVars, NothingTaken, InFlight
  <2> QED
    BY <1>0, <2>1, NothingTakenKeeps
<1>14. ASSUME NEW o \in Coroutine, CountOk(o) PROVE NoEditLost'
  <2>1. NothingTaken
    BY <1>0, <1>14
    DEF CountOk, FailSession, Send, Finish, Drain, TakeNext, Return, closeVars,
      nativeVars, NothingTaken, InFlight, Coroutine
  <2> QED
    BY <1>0, <2>1, NothingTakenKeeps
<1>15. ASSUME NEW o \in Coroutine, CountFails(o) PROVE NoEditLost'
  <2>1. NothingTaken
    BY <1>0, <1>15
    DEF CountFails, FailSession, closeVars, revVars, NothingTaken, InFlight,
      Coroutine
  <2> QED
    BY <1>0, <2>1, NothingTakenKeeps
<1>16. ASSUME NativeExit PROVE NoEditLost'
  <2>1. NothingTaken
    BY <1>0, <1>16 DEF NativeExit, closeVars, revVars, NothingTaken, InFlight
  <2> QED
    BY <1>0, <2>1, NothingTakenKeeps
<1>17. ASSUME PlainSent PROVE NoEditLost'
  <2>1. NothingTaken
    BY <1>0, <1>17
    DEF PlainSent, closeVars, nativeVars, revVars, NothingTaken, InFlight
  <2> QED
    BY <1>0, <2>1, NothingTakenKeeps
<1>18. ASSUME PlainRejected PROVE NoEditLost'
  <2>1. NothingTaken
    BY <1>0, <1>18 DEF PlainRejected, Close, closeVars, NothingTaken
  <2> QED
    BY <1>0, <2>1, NothingTakenKeeps
<1>19. ASSUME FatalSent PROVE NoEditLost'
  <2>1. NothingTaken
    BY <1>0, <1>19 DEF FatalSent, Close, closeVars, NothingTaken
  <2> QED
    BY <1>0, <2>1, NothingTakenKeeps
<1>20. ASSUME ClosedSent PROVE NoEditLost'
  <2>1. NothingTaken
    BY <1>0, <1>20 DEF ClosedSent, NothingTaken
  <2> QED
    BY <1>0, <2>1, NothingTakenKeeps
<1>21. ASSUME NEW o \in Coroutine, StepSent(o) PROVE NoEditLost'
  <2>1. NothingTaken
    BY <1>0, <1>21
    DEF StepSent, Send, SendPage, StartRender, Finish, Drain, TakeNext, Return,
      closeVars, nativeVars, revVars, NothingTaken, InFlight, Coroutine
  <2> QED
    BY <1>0, <2>1, NothingTakenKeeps
<1>22. ASSUME NEW o \in Coroutine, StepRejected(o) PROVE NoEditLost'
  <2>1. NothingTaken
    BY <1>0, <1>22
    DEF StepRejected, FailSession, closeVars, nativeVars, revVars, NothingTaken,
      InFlight, Coroutine
  <2> QED
    BY <1>0, <2>1, NothingTakenKeeps
<1>23. ASSUME NEW o \in Coroutine, FailureSent(o) PROVE NoEditLost'
  <2>1. NothingTaken
    BY <1>0, <1>23 DEF FailureSent, Close, closeVars, NothingTaken
  <2> QED
    BY <1>0, <2>1, NothingTakenKeeps
<1>24. ASSUME Reap PROVE NoEditLost'
  <2>1. NothingTaken
    BY <1>0, <1>24
    DEF Reap, ReapSession, ReapDir, CloseDone, nativeVars, revVars,
      NothingTaken, InFlight
  <2> QED
    BY <1>0, <2>1, NothingTakenKeeps
<1>25. ASSUME Terminated PROVE NoEditLost'
  <2>1. NothingTaken
    BY <1>0, <1>25 DEF Terminated, vars, NothingTaken
  <2> QED
    BY <1>0, <2>1, NothingTakenKeeps
<1>26. ASSUME UNCHANGED vars PROVE NoEditLost'
  <2>1. NothingTaken
    BY <1>0, <1>26 DEF vars, NothingTaken, InFlight
  <2> QED
    BY <1>0, <2>1, NothingTakenKeeps
<1>27. ASSUME NEW r \in Revision, Change(r) PROVE NoEditLost'
  <2> SUFFICES ASSUME closer' = "open", initialized', pc'["drain"] # "failing"
               PROVE  accepted' = edits' \o InFlight' \o queue'
    BY DEF NoEditLost
  <2>1. /\ closer = "open" /\ initialized
        /\ accepted' = Append(accepted, r) /\ edits' = edits
        /\ Drain(pc, Append(queue, r), outbound)
    BY <1>27 DEF Change, Receiving, nativeVars
  <2>2. Append(queue, r) # <<>>
    BY <1>0, SeqFacts
  <2>3. \/ queue' = Append(queue, r) /\ pc' = pc /\ rev' = rev
        \/ /\ pc["drain"] = "idle" /\ queue' = Tail(Append(queue, r))
           /\ pc' = [pc EXCEPT !["drain"] = "started"]
           /\ rev' = [rev EXCEPT !["drain"] = Head(Append(queue, r))]
    BY <2>1, <2>2 DEF Drain, TakeNext
  <2>4. \/ queue' = Append(queue, r) /\ InFlight' = InFlight
        \/ /\ InFlight = <<>> /\ InFlight' = <<Head(Append(queue, r))>>
           /\ queue' = Tail(Append(queue, r))
    BY <1>0, <2>3 DEF InFlight, Coroutine
  <2>5. pc["drain"] # "failing"
    BY <1>0, <2>3 DEF Coroutine
  <2>6. accepted = Line(edits, InFlight, queue)
    BY <2>1, <2>5 DEF NoEditLost, Line
  <2>7. InFlight \in Seq(Revision)
    <3>1. CASE pc["drain"] \in {"started", "apply", "refused"}
      <4>1. rev["drain"] \in Revision
        BY <1>0, <3>1 DEF Stages, processing
      <4> QED
        BY <3>1, <4>1 DEF InFlight
    <3>2. CASE pc["drain"] \notin {"started", "apply", "refused"}
      BY <3>2 DEF InFlight
    <3> QED
      BY <3>1, <3>2
  <2>8. Queued(Line(edits, InFlight, queue), r) = Line(edits, InFlight', queue')
    <3>1. edits \in Seq(Revision) /\ queue \in Seq(Revision) /\ r \in Revision
      BY <1>0
    <3>2. /\ Queued(Line(edits, InFlight, queue), r)
               = Line(edits, InFlight, Queued(queue, r))
          /\ InFlight = <<>> =>
               Queued(Line(edits, InFlight, queue), r)
               = TakenFrom(edits, Queued(queue, r))
      BY <2>7, <3>1, AppendedStays
    <3>3. CASE queue' = Append(queue, r) /\ InFlight' = InFlight
      BY <3>2, <3>3 DEF Queued
    <3>4. CASE /\ InFlight = <<>> /\ InFlight' = <<Head(Append(queue, r))>>
               /\ queue' = Tail(Append(queue, r))
      BY <3>2, <3>4 DEF Queued, TakenFrom
    <3> QED
      BY <2>4, <3>3, <3>4
  <2> QED
    BY <2>1, <2>6, <2>8 DEF Queued, Line
<1>28. ASSUME Started PROVE NoEditLost'
  <2> SUFFICES ASSUME closer' = "open", initialized', pc'["drain"] # "failing"
               PROVE  accepted' = edits' \o InFlight' \o queue'
    BY DEF NoEditLost
  <2>1. closer = "open" /\ ~initialized /\ pc["drain"] = "idle" /\ queue = <<>>
    BY <1>0, <1>28 DEF Started, closeVars, Stages, processing
  <2>2. /\ accepted' = <<rev["init"]>> /\ edits' = <<rev["init"]>> /\ queue' = <<>>
        /\ InFlight' = <<>>
    BY <1>0, <1>28, <2>1 DEF Started, Compiled, Send, InFlight, Coroutine
  <2>3. <<rev["init"]>> \in Seq(Nat)
    BY <1>0 DEF Coroutine
  <2>4. <<rev["init"]>> \o <<>> = <<rev["init"]>>
    BY <2>3, ConcatEmptySeq
  <2> QED
    BY <2>2, <2>4
<1>29. ASSUME ApplyOk PROVE NoEditLost'
  <2> SUFFICES ASSUME closer' = "open", initialized', pc'["drain"] # "failing"
               PROVE  accepted' = edits' \o InFlight' \o queue'
    BY DEF NoEditLost
  <2>1. /\ closer = "open" /\ initialized /\ pc["drain"] = "apply"
        /\ accepted' = accepted /\ edits' = Append(edits, rev["drain"]) /\ queue' = queue
        /\ InFlight' = <<>> /\ InFlight = <<rev["drain"]>>
    BY <1>0, <1>29 DEF ApplyOk, Compiled, Send, InFlight, Coroutine, closeVars
  <2>2. rev["drain"] \in Revision
    BY <1>0, <2>1 DEF Stages, processing
  <2>3. Append(edits, rev["drain"]) = edits \o <<rev["drain"]>> /\ Append(edits, rev["drain"]) \in Seq(Revision)
    BY <1>0, <2>2, AppendIsConcat, SeqFacts
  <2>4. Append(edits, rev["drain"]) \o <<>> = Append(edits, rev["drain"])
    BY <2>3, ConcatEmptySeq
  <2> QED
    BY <2>1, <2>3, <2>4 DEF NoEditLost
<1> QED
  BY <1>1, <1>2, <1>3, <1>4, <1>5, <1>6, <1>7, <1>8, <1>9, <1>10, <1>11, <1>12,
    <1>13, <1>14, <1>15, <1>16, <1>17, <1>18, <1>19, <1>20, <1>21, <1>22, <1>23,
    <1>24, <1>25, <1>26, <1>27, <1>28, <1>29
  DEF Next, PeerStep, InitStep, NativeReply, Deliver

\* NoEditLost: while the session is open, the edits it accepted are the ones
\* applied, the one in flight and the queued ones, in order (enqueueChange,
\* drainChanges).
THEOREM EditsKept == Spec => []NoEditLost
<1>1. Init => NoEditLost
  BY DEF Init, NoEditLost
<1> QED
  BY <1>1, Invariance, EditsStep, PTL DEF Spec

-----------------------------------------------------------------------------
\* The revision the native buffers hold, and that every page of s shows r.
Held(e)     == e[Len(e)]
Shows(s, r) == \A i \in 1..Len(s) : s[i] = r
Raster      == {"page", "count"}

\* What renderRevision has rasterized so far is of the revision in the native
\* buffers, which is the one last applied.
Shown ==
  /\ initialized => Held(edits) = applied
  /\ \A o \in Coroutine : pc[o] \in Raster => Shows(shot[o], Held(edits))

\* The step that PublishedWhole is about.
Announced ==
  \A o \in Coroutine : pc[o] # "doc" /\ pc'[o] = "doc" =>
    /\ rev[o] = latest /\ Len(shot[o]) = pages
    /\ \A i \in 1..Len(shot[o]) : shot[o][i] = edits[Len(edits)]
    /\ edits[Len(edits)] = rev[o]

\* Nothing is applied, rasterized or announced; a document may be dropped.
NothingShown ==
  /\ edits' = edits /\ applied' = applied /\ initialized' = initialized
  /\ \A w \in Coroutine :
       /\ pc'[w] \in Raster => \/ shot'[w] = <<>>
                               \/ pc[w] \in Raster /\ shot'[w] = shot[w]
       /\ pc'[w] = "doc" => pc[w] = "doc"

\* A step that rasterizes and announces nothing leaves what is shown whole.
LEMMA NothingShownKeeps ==
  ASSUME Shown, NothingShown
  PROVE  Shown' /\ Announced
<1>1. \A w \in Coroutine : pc'[w] \in Raster => Shows(shot'[w], Held(edits'))
  <2> SUFFICES ASSUME NEW w \in Coroutine, pc'[w] \in Raster
               PROVE  Shows(shot'[w], Held(edits'))
    OBVIOUS
  <2>1. CASE shot'[w] = <<>>
    BY <2>1 DEF Shows
  <2>2. CASE pc[w] \in Raster /\ shot'[w] = shot[w]
    BY <2>2 DEF Shown, NothingShown
  <2> QED
    BY <2>1, <2>2 DEF NothingShown
<1> QED
  BY <1>1 DEF Shown, NothingShown, Announced, Raster

\* Only PageOk adds a page and only CountOk announces the document.
LEMMA ShownStep ==
  ASSUME IInv, Shown, [Next]_vars
  PROVE  Shown' /\ Announced
<1>0. /\ Stages /\ OneRenderer /\ Shown /\ \A w \in Coroutine : Working(w)
      /\ pc \in [Coroutine -> Await] /\ rev \in [Coroutine -> 0..MaxRevision]
      /\ shot \in [Coroutine -> Seq(Revision)] /\ edits \in Seq(Revision)
  BY DEF IInv, TypeOK
<1>1. ASSUME NEW r \in Revision, Initialize(r) PROVE Shown' /\ Announced
  <2>1. NothingShown
    BY <1>0, <1>1 DEF Initialize, NothingShown, Raster, nativeVars, revVars
  <2> QED
    BY <1>0, <2>1, NothingShownKeeps
<1>2. ASSUME NEW r \in Revision, Change(r) PROVE Shown' /\ Announced
  <2>1. NothingShown
    BY <1>0, <1>2 DEF Change, Drain, TakeNext, NothingShown, Raster, nativeVars
  <2> QED
    BY <1>0, <2>1, NothingShownKeeps
<1>3. ASSUME NEW r \in Revision, QueueFull(r) PROVE Shown' /\ Announced
  <2>1. NothingShown
    BY <1>0, <1>3 DEF QueueFull, NothingShown, nativeVars, revVars
  <2> QED
    BY <1>0, <2>1, NothingShownKeeps
<1>4. ASSUME NEW k \in {"frame", "fatal"}, RefuseFrame(k) PROVE Shown' /\ Announced
  <2>1. NothingShown
    BY <1>0, <1>4 DEF RefuseFrame, NothingShown, nativeVars, revVars
  <2> QED
    BY <1>0, <2>1, NothingShownKeeps
<1>5. ASSUME CloseRequested PROVE Shown' /\ Announced
  <2>1. NothingShown
    BY <1>0, <1>5 DEF CloseRequested, NothingShown, nativeVars, revVars
  <2> QED
    BY <1>0, <2>1, NothingShownKeeps
<1>6. ASSUME PeerVanishes PROVE Shown' /\ Announced
  <2>1. NothingShown
    BY <1>0, <1>6 DEF PeerVanishes, NothingShown, nativeVars, revVars
  <2> QED
    BY <1>0, <2>1, NothingShownKeeps
<1>7. ASSUME SocketEvent PROVE Shown' /\ Announced
  <2>1. NothingShown
    BY <1>0, <1>7 DEF SocketEvent, NothingShown, nativeVars, revVars
  <2> QED
    BY <1>0, <2>1, NothingShownKeeps
<1>8. ASSUME Mkdtemp PROVE Shown' /\ Announced
  <2>1. NothingShown
    BY <1>0, <1>8 DEF Mkdtemp, NothingShown, Raster, nativeVars, revVars
  <2> QED
    BY <1>0, <2>1, NothingShownKeeps
<1>9. ASSUME Materialize PROVE Shown' /\ Announced
  <2>1. NothingShown
    BY <1>0, <1>9 DEF Materialize, NothingShown, Raster, revVars
  <2> QED
    BY <1>0, <2>1, NothingShownKeeps
<1>10. ASSUME LateClose PROVE Shown' /\ Announced
  <2>1. NothingShown
    BY <1>0, <1>10 DEF LateClose, Return, NothingShown, Raster, revVars
  <2> QED
    BY <1>0, <2>1, NothingShownKeeps
<1>11. ASSUME InitFails PROVE Shown' /\ Announced
  <2>1. NothingShown
    BY <1>0, <1>11
    DEF InitFails, FailSession, Return, NothingShown, Raster, revVars
  <2> QED
    BY <1>0, <2>1, NothingShownKeeps
<1>12. ASSUME ApplyFails PROVE Shown' /\ Announced
  <2>1. NothingShown
    BY <1>0, <1>12 DEF ApplyFails, Send, NothingShown, Raster, revVars
  <2> QED
    BY <1>0, <2>1, NothingShownKeeps
<1>13. ASSUME NEW o \in Coroutine, PageFails(o) PROVE Shown' /\ Announced
  <2>1. NothingShown
    BY <1>0, <1>13 DEF PageFails, NothingShown, Raster, revVars
  <2> QED
    BY <1>0, <2>1, NothingShownKeeps
<1>14. ASSUME NEW o \in Coroutine, CountFails(o) PROVE Shown' /\ Announced
  <2>1. NothingShown
    BY <1>0, <1>14
    DEF CountFails, FailSession, Return, NothingShown, Raster, revVars
  <2> QED
    BY <1>0, <2>1, NothingShownKeeps
<1>15. ASSUME NativeExit PROVE Shown' /\ Announced
  <2>1. NothingShown
    BY <1>0, <1>15 DEF NativeExit, NothingShown, revVars
  <2> QED
    BY <1>0, <2>1, NothingShownKeeps
<1>16. ASSUME PlainSent PROVE Shown' /\ Announced
  <2>1. NothingShown
    BY <1>0, <1>16 DEF PlainSent, NothingShown, nativeVars, revVars
  <2> QED
    BY <1>0, <2>1, NothingShownKeeps
<1>17. ASSUME PlainRejected PROVE Shown' /\ Announced
  <2>1. NothingShown
    BY <1>0, <1>17 DEF PlainRejected, NothingShown, nativeVars, revVars
  <2> QED
    BY <1>0, <2>1, NothingShownKeeps
<1>18. ASSUME FatalSent PROVE Shown' /\ Announced
  <2>1. NothingShown
    BY <1>0, <1>18 DEF FatalSent, NothingShown, nativeVars, revVars
  <2> QED
    BY <1>0, <2>1, NothingShownKeeps
<1>19. ASSUME ClosedSent PROVE Shown' /\ Announced
  <2>1. NothingShown
    BY <1>0, <1>19 DEF ClosedSent, NothingShown, nativeVars, revVars
  <2> QED
    BY <1>0, <2>1, NothingShownKeeps
<1>20. ASSUME NEW o \in Coroutine, StepSent(o) PROVE Shown' /\ Announced
  <2>1. NothingShown
    BY <1>0, <1>20
    DEF StepSent, Send, SendPage, StartRender, Finish, Drain, TakeNext, Return,
      NothingShown, Raster, nativeVars, revVars
  <2> QED
    BY <1>0, <2>1, NothingShownKeeps
<1>21. ASSUME NEW o \in Coroutine, StepRejected(o) PROVE Shown' /\ Announced
  <2>1. NothingShown
    BY <1>0, <1>21
    DEF StepRejected, FailSession, Return, NothingShown, Raster, nativeVars,
      revVars
  <2> QED
    BY <1>0, <2>1, NothingShownKeeps
<1>22. ASSUME NEW o \in Coroutine, FailureSent(o) PROVE Shown' /\ Announced
  <2>1. NothingShown
    BY <1>0, <1>22
    DEF FailureSent, Return, NothingShown, Raster, nativeVars, revVars
  <2> QED
    BY <1>0, <2>1, NothingShownKeeps
<1>23. ASSUME Reap PROVE Shown' /\ Announced
  <2>1. NothingShown
    BY <1>0, <1>23
    DEF Reap, ReapSession, ReapDir, CloseDone, NothingShown, nativeVars, revVars
  <2> QED
    BY <1>0, <2>1, NothingShownKeeps
<1>24. ASSUME Terminated PROVE Shown' /\ Announced
  <2>1. NothingShown
    BY <1>0, <1>24 DEF Terminated, vars, NothingShown
  <2> QED
    BY <1>0, <2>1, NothingShownKeeps
<1>25. ASSUME UNCHANGED vars PROVE Shown' /\ Announced
  <2>1. NothingShown
    BY <1>0, <1>25 DEF vars, NothingShown
  <2> QED
    BY <1>0, <2>1, NothingShownKeeps
<1>26. ASSUME Started PROVE Shown' /\ Announced
  <2>1. pc["init"] = "start" /\ pc["drain"] = "idle" /\ ~initialized
    BY <1>0, <1>26 DEF Started, Stages, processing
  <2>2. \A w \in Coroutine : pc'[w] \notin Raster /\ pc'[w] # "doc"
    BY <1>0, <1>26, <2>1 DEF Started, Send, Raster, Coroutine
  <2>3. initialized' => edits' = <<rev["init"]>> /\ applied' = rev["init"]
    BY <1>26, <2>1 DEF Started, Compiled, revVars
  <2>4. initialized' => Held(edits') = applied'
    BY <2>3 DEF Held
  <2> QED
    BY <2>2, <2>4 DEF Shown, Announced
<1>27. ASSUME ApplyOk PROVE Shown' /\ Announced
  <2>1. /\ pc["drain"] = "apply" /\ initialized /\ pc["init"] \in {"idle", "failing", "done"}
        /\ rev["drain"] \in Revision
    BY <1>0, <1>27
    DEF ApplyOk, Stages, OneRenderer, initializing, processing, InitAwait,
      DrainAwait
  <2>2. \A w \in Coroutine : pc'[w] \notin Raster /\ pc'[w] # "doc"
    BY <1>0, <1>27, <2>1 DEF ApplyOk, Send, Raster, Coroutine
  <2>3. edits' = Append(edits, rev["drain"]) /\ applied' = rev["drain"]
    BY <1>27 DEF ApplyOk, Compiled
  <2>4. Held(edits') = applied'
    BY <1>0, <2>1, <2>3, SeqFacts DEF Held
  <2> QED
    BY <2>2, <2>4 DEF Shown, Announced
<1>28. ASSUME NEW o \in Coroutine, PageOk(o) PROVE Shown' /\ Announced
  <2>1. CASE rev[o] # latest
    <3>1. NothingShown
      BY <1>0, <1>28, <2>1
      DEF PageOk, Finish, Drain, TakeNext, Return, NothingShown, Raster,
        nativeVars, revVars
    <3> QED
      BY <1>0, <3>1, NothingShownKeeps
  <2>2. CASE rev[o] = latest
    <3>1. /\ pc[o] = "page" /\ pc' = pc /\ edits' = edits /\ applied' = applied
          /\ initialized' = initialized
          /\ shot' = [shot EXCEPT ![o] = Append(@, edits[Len(edits)])]
      BY <1>28, <2>2 DEF PageOk, nativeVars, revVars
    <3>2. shot[o] \in Seq(Revision) /\ edits[Len(edits)] \in Revision
      BY <1>0, <3>1, SeqFacts DEF Stages, processing, InitAwait, Coroutine
    <3>3. Shows(shot[o], edits[Len(edits)])
      BY <1>0, <3>1 DEF Shown, Raster, Held
    <3>4. Shows(Append(shot[o], edits[Len(edits)]), edits[Len(edits)])
      BY <3>2, <3>3, SeqFacts DEF Shows
    <3>5. shot'[o] = Append(shot[o], edits[Len(edits)])
          /\ \A w \in Coroutine : w # o => shot'[w] = shot[w]
      BY <1>0, <3>1
    <3>6. \A w \in Coroutine : pc'[w] \in Raster => Shows(shot'[w], Held(edits'))
      BY <1>0, <3>1, <3>4, <3>5 DEF Shown, Held
    <3> QED
      BY <1>0, <3>1, <3>6 DEF Shown, Announced, Held
  <2> QED
    BY <2>1, <2>2
<1>29. ASSUME NEW o \in Coroutine, CountOk(o) PROVE Shown' /\ Announced
  <2>1. CASE WholeDocument(o) /\ rev[o] = latest
    <3>1. /\ pc[o] = "count" /\ pc' = [pc EXCEPT ![o] = "doc"] /\ shot' = shot
          /\ edits' = edits /\ applied' = applied /\ initialized' = initialized
      BY <1>29, <2>1 DEF CountOk, Send, nativeVars
    <3>2. /\ initialized /\ applied = rev[o] /\ Len(shot[o]) = pages
      BY <1>0, <2>1, <3>1
      DEF WholeDocument, Stages, processing, InitAwait, Working, Rendering,
        Coroutine
    <3>3. Held(edits) = rev[o] /\ Shows(shot[o], Held(edits))
      BY <1>0, <3>1, <3>2 DEF Shown, Raster
    <3>4. Announced
      BY <1>0, <2>1, <3>1, <3>2, <3>3 DEF Announced, Held, Shows
    <3>5. Shown'
      BY <1>0, <3>1 DEF Shown, Raster
    <3> QED
      BY <3>4, <3>5
  <2>2. CASE ~(WholeDocument(o) /\ rev[o] = latest)
    <3>1. NothingShown
      BY <1>0, <1>29, <2>2
      DEF CountOk, FailSession, Finish, Drain, TakeNext, Return, NothingShown,
        Raster, nativeVars
    <3> QED
      BY <1>0, <3>1, NothingShownKeeps
  <2> QED
    BY <2>1, <2>2
<1> QED
  BY <1>1, <1>2, <1>3, <1>4, <1>5, <1>6, <1>7, <1>8, <1>9, <1>10, <1>11, <1>12,
    <1>13, <1>14, <1>15, <1>16, <1>17, <1>18, <1>19, <1>20, <1>21, <1>22, <1>23,
    <1>24, <1>25, <1>26, <1>27, <1>28, <1>29
  DEF Next, PeerStep, InitStep, NativeReply, Deliver

\* PublishedWhole: a document is announced with all its pages, every one of
\* the newest revision, the one the native buffers hold (renderRevision).
THEOREM DocumentsAreWhole == Spec => PublishedWhole
<1>1. Init => Shown
  BY DEF Init, Shown, Raster, Coroutine
<1>2. IInv /\ Shown /\ [Next]_vars => Shown' /\ Announced
  BY ShownStep
<1>3. Announced => [\A o \in Coroutine : pc[o] # "doc" /\ pc'[o] = "doc" =>
         /\ rev[o] = latest /\ Len(shot[o]) = pages
         /\ \A i \in 1..Len(shot[o]) : shot[o][i] = edits[Len(edits)]
         /\ edits[Len(edits)] = rev[o]]_vars
  BY DEF Announced
<1> QED
  BY <1>1, <1>2, <1>3, Invariance, PTL DEF Spec, PublishedWhole

-----------------------------------------------------------------------------
(* The refinement: what the outbound chain holds, and the peer's view of it.  *)

\* What a coroutine awaits while its frame is in the outbound chain.
Sending == {"ready", "started", "refused", "notrendered", "coalesced", "pending",
            "error", "doc", "send", "complete", "failing"}

\* A frame that belongs to no revision: a refusal, a report, or the farewell.
Plain(m) ==
  \/ m.k \in {"frame", "fatal", "exit"} /\ m.type \in {"protocol-error", "session-error"}
  \/ m.k = "close" /\ m.type = "session-closed"

\* The frames of the chain out, but for those of one coroutine, are plain.
\* Clear: there is none; Holds: it is m; Paired: it is m, right after p, the
\* other half of its page; Leads: it is m, and the next to be sent.
Clear(out) == \A i \in 1..Len(out) : Plain(out[i])
Holds(out, m) ==
  \E i \in 1..Len(out) : out[i] = m /\ \A j \in 1..Len(out) : j # i => Plain(out[j])
Paired(out, p, m) ==
  \E i \in 1..Len(out) : /\ i + 1 \in 1..Len(out)
                         /\ out[i] = p /\ out[i + 1] = m
                         /\ \A j \in 1..Len(out) : j # i /\ j # i + 1 => Plain(out[j])
Leads(out, m) ==
  /\ out # <<>> /\ out[1] = m
  /\ \A j \in 1..Len(out) : j # 1 => Plain(out[j])

\* The chain of a coroutine at s that awaits m; p is the announcement of its page
\* and t the last frame sent.
Carries(out, s, p, m, t) ==
  \/ s # "send" /\ t # "page" /\ Holds(out, m)
  \/ s = "send" /\ t # "page" /\ Paired(out, p, m)
  \/ s = "send" /\ t = "page" /\ Leads(out, m)

\* A plain frame more.
LEMMA PlainMore ==
  ASSUME NEW out \in Seq(Frame), NEW x \in Frame, Plain(x)
  PROVE  /\ Clear(out) => Clear(Append(out, x))
         /\ \A s, p, m, t : Carries(out, s, p, m, t) => Carries(Append(out, x), s, p, m, t)
<1> DEFINE more == Append(out, x)
<1>1. /\ Len(out) \in Nat /\ Len(more) = Len(out) + 1 /\ more # <<>>
      /\ more[Len(out) + 1] = x /\ \A i \in 1..Len(out) : more[i] = out[i]
  BY SeqFacts
<1>2. \A i \in 1..Len(more) : i = Len(out) + 1 \/ i \in 1..Len(out)
  BY <1>1
<1>3. \A i \in 1..Len(out) : i \in 1..Len(more)
  BY <1>1
<1> HIDE DEF more
<1>4. Clear(out) => Clear(more)
  BY <1>1, <1>2 DEF Clear
<1>5. \A m : Holds(out, m) => Holds(more, m)
  <2> SUFFICES ASSUME NEW m, Holds(out, m) PROVE Holds(more, m)
    OBVIOUS
  <2>1. PICK i \in 1..Len(out) : out[i] = m /\ \A j \in 1..Len(out) : j # i => Plain(out[j])
    BY DEF Holds
  <2>2. i \in 1..Len(more) /\ more[i] = m
    BY <1>1, <1>3, <2>1
  <2>3. \A j \in 1..Len(more) : j # i => Plain(more[j])
    BY <1>1, <1>2, <2>1
  <2> QED
    BY <2>2, <2>3 DEF Holds
<1>6. \A p, m : Paired(out, p, m) => Paired(more, p, m)
  <2> SUFFICES ASSUME NEW p, NEW m, Paired(out, p, m) PROVE Paired(more, p, m)
    OBVIOUS
  <2>1. PICK i \in 1..Len(out) :
          /\ i + 1 \in 1..Len(out) /\ out[i] = p /\ out[i + 1] = m
          /\ \A j \in 1..Len(out) : j # i /\ j # i + 1 => Plain(out[j])
    BY DEF Paired
  <2>2. i \in 1..Len(more) /\ i + 1 \in 1..Len(more) /\ more[i] = p /\ more[i + 1] = m
    BY <1>1, <1>3, <2>1
  <2>3. \A j \in 1..Len(more) : j # i /\ j # i + 1 => Plain(more[j])
    BY <1>1, <1>2, <2>1
  <2> QED
    BY <2>2, <2>3 DEF Paired
<1>7. \A m : Leads(out, m) => Leads(more, m)
  <2> SUFFICES ASSUME NEW m, Leads(out, m) PROVE Leads(more, m)
    OBVIOUS
  <2>1. 1 \in 1..Len(out)
    BY SeqFacts DEF Leads
  <2> QED
    BY <1>1, <1>2, <2>1 DEF Leads
<1>8. \A s, p, m, t : Carries(out, s, p, m, t) => Carries(more, s, p, m, t)
  BY <1>5, <1>6, <1>7 DEF Carries
<1> QED
  BY <1>4, <1>8 DEF more

\* The frame of a coroutine is appended to a chain that has none.
LEMMA FrameAppended ==
  ASSUME NEW out \in Seq(Frame), Clear(out), NEW m \in Frame
  PROVE  Holds(Append(out, m), m)
<1> DEFINE more == Append(out, m)
<1>1. /\ Len(out) \in Nat /\ Len(more) = Len(out) + 1
      /\ more[Len(out) + 1] = m /\ \A i \in 1..Len(out) : more[i] = out[i]
  BY SeqFacts
<1> HIDE DEF more
<1>2. Len(out) + 1 \in 1..Len(more)
  BY <1>1
<1>3. \A j \in 1..Len(more) : j # Len(out) + 1 => Plain(more[j])
  BY <1>1 DEF Clear
<1>4. Holds(more, m)
  BY <1>1, <1>2, <1>3 DEF Holds
<1> QED
  BY <1>4 DEF more

\* The two frames of a page are appended to it.
LEMMA PageAppended ==
  ASSUME NEW out \in Seq(Frame), Clear(out), NEW p \in Frame, NEW m \in Frame
  PROVE  Paired(out \o <<p, m>>, p, m)
<1> DEFINE more == out \o <<p, m>>
<1>1. /\ Len(out) \in Nat /\ Len(more) = Len(out) + 2
      /\ more[Len(out) + 1] = p /\ more[Len(out) + 2] = m
      /\ \A i \in 1..Len(out) : more[i] = out[i]
  BY ConcatProperties, SeqFacts
<1> HIDE DEF more
<1> DEFINE i == Len(out) + 1
<1>2. i \in 1..Len(more) /\ i + 1 \in 1..Len(more) /\ more[i] = p /\ more[i + 1] = m
  BY <1>1
<1>3. \A j \in 1..Len(more) : j # i /\ j # i + 1 => Plain(more[j])
  BY <1>1 DEF Clear
<1> HIDE DEF i
<1>4. Paired(more, p, m)
  BY <1>2, <1>3 DEF Paired
<1> QED
  BY <1>4 DEF more

\* The first frame of a chain with no frame of a coroutine is sent.
LEMMA ClearTail ==
  ASSUME NEW out \in Seq(Frame), out # <<>>, Clear(out)
  PROVE  Plain(Head(out)) /\ Clear(Tail(out))
<1> DEFINE t == Tail(out)
<1>1. /\ Len(out) \in Nat /\ Len(out) # 0 /\ Len(t) = Len(out) - 1 /\ Head(out) = out[1]
      /\ \A i \in 1..Len(t) : t[i] = out[i + 1]
  BY SeqFacts
<1> HIDE DEF t
<1>2. \A i \in 1..Len(t) : i + 1 \in 1..Len(out)
  BY <1>1
<1>3. Clear(t) /\ Plain(out[1])
  BY <1>1, <1>2 DEF Clear
<1> QED
  BY <1>1, <1>3 DEF t

\* The first frame of a chain with a coroutine's frame m is sent: it is plain, or
\* m, or the announcement of m.
LEMMA CarriesTail ==
  ASSUME NEW out \in Seq(Frame), out # <<>>, NEW s, NEW p, NEW m, NEW t,
         Carries(out, s, p, m, t)
  PROVE  \/ /\ Plain(Head(out)) /\ t # "page"
            /\ \A u : u # "page" => Carries(Tail(out), s, p, m, u)
         \/ /\ Head(out) = m /\ (t = "page" <=> s = "send") /\ Clear(Tail(out))
         \/ /\ Head(out) = p /\ t # "page" /\ s = "send"
            /\ Carries(Tail(out), s, p, m, "page")
<1> DEFINE l == Tail(out)
           h == Head(out)
<1>1. /\ Len(out) \in Nat /\ Len(out) # 0 /\ Len(l) = Len(out) - 1 /\ h = out[1]
      /\ \A i \in 1..Len(l) : l[i] = out[i + 1]
  BY SeqFacts
<1>0. Len(l) # 0 => l # <<>>
  BY SeqFacts
<1> HIDE DEF l, h
<1>2. /\ \A i \in 1..Len(l) : i + 1 \in 1..Len(out)
      /\ \A i \in 1..Len(out) : i # 1 => i - 1 \in 1..Len(l) /\ (i - 1) + 1 = i
      /\ 1 \in 1..Len(out)
  BY <1>1
<1>3. CASE s # "send" /\ t # "page" /\ Holds(out, m)
  <2>1. PICK i \in 1..Len(out) : out[i] = m /\ \A j \in 1..Len(out) : j # i => Plain(out[j])
    BY <1>3 DEF Holds
  <2>2. CASE i = 1
    <3>1. \A j \in 1..Len(l) : Plain(l[j])
      BY <1>1, <1>2, <2>1, <2>2
    <3> QED
      BY <1>1, <1>3, <2>1, <2>2, <3>1 DEF Clear, l, h
  <2>3. CASE i # 1
    <3>1. i - 1 \in 1..Len(l) /\ l[i - 1] = m
      BY <1>1, <1>2, <2>1, <2>3
    <3>2. \A j \in 1..Len(l) : j # i - 1 => Plain(l[j])
      BY <1>1, <1>2, <2>1, <2>3
    <3>3. Holds(l, m) /\ Plain(h)
      BY <1>1, <1>2, <2>1, <2>3, <3>1, <3>2 DEF Holds
    <3> QED
      BY <1>3, <3>3 DEF Carries, l, h
  <2> QED
    BY <2>2, <2>3
<1>4. CASE s = "send" /\ t # "page" /\ Paired(out, p, m)
  <2>1. PICK i \in 1..Len(out) :
          /\ i + 1 \in 1..Len(out) /\ out[i] = p /\ out[i + 1] = m
          /\ \A j \in 1..Len(out) : j # i /\ j # i + 1 => Plain(out[j])
    BY <1>4 DEF Paired
  <2>2. CASE i = 1
    <3>1. 1 \in 1..Len(l) /\ l[1] = m /\ h = p
      BY <1>1, <1>2, <2>1, <2>2
    <3>2. \A j \in 1..Len(l) : j # 1 => Plain(l[j])
      BY <1>1, <1>2, <2>1, <2>2
    <3>3. Len(l) # 0
      BY <1>1, <3>1
    <3>4. Leads(l, m)
      BY <1>0, <3>1, <3>2, <3>3 DEF Leads
    <3> QED
      BY <1>4, <3>1, <3>4 DEF Carries, l, h
  <2>3. CASE i # 1
    <3>1. i - 1 \in 1..Len(l) /\ (i - 1) + 1 \in 1..Len(l)
          /\ l[i - 1] = p /\ l[(i - 1) + 1] = m
      BY <1>1, <1>2, <2>1, <2>3
    <3>2. \A j \in 1..Len(l) : j # i - 1 /\ j # (i - 1) + 1 => Plain(l[j])
      BY <1>1, <1>2, <2>1, <2>3
    <3>3. Paired(l, p, m) /\ Plain(h)
      BY <1>1, <1>2, <2>1, <2>3, <3>1, <3>2 DEF Paired
    <3> QED
      BY <1>4, <3>3 DEF Carries, l, h
  <2> QED
    BY <2>2, <2>3
<1>5. CASE s = "send" /\ t = "page" /\ Leads(out, m)
  <2>1. h = m /\ \A j \in 1..Len(l) : Plain(l[j])
    BY <1>1, <1>2, <1>5 DEF Leads
  <2> QED
    BY <1>5, <2>1 DEF Clear, l, h
<1> QED
  BY <1>3, <1>4, <1>5 DEF Carries

-----------------------------------------------------------------------------
\* drainChanges takes the first of q, or leaves the loop.
Taken(p, q, out) ==
  /\ closer = "open" /\ q # <<>>
  /\ queue' = Tail(q) /\ pc' = [p EXCEPT !["drain"] = "started"]
  /\ rev' = [rev EXCEPT !["drain"] = Head(q)]
  /\ outbound' = Append(out, Msg("revision-started", Head(q), 0, "drain"))
NoneTaken(p, q, out) ==
  queue' = q /\ pc' = p /\ outbound' = out /\ rev' = rev

\* A coroutine finishes: drainChanges goes round its loop, or is called.
LEMMA FinishTakes ==
  ASSUME IInv, NEW o \in Coroutine, pc[o] \notin {"idle", "done"}, initialized,
         NEW out, Finish(o, out)
  PROVE  /\ Taken(Return(pc, o), queue, out) \/ NoneTaken(Return(pc, o), queue, out)
         /\ Return(pc, o)["drain"] = "idle" /\ Return(pc, o)["init"] \in {"idle", "done"}
<1>1. CASE o = "drain"
  BY <1>1 DEF IInv, TypeOK, Stages, OneRenderer, initializing, processing, Finish, TakeNext,
    Taken, NoneTaken, Return, Coroutine
<1>2. CASE o = "init"
  BY <1>2 DEF IInv, TypeOK, Stages, OneRenderer, initializing, processing, Finish, Drain,
    TakeNext, Taken, NoneTaken, Return, Coroutine
<1> QED
  BY <1>1, <1>2 DEF Coroutine

\* A change is queued, and taken at once if nothing else runs.
LEMMA DrainTakes ==
  ASSUME NEW q, NEW out, Drain(pc, q, out)
  PROVE  \/ Taken(pc, q, out) /\ pc["drain"] = "idle" /\ pc["init"] \in {"idle", "done"}
         \/ NoneTaken(pc, q, out)
BY DEF Drain, TakeNext, Taken, NoneTaken

-----------------------------------------------------------------------------
(* The revisions in the queue rise, above every revision begun.               *)

Above(q, r) == \A i \in 1..Len(q) : q[i] > r
Below(q, r) == \A i \in 1..Len(q) : q[i] <= r
Sorted(q)   == \A i, j \in 1..Len(q) : i < j => q[i] < q[j]

Rising ==
  /\ Sorted(queue) /\ Below(queue, latest)
  /\ initialized => \A o \in Coroutine : Above(queue, rev[o]) /\ rev[o] <= latest
  /\ ~initialized => rev["drain"] = 0

\* The first of a sorted queue is below the others.
LEMMA SortedTail ==
  ASSUME NEW q \in Seq(Revision), q # <<>>, Sorted(q), NEW r \in 0..MaxRevision, Below(q, r)
  PROVE  /\ Sorted(Tail(q)) /\ Above(Tail(q), Head(q)) /\ Below(Tail(q), r)
         /\ Head(q) <= r /\ Head(q) \in Revision
         /\ \A x \in 0..MaxRevision : Above(q, x) => Above(Tail(q), x) /\ x < Head(q)
<1> DEFINE t == Tail(q)
           h == Head(q)
<1>1. /\ Len(q) \in Nat /\ Len(q) # 0 /\ Len(t) = Len(q) - 1 /\ h = q[1] /\ h \in Revision
      /\ \A i \in 1..Len(t) : t[i] = q[i + 1]
  BY SeqFacts
<1> HIDE DEF t, h
<1>2. /\ \A i \in 1..Len(t) : i + 1 \in 1..Len(q) /\ 1 < i + 1
      /\ 1 \in 1..Len(q)
  BY <1>1
<1>3. Sorted(t)
  <2> SUFFICES ASSUME NEW i \in 1..Len(t), NEW j \in 1..Len(t), i < j PROVE t[i] < t[j]
    BY DEF Sorted
  <2>1. i + 1 \in 1..Len(q) /\ j + 1 \in 1..Len(q) /\ i + 1 < j + 1
    BY <1>2
  <2> QED
    BY <1>1, <2>1 DEF Sorted
<1>4. Above(t, h)
  <2> SUFFICES ASSUME NEW i \in 1..Len(t) PROVE t[i] > h
    BY DEF Above
  <2>1. q[1] < q[i + 1]
    BY <1>2 DEF Sorted
  <2>2. q[i + 1] \in Revision
    BY <1>2, SeqFacts
  <2> QED
    BY <1>1, <2>1, <2>2 DEF Revision
<1>5. Below(t, r) /\ h <= r
  BY <1>1, <1>2 DEF Below
<1>6. ASSUME NEW x \in 0..MaxRevision, Above(q, x) PROVE Above(t, x) /\ x < h
  <2>1. q[1] > x
    BY <1>2, <1>6 DEF Above
  <2>2. Above(t, x)
    BY <1>1, <1>2, <1>6 DEF Above
  <2> QED
    BY <1>1, <2>1, <2>2 DEF Revision
<1> QED
  BY <1>1, <1>3, <1>4, <1>5, <1>6 DEF t, h

\* A revision above the newest one is appended.
LEMMA SortedAppend ==
  ASSUME NEW q \in Seq(Revision), Sorted(q), NEW l \in 0..MaxRevision, Below(q, l),
         NEW r \in Revision, r > l
  PROVE  /\ Append(q, r) \in Seq(Revision) /\ Append(q, r) # <<>>
         /\ Sorted(Append(q, r)) /\ Below(Append(q, r), r)
         /\ \A x \in 0..l : Above(q, x) => Above(Append(q, r), x)
<1> DEFINE a == Append(q, r)
<1>1. /\ Len(q) \in Nat /\ Len(a) = Len(q) + 1 /\ a[Len(q) + 1] = r
      /\ a \in Seq(Revision) /\ a # <<>>
      /\ \A i \in 1..Len(q) : a[i] = q[i] /\ q[i] \in Revision
  BY SeqFacts
<1> HIDE DEF a
<1>2. \A i \in 1..Len(a) : i \in 1..Len(q) \/ (i = Len(q) + 1 /\ a[i] = r)
  BY <1>1
<1>3. \A i \in 1..Len(q) : q[i] <= l /\ q[i] < r
  BY <1>1 DEF Below, Revision
<1>4. Below(a, r)
  BY <1>1, <1>2, <1>3 DEF Below, Revision
<1>5. Sorted(a)
  <2> SUFFICES ASSUME NEW i \in 1..Len(a), NEW j \in 1..Len(a), i < j PROVE a[i] < a[j]
    BY DEF Sorted
  <2>1. i \in 1..Len(q)
    BY <1>1
  <2>2. CASE j \in 1..Len(q)
    BY <1>1, <2>1, <2>2 DEF Sorted
  <2>3. CASE j = Len(q) + 1
    BY <1>1, <1>3, <2>1, <2>3
  <2> QED
    BY <1>2, <2>2, <2>3
<1>6. \A x \in 0..l : Above(q, x) => Above(a, x)
  BY <1>1, <1>2 DEF Above, Revision
<1> QED
  BY <1>1, <1>4, <1>5, <1>6 DEF a

\* An empty queue is in order.
LEMMA EmptyRises ==
  /\ Sorted(<<>>) /\ \A r : Above(<<>>, r) /\ Below(<<>>, r)
BY DEF Sorted, Above, Below

\* The first queued revision is taken, or the queue stays as it is.
LEMMA TakenRises ==
  ASSUME IInv, NEW q \in Seq(Revision), NEW p, NEW out,
         Taken(p, q, out) \/ NoneTaken(p, q, out),
         Sorted(q), latest' \in 0..MaxRevision, Below(q, latest'),
         \A o \in Coroutine : Above(q, rev[o]) /\ rev[o] <= latest',
         initialized'
  PROVE  Rising'
<1>0. rev \in [Coroutine -> 0..MaxRevision]
  BY DEF IInv, TypeOK
<1>1. CASE NoneTaken(p, q, out)
  BY <1>1 DEF NoneTaken, Rising
<1>2. CASE Taken(p, q, out)
  <2>1. q # <<>> /\ queue' = Tail(q) /\ rev' = [rev EXCEPT !["drain"] = Head(q)]
    BY <1>2 DEF Taken
  <2>2. /\ Sorted(Tail(q)) /\ Above(Tail(q), Head(q)) /\ Below(Tail(q), latest')
        /\ Head(q) <= latest'
        /\ \A x \in 0..MaxRevision : Above(q, x) => Above(Tail(q), x)
    BY <2>1, SortedTail
  <2>3. \A o \in Coroutine : rev'[o] = Head(q) \/ rev'[o] = rev[o]
    BY <1>0, <2>1
  <2>4. \A o \in Coroutine : Above(queue', rev'[o]) /\ rev'[o] <= latest'
    BY <1>0, <2>1, <2>2, <2>3
  <2> QED
    BY <2>1, <2>2, <2>4 DEF Rising
<1> QED
  BY <1>1, <1>2

\* A step that takes, queues and accepts nothing; it may empty the queue.
StillRising ==
  /\ queue' \in {queue, <<>>} /\ rev' = rev /\ latest' = latest
  /\ initialized' = initialized

\* Such a step keeps the order.
LEMMA StillRisingKeeps ==
  ASSUME Rising, StillRising
  PROVE  Rising'
BY EmptyRises DEF Rising, StillRising

\* Only Started, Change and the loop of drainChanges are about more.
LEMMA RisingStep ==
  ASSUME IInv, Rising, [Next]_vars
  PROVE  Rising'
<1>0. /\ Stages /\ OneRenderer /\ rev \in [Coroutine -> 0..MaxRevision] /\ queue \in Seq(Revision)
      /\ latest \in 0..MaxRevision /\ "init" \in Coroutine /\ "drain" \in Coroutine
      /\ \A o \in Coroutine : rev[o] \in 0..MaxRevision
  BY DEF IInv, TypeOK, Coroutine
<1>1. ASSUME StillRising PROVE Rising'
  BY <1>1, StillRisingKeeps
<1>f. ASSUME NEW o \in Coroutine, pc[o] \notin {"idle", "done"}, initialized, NEW out,
             Finish(o, out), latest' = latest, initialized' = initialized
      PROVE  Rising'
  BY <1>0, <1>f, FinishTakes, TakenRises DEF Rising
<1>a. ASSUME NEW o \in Coroutine, pc[o] \notin {"idle", "done"}, initialized, NEW out,
             StartRender(o, out), latest' = latest, initialized' = initialized
      PROVE  Rising'
  BY <1>a, <1>1, <1>f DEF StartRender, StillRising
<1>c. ASSUME NEW out, NEW b, Close(out, b), rev' = rev, latest' = latest,
             initialized' = initialized
      PROVE  Rising'
  BY <1>c, <1>1 DEF Close, StillRising
<1>2. ASSUME NEW r \in Revision, Initialize(r) PROVE Rising'
  <2>1. ~initialized /\ ~initialized' /\ queue = <<>> /\ queue' = <<>>
        /\ rev'["drain"] = rev["drain"]
    BY <1>0, <1>2 DEF Initialize, Stages
  <2> QED
    BY <2>1, EmptyRises DEF Rising
<1>3. ASSUME NEW r \in Revision, Change(r) PROVE Rising'
  <2> DEFINE q == Append(queue, r)
  <2>1. initialized /\ r > latest /\ latest' = r /\ Drain(pc, q, outbound) /\ initialized'
    BY <1>3 DEF Change
  <2>2. /\ q \in Seq(Revision) /\ Sorted(q) /\ Below(q, r)
        /\ \A o \in Coroutine : Above(q, rev[o]) /\ rev[o] <= r
    <3>1. \A o \in Coroutine : rev[o] \in 0..latest /\ Above(queue, rev[o])
      BY <1>0, <2>1 DEF Rising
    <3> QED
      BY <1>0, <2>1, <3>1, SortedAppend DEF Rising, Revision
  <2>3. r \in 0..MaxRevision
    BY DEF Revision
  <2> HIDE DEF q
  <2> QED
    BY <2>1, <2>2, <2>3, DrainTakes, TakenRises
<1>4. ASSUME NEW r \in Revision, QueueFull(r) PROVE Rising'
  BY <1>4, <1>1 DEF QueueFull, StillRising, revVars
<1>5. ASSUME NEW k \in {"frame", "fatal"}, RefuseFrame(k) PROVE Rising'
  BY <1>5, <1>1 DEF RefuseFrame, StillRising, revVars
<1>6. CASE CloseRequested
  BY <1>6, <1>c DEF CloseRequested, revVars
<1>7. CASE PeerVanishes
  BY <1>7, <1>1 DEF PeerVanishes, StillRising, revVars
<1>8. CASE SocketEvent
  BY <1>8, <1>c DEF SocketEvent, revVars
<1>9. CASE Mkdtemp \/ Materialize \/ LateClose \/ InitFails
  BY <1>9, <1>1 DEF Mkdtemp, Materialize, LateClose, InitFails, StillRising, revVars
<1>10. CASE Started
  <2>1. CASE closer # "open"
    BY <1>10, <2>1, <1>1 DEF Started, StillRising, revVars
  <2>2. CASE closer = "open"
    <3>1. /\ ~initialized /\ queue = <<>> /\ queue' = <<>> /\ initialized' /\ rev' = rev
          /\ latest' = rev["init"] /\ rev["drain"] = 0
      BY <1>0, <1>10, <2>2 DEF Started, Stages, Rising
    <3>2. \A o \in Coroutine : rev'[o] <= latest'
      BY <1>0, <3>1 DEF Coroutine
    <3> QED
      BY <3>1, <3>2, EmptyRises DEF Rising
  <2> QED
    BY <2>1, <2>2
<1>11. CASE ApplyOk
  BY <1>11, <1>1 DEF ApplyOk, StillRising
<1>12. CASE ApplyFails
  BY <1>12, <1>1 DEF ApplyFails, StillRising, revVars
<1>13. ASSUME NEW o \in Coroutine, PageOk(o) PROVE Rising'
  <2>1. pc[o] \notin {"idle", "done"} /\ initialized
    BY <1>0, <1>13 DEF PageOk, Stages, processing, Coroutine
  <2> QED
    BY <1>13, <2>1, <1>1, <1>f DEF PageOk, StillRising, revVars
<1>14. ASSUME NEW o \in Coroutine, PageFails(o) PROVE Rising'
  BY <1>14, <1>1 DEF PageFails, StillRising, revVars
<1>15. ASSUME NEW o \in Coroutine, CountOk(o) PROVE Rising'
  <2>1. pc[o] \notin {"idle", "done"} /\ initialized
    BY <1>0, <1>15 DEF CountOk, Stages, processing, Coroutine
  <2>2. latest' = latest /\ initialized' = initialized
    BY <1>15 DEF CountOk
  <2>3. (queue' = queue /\ rev' = rev) \/ Finish(o, outbound)
    BY <1>15 DEF CountOk
  <2> QED
    BY <2>1, <2>2, <2>3, <1>1, <1>f DEF StillRising
<1>16. ASSUME NEW o \in Coroutine, CountFails(o) PROVE Rising'
  BY <1>16, <1>1 DEF CountFails, StillRising, revVars
<1>17. CASE NativeExit
  BY <1>17, <1>1 DEF NativeExit, StillRising, revVars
<1>18. CASE PlainSent
  BY <1>18, <1>1 DEF PlainSent, StillRising, revVars
<1>19. CASE PlainRejected
  BY <1>19, <1>c DEF PlainRejected, revVars
<1>20. CASE FatalSent
  BY <1>20, <1>c DEF FatalSent, revVars
<1>21. CASE ClosedSent
  BY <1>21, <1>1 DEF ClosedSent, StillRising, revVars
<1>22. ASSUME NEW o \in Coroutine, StepSent(o) PROVE Rising'
  <2>1. latest' = latest /\ initialized' = initialized
    BY <1>22 DEF StepSent, revVars
  <2>2. CASE queue' = queue /\ rev' = rev
    BY <2>1, <2>2, <1>1 DEF StillRising
  <2>3. CASE pc[o] \notin {"idle", "done"} /\ (StartRender(o, Rest) \/ Finish(o, Rest))
    <3>1. CASE initialized
      BY <2>1, <2>3, <3>1, <1>f, <1>a
    <3>2. CASE ~initialized
      <4>1. o = "init" /\ pc[o] \notin {"coalesced", "pending", "ready", "error", "complete"}
        BY <1>0, <2>3, <3>2 DEF Stages, processing, InitAwait, Coroutine
      <4> QED
        BY <1>22, <4>1, <2>2 DEF StepSent
    <3> QED
      BY <3>1, <3>2
  <2> QED
    BY <1>22, <2>2, <2>3 DEF StepSent
<1>23. ASSUME NEW o \in Coroutine, StepRejected(o) PROVE Rising'
  BY <1>23, <1>1 DEF StepRejected, StillRising, revVars
<1>24. ASSUME NEW o \in Coroutine, FailureSent(o) PROVE Rising'
  BY <1>24, <1>c DEF FailureSent, revVars
<1>25. CASE ReapSession \/ ReapDir \/ CloseDone
  BY <1>25, <1>1 DEF ReapSession, ReapDir, CloseDone, StillRising, revVars
<1>26. CASE UNCHANGED vars
  BY <1>26, <1>1 DEF StillRising, vars
<1>27. CASE PeerStep
  BY <1>2, <1>3, <1>4, <1>5, <1>6, <1>7, <1>27 DEF PeerStep
<1>28. CASE InitStep \/ NativeReply
  BY <1>9, <1>10, <1>11, <1>12, <1>13, <1>14, <1>15, <1>16, <1>28 DEF InitStep, NativeReply
<1>29. CASE Deliver
  BY <1>18, <1>19, <1>20, <1>21, <1>22, <1>23, <1>24, <1>29 DEF Deliver
<1> QED
  BY <1>8, <1>17, <1>25, <1>26, <1>27, <1>28, <1>29 DEF Next, Reap, Terminated

-----------------------------------------------------------------------------
(* What is in the outbound chain, and what the peer has seen.                 *)

\* m is the frame that coroutine o awaits.
Due(m, o) ==
  /\ m.k = o
  /\ pc[o] \notin {"refused", "failing"} => m.rev = rev[o]
  /\ pc[o] = "ready" => m.type = "session-ready"
  /\ pc[o] = "started" => m.type = "revision-started"
  /\ pc[o] \in {"notrendered", "coalesced", "pending"} => m.type = "revision-applied"
  /\ pc[o] = "error" => m.type = "compile-error" /\ m.n = lastGood
  /\ pc[o] = "doc" => m.type = "document" /\ m.n = Len(shot[o]) /\ m.n \in 1..PageLimit
  /\ pc[o] = "send" => m.type = "png"
  /\ pc[o] = "complete" => m.type = "revision-complete"
  /\ pc[o] \in {"refused", "failing"} => m.type \in {"protocol-error", "session-error"}

Announcement(o) == Msg("page", rev[o], 0, "none")

\* The chain out, after a frame of type t: plain frames, and the frame that the
\* one coroutine that awaits a frame awaits.
ChainedAs(out, t) ==
  \/ (\A o \in Coroutine : pc[o] \notin Sending) /\ Clear(out) /\ t # "page"
  \/ \E o \in Coroutine, m \in Frame :
       pc[o] \in Sending /\ Due(m, o) /\ Carries(out, pc[o], Announcement(o), m, t)

Chained == ChainedAs(outbound, seen.last)

\* Stages of a coroutine at work on a revision.
AtWork == {"ready", "started", "apply"} \cup Rendering

Sight ==
  [last : FrameType \cup {"none"}, rev : 0..MaxRevision, begun : 0..MaxRevision,
   commit : 0..MaxRevision, doc : 0..MaxRevision, want : Nat, got : Nat, told : Nat]

SeenType == seen \in Sight

\* What a coroutine at work knows of the peer's view.
Facing(o) ==
  /\ pc[o] \in AtWork => seen.commit < rev[o]
  /\ pc[o] \in AtWork \ {"ready", "started"} => seen.begun = rev[o]
  /\ pc[o] = "started" => seen.begun < rev[o]
  /\ pc[o] = "send" => seen.doc = rev[o] /\ seen.want = seen.got + Len(shot[o]) + 1
  /\ pc[o] = "complete" => seen.doc = rev[o] /\ seen.want = seen.got
  /\ pc[o] \in {"doc", "send"} => Shows(shot[o], rev[o])

\* The peer's view, as long as the socket is open.
View ==
  /\ closer \in {"open", "notify"} /\ seen.last # "session-closed"
  /\ seen.commit <= seen.begun
  /\ seen.begun <= rev["init"] \/ seen.begun <= rev["drain"]
  /\ (initialized /\ pc["init"] # "ready") <=> seen.begun # 0
  /\ (\A o \in Coroutine : pc[o] \notin {"doc", "send", "complete"}) => lastGood = seen.commit
  /\ (\A o \in Coroutine : pc[o] \notin {"send", "complete"}) => seen.doc = 0
  /\ \A o \in Coroutine : Facing(o)

\* The peer's view after each type of frame.
LEMMA ObserveIs ==
  ASSUME SeenType, NEW m \in Frame
  PROVE  LET t == [seen EXCEPT !.last = m.type, !.rev = m.rev]
             s == Observe(seen, m)
         IN /\ m.type \in {"session-ready", "revision-started"} =>
                 s = [t EXCEPT !.begun = m.rev]
            /\ m.type = "document" => s = [t EXCEPT !.doc = m.rev, !.want = m.n, !.got = 0]
            /\ m.type = "png" => s = [t EXCEPT !.got = t.got + 1]
            /\ m.type = "revision-complete" =>
                 s = [t EXCEPT !.commit = m.rev, !.doc = 0, !.want = 0, !.got = 0]
            /\ m.type = "compile-error" => s = [t EXCEPT !.told = m.n]
            /\ m.type \in {"revision-applied", "page", "protocol-error", "session-error",
                           "session-closed"} => s = t
BY DEF Observe

\* What may change in the peer's view.
LEMMA SightKept ==
  ASSUME NEW s \in Sight, NEW r \in 0..MaxRevision, NEW n \in Nat, NEW t \in FrameType
  PROVE  /\ [s EXCEPT !.last = t, !.rev = r] \in Sight
         /\ [s EXCEPT !.begun = r] \in Sight
         /\ [s EXCEPT !.doc = r, !.want = n, !.got = 0] \in Sight
         /\ [s EXCEPT !.got = s.got + 1] \in Sight
         /\ [s EXCEPT !.commit = r, !.doc = 0, !.want = 0, !.got = 0] \in Sight
         /\ [s EXCEPT !.told = n] \in Sight
<1> USE LiveAssumption DEF Sight
<1>1. [s EXCEPT !.last = t, !.rev = r] \in Sight
  OBVIOUS
<1>2. [s EXCEPT !.begun = r] \in Sight
  OBVIOUS
<1>3. [s EXCEPT !.doc = r, !.want = n, !.got = 0] \in Sight
  OBVIOUS
<1>4. [s EXCEPT !.got = s.got + 1] \in Sight
  OBVIOUS
<1>5. [s EXCEPT !.commit = r, !.doc = 0, !.want = 0, !.got = 0] \in Sight
  <2>1. [s EXCEPT !.commit = r] \in Sight
    OBVIOUS
  <2>2. \A x \in Sight, d \in 0..MaxRevision :
          [x EXCEPT !.doc = d, !.want = 0, !.got = 0] \in Sight
    OBVIOUS
  <2>3. [s EXCEPT !.commit = r, !.doc = 0, !.want = 0, !.got = 0]
          = [[s EXCEPT !.commit = r] EXCEPT !.doc = 0, !.want = 0, !.got = 0]
    OBVIOUS
  <2>4. 0 \in 0..MaxRevision
    OBVIOUS
  <2> QED
    BY <2>1, <2>2, <2>3, <2>4, Zenon
<1>6. [s EXCEPT !.told = n] \in Sight
  OBVIOUS
<1> QED
  BY <1>1, <1>2, <1>3, <1>4, <1>5, <1>6

\* What the peer has seen after a frame has its type.
LEMMA SeenTyped ==
  ASSUME SeenType, NEW m \in Frame
  PROVE  Observe(seen, m) \in Sight
<1> DEFINE t == [seen EXCEPT !.last = m.type, !.rev = m.rev]
<1>1. m.type \in FrameType /\ m.rev \in 0..MaxRevision /\ m.n \in Nat
  BY DEF Frame
<1>2. t \in Sight
  BY <1>1, SightKept DEF SeenType
<1>3. \/ Observe(seen, m) = [t EXCEPT !.begun = m.rev]
      \/ Observe(seen, m) = [t EXCEPT !.doc = m.rev, !.want = m.n, !.got = 0]
      \/ Observe(seen, m) = [t EXCEPT !.got = t.got + 1]
      \/ Observe(seen, m) = [t EXCEPT !.commit = m.rev, !.doc = 0, !.want = 0, !.got = 0]
      \/ Observe(seen, m) = [t EXCEPT !.told = m.n]
      \/ Observe(seen, m) = t
  BY <1>1, ObserveIs DEF FrameType
<1> HIDE DEF t
<1>4. \A r \in 0..MaxRevision, n \in Nat :
        /\ [t EXCEPT !.begun = r] \in Sight
        /\ [t EXCEPT !.doc = r, !.want = n, !.got = 0] \in Sight
        /\ [t EXCEPT !.got = t.got + 1] \in Sight
        /\ [t EXCEPT !.commit = r, !.doc = 0, !.want = 0, !.got = 0] \in Sight
        /\ [t EXCEPT !.told = n] \in Sight
  BY <1>1, <1>2, SightKept
<1> QED
  BY <1>1, <1>2, <1>3, <1>4, Zenon

\* What the peer has seen keeps its type.
LEMMA SeenStep ==
  ASSUME IInv, SeenType, [Next]_vars
  PROVE  SeenType'
<1>1. seen' = seen \/ (outbound # <<>> /\ seen' = Observe(seen, Head(outbound)))
  BY DEF Next, PeerStep, Initialize, Change, QueueFull, RefuseFrame, CloseRequested,
    PeerVanishes, SocketEvent, InitStep, Mkdtemp, Materialize, Started, LateClose, InitFails,
    NativeReply, ApplyOk, ApplyFails, PageOk, PageFails, CountOk, CountFails, NativeExit,
    Deliver, PlainSent, PlainRejected, FatalSent, ClosedSent, StepSent, StepRejected,
    FailureSent, Transmit, Reject, Head1, Reap, ReapSession, ReapDir, CloseDone, Terminated,
    vars
<1>2. outbound # <<>> => Head(outbound) \in Frame
  BY SeqFacts DEF IInv, TypeOK
<1> QED
  BY <1>1, <1>2, SeenTyped DEF SeenType

-----------------------------------------------------------------------------
(* The frame sent next.                                                       *)

\* It is plain, or announces a page, or is awaited by a coroutine.
LEMMA NextFrame ==
  ASSUME IInv, Chained, outbound # <<>>
  PROVE  /\ Head1 \in Frame /\ Rest \in Seq(Frame)
         /\ \/ /\ Plain(Head1) /\ seen.last # "page"
               /\ \A t : t # "page" => ChainedAs(Rest, t)
            \/ \E o \in Coroutine :
                 /\ pc[o] \in Sending /\ Due(Head1, o) /\ Clear(Rest)
                 /\ seen.last = "page" <=> pc[o] = "send"
            \/ \E o \in Coroutine :
                 /\ pc[o] = "send" /\ Head1 = Announcement(o)
                 /\ seen.last # "page" /\ ChainedAs(Rest, "page")
<1>0. outbound \in Seq(Frame) /\ Head1 \in Frame /\ Rest \in Seq(Frame)
  BY SeqFacts DEF IInv, TypeOK, Head1, Rest
<1>1. CASE (\A o \in Coroutine : pc[o] \notin Sending) /\ Clear(outbound)
           /\ seen.last # "page"
  <2>1. Plain(Head1) /\ Clear(Rest)
    BY <1>0, <1>1, ClearTail DEF Head1, Rest
  <2> QED
    BY <1>0, <1>1, <2>1 DEF ChainedAs
<1>2. ASSUME NEW o \in Coroutine, NEW m \in Frame, pc[o] \in Sending, Due(m, o),
             Carries(outbound, pc[o], Announcement(o), m, seen.last)
      PROVE  \/ /\ Plain(Head1) /\ seen.last # "page"
                /\ \A t : t # "page" => ChainedAs(Rest, t)
             \/ /\ pc[o] \in Sending /\ Due(Head1, o) /\ Clear(Rest)
                /\ seen.last = "page" <=> pc[o] = "send"
             \/ /\ pc[o] = "send" /\ Head1 = Announcement(o)
                /\ seen.last # "page" /\ ChainedAs(Rest, "page")
  <2>1. \/ /\ Plain(Head1) /\ seen.last # "page"
           /\ \A u : u # "page" => Carries(Rest, pc[o], Announcement(o), m, u)
        \/ /\ Head1 = m /\ (seen.last = "page" <=> pc[o] = "send") /\ Clear(Rest)
        \/ /\ Head1 = Announcement(o) /\ seen.last # "page" /\ pc[o] = "send"
           /\ Carries(Rest, pc[o], Announcement(o), m, "page")
    BY <1>0, <1>2, CarriesTail DEF Head1, Rest
  <2> QED
    BY <1>2, <2>1 DEF ChainedAs
<1> QED
  BY <1>0, <1>1, <1>2 DEF Chained, ChainedAs

-----------------------------------------------------------------------------
(* Every frame sent is one the protocol allows next.                          *)

\* A frame of no revision.
LEMMA PlainFollows ==
  ASSUME SeenType, NEW m \in Frame, Plain(m), seen.last \notin {"page", "session-closed"},
         seen' = Observe(seen, m)
  PROVE  Peer!Next
<1>1. m.type \in {"protocol-error", "session-error", "session-closed"}
      /\ m.type \in FrameType /\ m.rev \in 0..MaxRevision
  BY DEF Plain, Frame
<1>2. seen' = [seen EXCEPT !.last = m.type, !.rev = m.rev]
  BY <1>1, ObserveIs
<1>3. /\ seen'.last = m.type /\ seen'.rev = m.rev
      /\ seen'.begun = seen.begun /\ seen'.commit = seen.commit /\ seen'.doc = seen.doc
      /\ seen'.want = seen.want /\ seen'.got = seen.got /\ seen'.told = seen.told
  BY <1>2 DEF SeenType, Sight
<1>4. m.rev \in Revision \cup {0}
  BY <1>1 DEF Revision
<1>5. Peer!Other
  BY <1>1, <1>3, <1>4 DEF Peer!Other, Peer!Control
<1> QED
  BY <1>5 DEF Peer!Next

\* The announcement of a page.
LEMMA PageFollows ==
  ASSUME SeenType, IInv, View, NEW o \in Coroutine, pc[o] = "send",
         Announcement(o) \in Frame, seen.last # "page",
         seen' = Observe(seen, Announcement(o))
  PROVE  Peer!Next
<1> DEFINE m == Announcement(o)
<1>1. m.type = "page" /\ m.rev = rev[o] /\ m \in Frame
  BY DEF Announcement, Msg
<1>2. rev[o] \in Revision /\ Len(shot[o]) \in Nat
  BY SeqFacts DEF IInv, TypeOK, Stages, processing, Coroutine
<1> HIDE DEF m
<1>3. seen' = [seen EXCEPT !.last = m.type, !.rev = m.rev]
  BY <1>1, ObserveIs DEF m
<1>4. /\ seen'.last = "page" /\ seen'.rev = rev[o]
      /\ seen'.begun = seen.begun /\ seen'.commit = seen.commit /\ seen'.doc = seen.doc
      /\ seen'.want = seen.want /\ seen'.got = seen.got /\ seen'.told = seen.told
  BY <1>1, <1>3 DEF SeenType, Sight
<1>5. seen.doc = rev[o] /\ seen.want = seen.got + Len(shot[o]) + 1 /\ seen.got \in Nat
      /\ seen.last # "session-closed"
  BY DEF View, Facing, SeenType, Sight
<1>6. seen.doc # 0 /\ seen.got < seen.want
  BY <1>2, <1>5 DEF Revision
<1>7. Peer!Page
  BY <1>4, <1>5, <1>6 DEF Peer!Page, Peer!Control
<1> QED
  BY <1>7 DEF Peer!Next

\* What the peer has seen after the frame that coroutine o awaits.
LEMMA SeenAfter ==
  ASSUME SeenType, NEW o \in Coroutine, pc[o] \in Sending, NEW m \in Frame, Due(m, o),
         seen' = Observe(seen, m)
  PROVE  /\ seen'.last = m.type /\ seen'.rev = m.rev
         /\ seen'.begun = IF pc[o] \in {"ready", "started"} THEN rev[o] ELSE seen.begun
         /\ seen'.commit = IF pc[o] = "complete" THEN rev[o] ELSE seen.commit
         /\ seen'.doc = IF pc[o] = "doc" THEN rev[o]
                        ELSE IF pc[o] = "complete" THEN 0 ELSE seen.doc
         /\ seen'.want = IF pc[o] = "doc" THEN Len(shot[o])
                         ELSE IF pc[o] = "complete" THEN 0 ELSE seen.want
         /\ seen'.got = IF pc[o] \in {"doc", "complete"} THEN 0
                        ELSE IF pc[o] = "send" THEN seen.got + 1 ELSE seen.got
         /\ seen'.told = IF pc[o] = "error" THEN lastGood ELSE seen.told
<1> DEFINE t == [seen EXCEPT !.last = m.type, !.rev = m.rev]
<1>1. /\ t.last = m.type /\ t.rev = m.rev /\ t \in Sight
      /\ t.begun = seen.begun /\ t.commit = seen.commit /\ t.doc = seen.doc
      /\ t.want = seen.want /\ t.got = seen.got /\ t.told = seen.told
  <2>1. m.type \in FrameType /\ m.rev \in 0..MaxRevision
    BY DEF Frame
  <2> QED
    BY <2>1, SightKept DEF SeenType, Sight
<1>2. /\ m.type \in {"session-ready", "revision-started"} => seen' = [t EXCEPT !.begun = m.rev]
      /\ m.type = "document" => seen' = [t EXCEPT !.doc = m.rev, !.want = m.n, !.got = 0]
      /\ m.type = "png" => seen' = [t EXCEPT !.got = t.got + 1]
      /\ m.type = "revision-complete" =>
           seen' = [t EXCEPT !.commit = m.rev, !.doc = 0, !.want = 0, !.got = 0]
      /\ m.type = "compile-error" => seen' = [t EXCEPT !.told = m.n]
      /\ m.type \in {"revision-applied", "protocol-error", "session-error"} => seen' = t
  BY ObserveIs
<1> HIDE DEF t
<1>3. CASE pc[o] \in {"ready", "started"}
  <2>1. seen' = [t EXCEPT !.begun = rev[o]]
    BY <1>2, <1>3 DEF Due
  <2> QED
    BY <1>1, <1>3, <2>1 DEF Sight
<1>4. CASE pc[o] = "doc"
  <2>1. seen' = [t EXCEPT !.doc = rev[o], !.want = Len(shot[o]), !.got = 0]
    BY <1>2, <1>4 DEF Due
  <2> QED
    BY <1>1, <1>4, <2>1 DEF Sight
<1>5. CASE pc[o] = "send"
  <2>1. seen' = [t EXCEPT !.got = t.got + 1]
    BY <1>2, <1>5 DEF Due
  <2> QED
    BY <1>1, <1>5, <2>1 DEF Sight
<1>6. CASE pc[o] = "complete"
  <2>1. seen' = [t EXCEPT !.commit = rev[o], !.doc = 0, !.want = 0, !.got = 0]
    BY <1>2, <1>6 DEF Due
  <2> QED
    BY <1>1, <1>6, <2>1 DEF Sight
<1>7. CASE pc[o] = "error"
  <2>1. seen' = [t EXCEPT !.told = lastGood]
    BY <1>2, <1>7 DEF Due
  <2> QED
    BY <1>1, <1>7, <2>1 DEF Sight
<1>8. CASE pc[o] \in {"notrendered", "coalesced", "pending", "refused", "failing"}
  <2>1. seen' = t
    BY <1>2, <1>8 DEF Due
  <2> QED
    BY <1>1, <1>8, <2>1
<1> QED
  BY <1>3, <1>4, <1>5, <1>6, <1>7, <1>8 DEF Sending

\* The frame of a coroutine.
LEMMA DueFollows ==
  ASSUME SeenType, IInv, View, NEW o \in Coroutine, pc[o] \in Sending, NEW m \in Frame,
         Due(m, o), seen.last = "page" <=> pc[o] = "send", seen' = Observe(seen, m)
  PROVE  Peer!Next
<1>0. /\ seen \in Sight /\ Stages /\ OneRenderer /\ rev[o] \in Revision
      /\ seen.last # "session-closed"
      /\ seen.commit <= seen.begun /\ Facing(o) /\ m.type \in FrameType
      /\ rev[o] \in 1..MaxRevision /\ Len(shot[o]) \in Nat /\ PageLimit \in Nat
      /\ (initialized /\ pc["init"] # "ready") <=> seen.begun # 0
      /\ \A w \in Coroutine : w # o => pc[w] \notin Sending
  <2>1. /\ seen \in Sight /\ Stages /\ OneRenderer /\ seen.last # "session-closed"
        /\ seen.commit <= seen.begun /\ Facing(o) /\ m.type \in FrameType /\ PageLimit \in Nat
        /\ (initialized /\ pc["init"] # "ready") <=> seen.begun # 0
    BY LiveAssumption DEF IInv, View, SeenType, Frame
  <2>2. rev[o] \in Revision /\ rev[o] \in 1..MaxRevision
    BY <2>1 DEF Stages, processing, Coroutine, Revision, Sending
  <2>3. Len(shot[o]) \in Nat
    BY SeqFacts DEF IInv, TypeOK
  <2>4. \A w \in Coroutine : w # o => pc[w] \notin Sending
    BY <2>1 DEF OneRenderer, initializing, processing, Coroutine, Sending
  <2> QED
    BY <2>1, <2>2, <2>3, <2>4
<1>1. /\ seen.begun \in Nat /\ seen.commit \in Nat /\ seen.doc \in Nat
      /\ seen.want \in Nat /\ seen.got \in Nat
  BY <1>0 DEF Sight
<1>2. /\ pc[o] \notin {"doc", "send", "complete"} => lastGood = seen.commit
      /\ pc[o] \notin {"send", "complete"} => seen.doc = 0
  BY <1>0 DEF View, Sending
<1>3. pc[o] \notin {"ready"} /\ pc[o] \in AtWork => seen.begun # 0
  <2>1. initialized /\ pc[o] # "ready" /\ pc[o] \in AtWork => pc["init"] # "ready"
    BY <1>0 DEF OneRenderer, initializing, processing, AtWork, Rendering, Coroutine
  <2>2. pc[o] \in AtWork => initialized
    BY <1>0 DEF Stages, processing, AtWork, Rendering, InitAwait, Coroutine
  <2> QED
    BY <1>0, <2>1, <2>2
<1>4. /\ seen'.last = m.type /\ seen'.rev = m.rev
      /\ seen'.begun = IF pc[o] \in {"ready", "started"} THEN rev[o] ELSE seen.begun
      /\ seen'.commit = IF pc[o] = "complete" THEN rev[o] ELSE seen.commit
      /\ seen'.doc = IF pc[o] = "doc" THEN rev[o]
                     ELSE IF pc[o] = "complete" THEN 0 ELSE seen.doc
      /\ seen'.want = IF pc[o] = "doc" THEN Len(shot[o])
                      ELSE IF pc[o] = "complete" THEN 0 ELSE seen.want
      /\ seen'.got = IF pc[o] \in {"doc", "complete"} THEN 0
                     ELSE IF pc[o] = "send" THEN seen.got + 1 ELSE seen.got
      /\ seen'.told = IF pc[o] = "error" THEN lastGood ELSE seen.told
  BY SeenAfter
<1>5. CASE pc[o] = "ready"
  <2>1. o = "init" /\ seen.begun = 0
    BY <1>0, <1>5 DEF Stages, DrainAwait, Coroutine
  <2>2. m.type = "session-ready" /\ m.rev = rev[o]
    BY <1>5 DEF Due
  <2>3. /\ seen'.last = "session-ready" /\ seen'.rev = rev[o] /\ seen'.begun = rev[o]
        /\ seen'.commit = seen.commit /\ seen'.doc = seen.doc
        /\ seen'.want = seen.want /\ seen'.got = seen.got /\ seen'.told = seen.told
    BY <1>4, <2>2, <1>5
  <2>4. Peer!Begin(rev[o])
    BY <1>0, <1>1, <1>2, <1>5, <2>1, <2>3 DEF Peer!Begin, Peer!Control
  <2> QED
    BY <1>0, <2>4 DEF Peer!Next
<1>6. CASE pc[o] = "started"
  <2>1. seen.begun < rev[o]
    BY <1>0, <1>6 DEF Facing
  <2>2. m.type = "revision-started" /\ m.rev = rev[o]
    BY <1>6 DEF Due
  <2>3. /\ seen'.last = "revision-started" /\ seen'.rev = rev[o] /\ seen'.begun = rev[o]
        /\ seen'.commit = seen.commit /\ seen'.doc = seen.doc
        /\ seen'.want = seen.want /\ seen'.got = seen.got /\ seen'.told = seen.told
    BY <1>4, <2>2, <1>6
  <2>4. Peer!Begin(rev[o])
    BY <1>0, <1>1, <1>2, <1>3, <1>6, <2>1, <2>3 DEF Peer!Begin, Peer!Control, AtWork
  <2> QED
    BY <1>0, <2>4 DEF Peer!Next
<1>7. CASE pc[o] \in {"notrendered", "coalesced", "pending"}
  <2>1. seen.begun = rev[o]
    BY <1>0, <1>7 DEF Facing, AtWork, Rendering
  <2>2. m.type = "revision-applied" /\ m.rev = rev[o]
    BY <1>7 DEF Due
  <2>3. /\ seen'.last = "revision-applied" /\ seen'.rev = rev[o] /\ seen'.begun = seen.begun
        /\ seen'.commit = seen.commit /\ seen'.doc = seen.doc
        /\ seen'.want = seen.want /\ seen'.got = seen.got /\ seen'.told = seen.told
    BY <1>4, <2>2, <1>7
  <2>4. Peer!Applied
    BY <1>0, <1>1, <1>2, <1>3, <1>7, <2>1, <2>3
    DEF Peer!Applied, Peer!Control, AtWork, Rendering
  <2> QED
    BY <2>4 DEF Peer!Next
<1>8. CASE pc[o] = "error"
  <2>1. seen.begun = rev[o]
    BY <1>0, <1>8 DEF Facing, AtWork, Rendering
  <2>2. m.type = "compile-error" /\ m.rev = rev[o] /\ m.n = lastGood
    BY <1>8 DEF Due
  <2>3. /\ seen'.last = "compile-error" /\ seen'.rev = rev[o] /\ seen'.begun = seen.begun
        /\ seen'.commit = seen.commit /\ seen'.doc = seen.doc
        /\ seen'.want = seen.want /\ seen'.got = seen.got /\ seen'.told = seen.commit
    BY <1>2, <1>4, <2>2, <1>8
  <2>4. Peer!CompileError
    BY <1>0, <1>1, <1>2, <1>3, <1>8, <2>1, <2>3
    DEF Peer!CompileError, Peer!Control, AtWork, Rendering
  <2> QED
    BY <2>4 DEF Peer!Next
<1>9. CASE pc[o] = "doc"
  <2>1. seen.begun = rev[o] /\ seen.commit < rev[o]
    BY <1>0, <1>9 DEF Facing, AtWork, Rendering
  <2>2. /\ m.type = "document" /\ m.rev = rev[o]
        /\ m.n \in 1..PageLimit /\ m.n = Len(shot[o])
    BY <1>9 DEF Due
  <2>3. /\ seen'.last = "document" /\ seen'.rev = rev[o] /\ seen'.begun = seen.begun
        /\ seen'.commit = seen.commit /\ seen'.doc = rev[o]
        /\ seen'.want = m.n /\ seen'.got = 0 /\ seen'.told = seen.told
    BY <1>4, <2>2, <1>9
  <2>4. Peer!Document(m.n)
    BY <1>0, <1>1, <1>2, <1>9, <2>1, <2>3 DEF Peer!Document, Peer!Control
  <2> QED
    BY <2>2, <2>4 DEF Peer!Next
<1>10. CASE pc[o] = "send"
  <2>1. seen.doc = rev[o]
    BY <1>0, <1>10 DEF Facing
  <2>2. m.type = "png" /\ m.rev = rev[o]
    BY <1>10 DEF Due
  <2>3. /\ seen'.last = "png" /\ seen'.rev = rev[o] /\ seen'.begun = seen.begun
        /\ seen'.commit = seen.commit /\ seen'.doc = seen.doc
        /\ seen'.want = seen.want /\ seen'.got = seen.got + 1 /\ seen'.told = seen.told
    BY <1>4, <2>2, <1>10
  <2>4. Peer!Png
    BY <1>10, <2>1, <2>3 DEF Peer!Png
  <2> QED
    BY <2>4 DEF Peer!Next
<1>11. CASE pc[o] = "complete"
  <2>1. seen.doc = rev[o] /\ seen.want = seen.got
    BY <1>0, <1>11 DEF Facing
  <2>2. m.type = "revision-complete" /\ m.rev = rev[o]
    BY <1>11 DEF Due
  <2>3. /\ seen'.last = "revision-complete" /\ seen'.rev = rev[o] /\ seen'.begun = seen.begun
        /\ seen'.commit = rev[o] /\ seen'.doc = 0
        /\ seen'.want = 0 /\ seen'.got = 0 /\ seen'.told = seen.told
    BY <1>4, <2>2, <1>11
  <2>4. Peer!Complete
    BY <1>0, <1>11, <2>1, <2>3 DEF Peer!Complete, Peer!Control
  <2> QED
    BY <2>4 DEF Peer!Next
<1>12. CASE pc[o] \in {"refused", "failing"}
  <2>1. m.type \in {"protocol-error", "session-error"}
    BY <1>12 DEF Due
  <2>2. m.rev \in Revision \cup {0}
    BY DEF Frame, Revision
  <2>3. Peer!Other
    BY <1>0, <1>4, <1>12, <2>1, <2>2 DEF Peer!Other, Peer!Control
  <2> QED
    BY <2>3 DEF Peer!Next
<1> QED
  BY <1>5, <1>6, <1>7, <1>8, <1>9, <1>10, <1>11, <1>12 DEF Sending

\* Every step shows the peer nothing, or a frame the protocol allows next.
LEMMA StepFollows ==
  ASSUME IInv, SeenType, socket = "open" => Chained /\ View, [Next]_vars
  PROVE  Peer!Next \/ UNCHANGED Peer!vars
<1>1. \/ seen' = seen
      \/ /\ socket = "open" /\ outbound # <<>> /\ seen' = Observe(seen, Head1)
  BY DEF Next, PeerStep, Initialize, Change, QueueFull, RefuseFrame, CloseRequested,
    PeerVanishes, SocketEvent, InitStep, Mkdtemp, Materialize, Started, LateClose, InitFails,
    NativeReply, ApplyOk, ApplyFails, PageOk, PageFails, CountOk, CountFails, NativeExit,
    Deliver, PlainSent, PlainRejected, FatalSent, ClosedSent, StepSent, StepRejected,
    FailureSent, Transmit, Reject, Reap, ReapSession, ReapDir, CloseDone, Terminated, vars
<1>2. CASE seen' = seen
  BY <1>2 DEF Peer!vars
<1>3. CASE socket = "open" /\ outbound # <<>> /\ seen' = Observe(seen, Head1)
  <2>1. Chained /\ View /\ seen.last # "session-closed"
    BY <1>3 DEF View
  <2>2. CASE Plain(Head1) /\ seen.last # "page"
    BY <1>3, <2>1, <2>2, NextFrame, PlainFollows
  <2>3. ASSUME NEW o \in Coroutine, pc[o] \in Sending, Due(Head1, o),
               seen.last = "page" <=> pc[o] = "send"
        PROVE  Peer!Next
    BY <1>3, <2>1, <2>3, NextFrame, DueFollows
  <2>4. ASSUME NEW o \in Coroutine, pc[o] = "send", Head1 = Announcement(o),
               seen.last # "page"
        PROVE  Peer!Next
    BY <1>3, <2>1, <2>4, NextFrame, PageFollows
  <2> QED
    BY <1>3, <2>1, <2>2, <2>3, <2>4, NextFrame
<1> QED
  BY <1>1, <1>2, <1>3

-----------------------------------------------------------------------------
(* The chain keeps its shape.                                                 *)

\* No coroutine moves; a plain frame may be added.
LEMMA ChainKept ==
  ASSUME NEW out \in Seq(Frame), ChainedAs(out, seen'.last),
         pc' = pc, rev' = rev, shot' = shot, lastGood' = lastGood,
         outbound' = out \/ \E x \in Frame : Plain(x) /\ outbound' = Append(out, x)
  PROVE  Chained'
<1>1. \A o \in Coroutine, m \in Frame :
        /\ Due(m, o)' <=> Due(m, o)
        /\ Announcement(o)' = Announcement(o)
  BY DEF Due, Announcement
<1>2. CASE (\A o \in Coroutine : pc[o] \notin Sending) /\ Clear(out) /\ seen'.last # "page"
  <2>1. Clear(outbound')
    BY <1>2, PlainMore
  <2> QED
    BY <1>2, <2>1 DEF Chained, ChainedAs
<1>3. ASSUME NEW o \in Coroutine, NEW m \in Frame, pc[o] \in Sending, Due(m, o),
             Carries(out, pc[o], Announcement(o), m, seen'.last)
      PROVE  Chained'
  <2>1. Carries(outbound', pc[o], Announcement(o), m, seen'.last)
    BY <1>3, PlainMore
  <2>2. Carries(outbound', pc'[o], Announcement(o)', m, seen'.last) /\ Due(m, o)'
        /\ pc'[o] \in Sending
    BY <1>1, <1>3, <2>1
  <2> QED
    BY <2>2 DEF Chained, ChainedAs
<1> QED
  BY <1>2, <1>3 DEF ChainedAs

\* The chain out after a coroutine moved: it awaits no frame, or has sent one.
Moved(out) ==
  \/ (\A o \in Coroutine : pc'[o] \notin Sending) /\ outbound' = out
  \/ \E o \in Coroutine, m \in Frame :
       /\ pc'[o] \in Sending /\ Due(m, o)'
       /\ IF pc'[o] = "send"
          THEN Announcement(o)' \in Frame /\ outbound' = out \o <<Announcement(o)', m>>
          ELSE outbound' = Append(out, m)

\* The chain of a coroutine that has sent a frame, or awaits none, has its shape.
LEMMA ChainMoved ==
  ASSUME NEW out \in Seq(Frame), Clear(out), Moved(out), seen'.last # "page"
  PROVE  Chained'
<1>1. CASE (\A o \in Coroutine : pc'[o] \notin Sending) /\ outbound' = out
  BY <1>1 DEF Chained, ChainedAs
<1>2. ASSUME NEW o \in Coroutine, NEW m \in Frame, pc'[o] \in Sending, Due(m, o)',
             IF pc'[o] = "send"
             THEN Announcement(o)' \in Frame /\ outbound' = out \o <<Announcement(o)', m>>
             ELSE outbound' = Append(out, m)
      PROVE  Chained'
  <2>1. CASE pc'[o] = "send"
    <3>1. Paired(outbound', Announcement(o)', m)
      BY <1>2, <2>1, PageAppended
    <3>2. Carries(outbound', pc'[o], Announcement(o)', m, seen'.last)
      BY <2>1, <3>1 DEF Carries
    <3> QED
      BY <1>2, <3>2 DEF Chained, ChainedAs
  <2>2. CASE pc'[o] # "send"
    <3>1. Holds(outbound', m)
      BY <1>2, <2>2, FrameAppended
    <3>2. Carries(outbound', pc'[o], Announcement(o)', m, seen'.last)
      BY <2>2, <3>1 DEF Carries
    <3> QED
      BY <1>2, <3>2 DEF Chained, ChainedAs
  <2> QED
    BY <2>1, <2>2
<1> QED
  BY <1>1, <1>2 DEF Moved

\* close() adds at most the farewell, which is plain.
LEMMA CloseAdds ==
  ASSUME NEW out, NEW b \in BOOLEAN, Close(out, b)
  PROVE  outbound' = out \/ \E x \in Frame : Plain(x) /\ outbound' = Append(out, x)
<1> DEFINE x == Msg("session-closed", 0, 0, "close")
<1>1. x \in Frame
  BY MsgType, LiveAssumption DEF FrameType, Waiter
<1>2. Plain(x)
  BY DEF Plain, Msg
<1>3. outbound' = out \/ outbound' = Append(out, x)
  BY DEF Close
<1> HIDE DEF x
<1> QED
  BY <1>1, <1>2, <1>3

\* No coroutine but o awaits a frame.
Alone(o) == \A w \in Coroutine : w # o => pc[w] \notin Sending

\* A coroutine that fails the session awaits its report, or returns.
LEMMA FailMoves ==
  ASSUME TypeOK, NEW o \in Coroutine, Alone(o), NEW out, FailSession(o, out)
  PROVE  Moved(out)
<1>0. pc \in [Coroutine -> Await]
  BY DEF TypeOK
<1>1. CASE closer # "open"
  BY <1>0, <1>1 DEF FailSession, Return, Moved, Alone, Sending
<1>2. CASE closer = "open"
  <2>1. PICK m \in Frame : m = Msg("session-error", applied, 0, o)
    BY MsgType DEF TypeOK, FrameType, Waiter
  <2>2. pc'[o] = "failing" /\ outbound' = Append(out, m)
    BY <1>0, <1>2, <2>1 DEF FailSession
  <2>3. m.k = o /\ m.type = "session-error"
    BY <2>1 DEF Msg
  <2>4. Due(m, o)'
    BY <2>2, <2>3 DEF Due
  <2> QED
    BY <2>2, <2>4 DEF Moved, Sending
<1> QED
  BY <1>1, <1>2

\* A revision taken from the queue is announced.
LEMMA TakeMoves ==
  ASSUME TypeOK, NEW p \in [Coroutine -> Await], \A w \in Coroutine : p[w] \notin Sending,
         NEW q \in Seq(Revision), NEW out, Taken(p, q, out) \/ NoneTaken(p, q, out)
  PROVE  Moved(out)
<1>1. CASE NoneTaken(p, q, out)
  BY <1>1 DEF NoneTaken, Moved
<1>2. CASE Taken(p, q, out)
  <2> DEFINE m == Msg("revision-started", Head(q), 0, "drain")
  <2>1. Head(q) \in 0..MaxRevision
    <3>1. q # <<>>
      BY <1>2 DEF Taken
    <3>2. Head(q) \in Revision
      BY <3>1, SeqFacts
    <3> QED
      BY <3>2 DEF Revision
  <2>2. m \in Frame
    BY <2>1, MsgType DEF FrameType, Waiter, Coroutine
  <2>3. /\ pc'["drain"] = "started" /\ rev'["drain"] = Head(q)
        /\ outbound' = Append(out, m) /\ "drain" \in Coroutine
    BY <1>2 DEF Taken, TypeOK, Coroutine
  <2>4. Due(m, "drain")'
    BY <2>3 DEF Due, Msg
  <2> HIDE DEF m
  <2> QED
    BY <2>2, <2>3, <2>4 DEF Moved, Sending
<1> QED
  BY <1>1, <1>2

\* A coroutine that finishes may announce the next revision.
LEMMA FinishMoves ==
  ASSUME IInv, NEW o \in Coroutine, pc[o] \notin {"idle", "done"}, initialized, Alone(o),
         NEW out, Finish(o, out)
  PROVE  Moved(out)
<1> DEFINE p == Return(pc, o)
<1>1. TypeOK /\ p \in [Coroutine -> Await] /\ queue \in Seq(Revision)
  BY ReturnType DEF IInv, TypeOK
<1>2. \A w \in Coroutine : p[w] \notin Sending
  BY <1>1 DEF TypeOK, Return, Alone, Sending
<1>3. Taken(p, queue, out) \/ NoneTaken(p, queue, out)
  BY FinishTakes
<1> HIDE DEF p
<1> QED
  BY <1>1, <1>2, <1>3, TakeMoves

\* renderRevision first sends nothing, or drainChanges goes on at once.
LEMMA RenderMoves ==
  ASSUME IInv, NEW o \in Coroutine, pc[o] \notin {"idle", "done"}, initialized, Alone(o),
         NEW out, StartRender(o, out)
  PROVE  Moved(out)
<1>1. CASE closer = "open"
  BY <1>1 DEF IInv, TypeOK, StartRender, Moved, Alone, Sending
<1> QED
  BY <1>1, FinishMoves DEF StartRender

\* A coroutine that sends the frame due at its next stage.
LEMMA SendMoves ==
  ASSUME TypeOK, NEW o \in Coroutine, NEW s \in Sending \ {"send"}, NEW m \in Frame,
         NEW out, Send(o, s, out, m), pc'[o] = s => Due(m, o)'
  PROVE  Moved(out)
BY DEF TypeOK, Send, Moved

\* The last frame seen is the one just sent.
LEMMA LastSeen ==
  ASSUME SeenType, NEW m \in Frame
  PROVE  Observe(seen, m).last = m.type
<1> DEFINE t == [seen EXCEPT !.last = m.type, !.rev = m.rev]
<1>1. m.type \in FrameType /\ m.rev \in 0..MaxRevision
  BY DEF Frame
<1>2. t \in Sight /\ t.last = m.type
  BY <1>1, SightKept DEF SeenType, Sight
<1>3. \/ Observe(seen, m) = [t EXCEPT !.begun = m.rev]
      \/ Observe(seen, m) = [t EXCEPT !.doc = m.rev, !.want = m.n, !.got = 0]
      \/ Observe(seen, m) = [t EXCEPT !.got = t.got + 1]
      \/ Observe(seen, m) = [t EXCEPT !.commit = m.rev, !.doc = 0, !.want = 0, !.got = 0]
      \/ Observe(seen, m) = [t EXCEPT !.told = m.n]
      \/ Observe(seen, m) = t
  BY <1>1, ObserveIs DEF FrameType
<1> HIDE DEF t
<1> QED
  BY <1>2, <1>3 DEF Sight

\* What is sent next, by who awaits it.
LEMMA Sent ==
  ASSUME IInv, SeenType, Chained, NEW k, socket = "open", Transmit(k)
  PROVE  /\ Head1 \in Frame /\ Rest \in Seq(Frame) /\ Head1.k = k
         /\ seen' = Observe(seen, Head1) /\ seen'.last = Head1.type
         /\ k \in {"frame", "fatal", "exit", "close"} =>
              Plain(Head1) /\ seen'.last # "page" /\ ChainedAs(Rest, seen'.last)
         /\ k = "none" => /\ ChainedAs(Rest, seen'.last)
                          /\ \E o \in Coroutine : pc[o] = "send" /\ Head1 = Announcement(o)
         /\ k \in Coroutine => /\ pc[k] \in Sending /\ Due(Head1, k) /\ Clear(Rest)
                               /\ seen'.last # "page"
<1>1. Head1 \in Frame /\ Rest \in Seq(Frame) /\ Head1.k = k /\ seen' = Observe(seen, Head1)
  BY NextFrame DEF Transmit
<1>2. seen'.last = Head1.type
  BY <1>1, LastSeen
<1>3. CASE Plain(Head1) /\ \A t : t # "page" => ChainedAs(Rest, t)
  BY <1>1, <1>2, <1>3 DEF Plain, Coroutine
<1>4. ASSUME NEW o \in Coroutine, pc[o] \in Sending, Due(Head1, o), Clear(Rest)
      PROVE  k = o /\ seen'.last # "page"
  BY <1>1, <1>2, <1>4 DEF Due, Sending
<1>5. ASSUME NEW o \in Coroutine, pc[o] = "send", Head1 = Announcement(o),
             ChainedAs(Rest, "page")
      PROVE  k = "none" /\ seen'.last = "page"
  BY <1>1, <1>2, <1>5 DEF Announcement, Msg
<1>6. \/ Plain(Head1) /\ \A t : t # "page" => ChainedAs(Rest, t)
      \/ \E o \in Coroutine : pc[o] \in Sending /\ Due(Head1, o) /\ Clear(Rest)
      \/ \E o \in Coroutine : /\ pc[o] = "send" /\ Head1 = Announcement(o)
                              /\ ChainedAs(Rest, "page")
  BY NextFrame DEF Transmit
<1>7. CASE \E o \in Coroutine : pc[o] \in Sending /\ Due(Head1, o) /\ Clear(Rest)
  BY <1>1, <1>2, <1>4, <1>7 DEF Coroutine
<1>8. CASE \E o \in Coroutine : /\ pc[o] = "send" /\ Head1 = Announcement(o)
                                /\ ChainedAs(Rest, "page")
  BY <1>1, <1>2, <1>5, <1>8 DEF Coroutine
<1> QED
  BY <1>3, <1>6, <1>7, <1>8

\* A coroutine that runs is the only one, and if it awaits no frame none is there.
LEMMA OnlyOne ==
  ASSUME IInv, NEW o \in Coroutine, pc[o] \notin {"idle", "done"}
  PROVE  /\ Alone(o)
         /\ Chained /\ pc[o] \notin Sending =>
              /\ \A w \in Coroutine : pc[w] \notin Sending
              /\ Clear(outbound) /\ seen.last # "page"
<1>1. Alone(o)
  BY DEF IInv, Stages, DrainAwait, OneRenderer, initializing, processing, Alone, Coroutine, Sending
<1> QED
  BY <1>1 DEF Alone, Chained, ChainedAs

\* The frame a coroutine is about to await is its due.
LEMMA ChainedStep ==
  ASSUME IInv, SeenType, Chained, View, socket = "open", socket' = "open", [Next]_vars
  PROVE  Chained'
<1>0. /\ TypeOK /\ Stages /\ OneRenderer /\ outbound \in Seq(Frame) /\ queue \in Seq(Revision)
      /\ pc \in [Coroutine -> Await] /\ rev \in [Coroutine -> 0..MaxRevision]
      /\ "init" \in Coroutine /\ "drain" \in Coroutine
      /\ \A w \in Coroutine : rev[w] \in 0..MaxRevision
  BY DEF IInv, TypeOK, Coroutine
<1>k. ASSUME pc' = pc, rev' = rev, shot' = shot, lastGood' = lastGood, seen' = seen,
             outbound' = outbound \/ \E x \in Frame : Plain(x) /\ outbound' = Append(outbound, x)
      PROVE  Chained'
  BY <1>0, <1>k, ChainKept DEF Chained
<1>m. ASSUME NEW o \in Coroutine, pc[o] \notin {"idle", "done"}, pc[o] \notin Sending,
             Moved(outbound), seen' = seen
      PROVE  Chained'
  BY <1>0, <1>m, OnlyOne, ChainMoved
<1>1. ASSUME NEW r \in Revision, Initialize(r) PROVE Chained'
  <2>1. \A w \in Coroutine : pc[w] \notin Sending /\ pc'[w] \notin Sending
    BY <1>0, <1>1 DEF Initialize, initializing, Stages, processing, Sending, Coroutine
  <2>2. Clear(outbound) /\ seen.last # "page"
    BY <2>1 DEF Chained, ChainedAs
  <2> QED
    BY <1>0, <1>1, <2>1, <2>2, ChainMoved DEF Initialize, Moved
<1>2. ASSUME NEW r \in Revision, Change(r) PROVE Chained'
  <2> DEFINE q == Append(queue, r)
  <2>1. q \in Seq(Revision) /\ Drain(pc, q, outbound) /\ seen' = seen /\ shot' = shot
        /\ lastGood' = lastGood
    BY <1>0, <1>2, AppendType DEF Change
  <2> HIDE DEF q
  <2>2. CASE NoneTaken(pc, q, outbound)
    BY <2>1, <2>2, <1>k DEF NoneTaken
  <2>3. CASE /\ Taken(pc, q, outbound)
             /\ pc["drain"] = "idle" /\ pc["init"] \in {"idle", "done"}
    <3>1. \A w \in Coroutine : pc[w] \notin Sending
      BY <2>3 DEF Coroutine, Sending
    <3>2. Clear(outbound) /\ seen.last # "page"
      BY <3>1 DEF Chained, ChainedAs
    <3> QED
      BY <1>0, <2>1, <2>3, <3>1, <3>2, TakeMoves, ChainMoved
  <2> QED
    BY <2>1, <2>2, <2>3, DrainTakes
<1>3. ASSUME NEW k \in {"frame", "fatal"}, ProtocolFailure(k)
      PROVE  \E x \in Frame : Plain(x) /\ outbound' = Append(outbound, x)
  <2>1. Msg("protocol-error", 0, 0, k) \in Frame
    BY MsgType, LiveAssumption DEF FrameType, Waiter
  <2>2. Plain(Msg("protocol-error", 0, 0, k))
    BY DEF Plain, Msg
  <2> QED
    BY <1>3, <2>1, <2>2 DEF ProtocolFailure
<1>4. ASSUME NEW r \in Revision, QueueFull(r) PROVE Chained'
  BY <1>3, <1>4, <1>k DEF QueueFull, revVars
<1>5. ASSUME NEW k \in {"frame", "fatal"}, RefuseFrame(k) PROVE Chained'
  BY <1>3, <1>5, <1>k DEF RefuseFrame, revVars
<1>6. CASE CloseRequested
  BY <1>6, <1>k, CloseAdds DEF CloseRequested, revVars
<1>7. CASE PeerVanishes \/ SocketEvent \/ ClosedSent \/ CloseDone
  BY <1>7 DEF PeerVanishes, SocketEvent, ClosedSent, CloseDone
<1>8. CASE Mkdtemp \/ Materialize \/ LateClose
  <2>1. pc["init"] \in {"mkdtemp", "materialize", "lateclose"} /\ seen' = seen
        /\ outbound' = outbound
        /\ \E s \in {"materialize", "start", "done"} : pc' = [pc EXCEPT !["init"] = s]
    BY <1>8 DEF Mkdtemp, Materialize, LateClose, Return
  <2>2. pc["init"] \notin Sending /\ pc["init"] \notin {"idle", "done"}
    BY <2>1 DEF Sending
  <2>3. Moved(outbound)
    BY <1>0, <2>1, <2>2, OnlyOne DEF Moved, Sending
  <2> QED
    BY <1>0, <2>1, <2>2, <2>3, <1>m
<1>9. CASE Started
  <2>1. pc["init"] \notin Sending /\ pc["init"] \notin {"idle", "done"} /\ seen' = seen
    BY <1>9 DEF Started, Sending
  <2>2. CASE closer # "open"
    <3>1. Moved(outbound)
      BY <1>0, <1>9, <2>1, <2>2, OnlyOne DEF Started, Moved, Sending
    <3> QED
      BY <1>0, <2>1, <3>1, <1>m
  <2>3. CASE closer = "open"
    <3>1. PICK m \in Frame : m = Msg("session-ready", rev["init"], 0, "init")
      BY <1>0, MsgType DEF FrameType, Waiter
    <3>2. Send("init", "ready", outbound, m) /\ rev' = rev
      BY <1>9, <2>3, <3>1 DEF Started
    <3>3. pc'["init"] = "ready" => Due(m, "init")'
      BY <3>1, <3>2 DEF Due, Msg
    <3>4. Moved(outbound)
      BY <1>0, <3>2, <3>3, SendMoves DEF Sending
    <3> QED
      BY <1>0, <2>1, <3>4, <1>m
  <2> QED
    BY <2>2, <2>3
<1>10. CASE InitFails
  <2>1. pc["init"] \notin Sending /\ pc["init"] \notin {"idle", "done"} /\ seen' = seen
        /\ FailSession("init", outbound)
    BY <1>10 DEF InitFails, Sending
  <2> QED
    BY <1>0, <2>1, <1>m, OnlyOne, FailMoves
<1>11. CASE ApplyOk
  <2>1. pc["drain"] = "apply" /\ pc["drain"] \notin Sending /\ seen' = seen /\ rev' = rev
    BY <1>11 DEF ApplyOk, Sending
  <2>2. PICK m \in Frame : m = Msg("revision-applied", rev["drain"], 0, "drain")
    BY <1>0, MsgType DEF FrameType, Waiter
  <2>3. PICK s \in {"notrendered", "coalesced", "pending"} : Send("drain", s, outbound, m)
    BY <1>11, <2>2 DEF ApplyOk
  <2>4. pc'["drain"] = s => Due(m, "drain")'
    BY <2>1, <2>2, <2>3 DEF Due, Msg
  <2>5. Moved(outbound)
    BY <1>0, <2>3, <2>4, SendMoves DEF Sending
  <2> QED
    BY <1>0, <2>1, <2>5, <1>m
<1>12. CASE ApplyFails
  <2>1. pc["drain"] = "apply" /\ pc["drain"] \notin Sending /\ seen' = seen /\ rev' = rev
    BY <1>12 DEF ApplyFails, Sending
  <2>2. PICK m \in Frame : m = Msg("protocol-error", rev["drain"], 0, "drain")
    BY <1>0, MsgType DEF FrameType, Waiter
  <2>3. Send("drain", "refused", outbound, m)
    BY <1>12, <2>2 DEF ApplyFails
  <2>4. pc'["drain"] = "refused" => Due(m, "drain")'
    BY <2>2 DEF Due, Msg
  <2>5. Moved(outbound)
    BY <1>0, <2>3, <2>4, SendMoves DEF Sending
  <2> QED
    BY <1>0, <2>1, <2>5, <1>m
<1>13. ASSUME NEW o \in Coroutine, PageOk(o) PROVE Chained'
  <2>1. pc[o] = "page" /\ pc[o] \notin Sending /\ seen' = seen /\ initialized
    BY <1>0, <1>13 DEF PageOk, Sending, Stages, processing, Coroutine
  <2>2. CASE rev[o] # latest
    BY <1>13, <2>1, <2>2, <1>m, OnlyOne, FinishMoves DEF PageOk
  <2>3. CASE rev[o] = latest
    <3>1. Moved(outbound)
      BY <1>13, <2>1, <2>3, OnlyOne DEF PageOk, Moved
    <3> QED
      BY <2>1, <3>1, <1>m
  <2> QED
    BY <2>2, <2>3
<1>14. ASSUME NEW o \in Coroutine, PageFails(o) PROVE Chained'
  <2>1. pc[o] = "page" /\ pc[o] \notin Sending /\ seen' = seen
    BY <1>14 DEF PageFails, Sending
  <2>2. Moved(outbound)
    BY <1>0, <1>14, <2>1, OnlyOne DEF PageFails, Moved, Sending
  <2> QED
    BY <2>1, <2>2, <1>m
<1>15. ASSUME NEW o \in Coroutine, CountOk(o) PROVE Chained'
  <2>1. pc[o] = "count" /\ pc[o] \notin Sending /\ seen' = seen /\ initialized
    BY <1>0, <1>15 DEF CountOk, Sending, Stages, processing, Coroutine
  <2>2. CASE FailSession(o, outbound)
    BY <1>0, <2>1, <2>2, <1>m, OnlyOne, FailMoves
  <2>3. CASE Finish(o, outbound)
    BY <2>1, <2>3, <1>m, OnlyOne, FinishMoves
  <2>4. CASE /\ WholeDocument(o) /\ UNCHANGED <<shot, rev>>
             /\ Send(o, "doc", outbound, Msg("document", rev[o], Len(shot[o]), o))
    <3>1. Len(shot[o]) \in Nat
      BY SeqFacts DEF IInv, TypeOK
    <3>2. PICK m \in Frame : m = Msg("document", rev[o], Len(shot[o]), o)
      BY <1>0, <3>1, MsgType DEF FrameType, Waiter
    <3>3. Len(shot[o]) \in 1..PageLimit
      BY <2>4, <3>1, LiveAssumption DEF WholeDocument
    <3>4. pc'[o] = "doc" => Due(m, o)'
      BY <2>4, <3>2, <3>3 DEF Due, Msg
    <3>5. Moved(outbound)
      BY <1>0, <2>4, <3>2, <3>4, SendMoves DEF Sending
    <3> QED
      BY <2>1, <3>5, <1>m
  <2> QED
    BY <1>15, <2>2, <2>3, <2>4 DEF CountOk
<1>16. ASSUME NEW o \in Coroutine, CountFails(o) PROVE Chained'
  <2>1. pc[o] = "count" /\ pc[o] \notin Sending /\ seen' = seen /\ FailSession(o, outbound)
    BY <1>16 DEF CountFails, Sending
  <2> QED
    BY <1>0, <2>1, <1>m, OnlyOne, FailMoves
<1>17. CASE NativeExit
  <2>1. PICK x \in Frame : x = Msg("session-error", applied, 0, "exit")
    BY MsgType DEF IInv, TypeOK, FrameType, Waiter
  <2>2. Plain(x)
    BY <2>1 DEF Plain, Msg
  <2> QED
    BY <1>17, <2>1, <2>2, <1>k DEF NativeExit, revVars
<1>18. CASE PlainSent
  <2>1. PICK k \in {"none", "frame"} : Transmit(k)
    BY <1>18 DEF PlainSent
  <2>2. Rest \in Seq(Frame) /\ ChainedAs(Rest, seen'.last)
    BY <2>1, Sent
  <2> QED
    BY <1>18, <2>2, ChainKept DEF PlainSent, revVars
<1>19. CASE PlainRejected \/ \E o \in Coroutine : StepRejected(o)
  BY <1>19 DEF PlainRejected, StepRejected, Reject
<1>20. CASE FatalSent
  <2>1. PICK k \in {"fatal", "exit"} : Transmit(k)
    BY <1>20 DEF FatalSent
  <2>2. Rest \in Seq(Frame) /\ ChainedAs(Rest, seen'.last)
    BY <2>1, Sent
  <2>3. outbound' = Rest \/ \E x \in Frame : Plain(x) /\ outbound' = Append(Rest, x)
    BY <1>20, CloseAdds DEF FatalSent
  <2> QED
    BY <1>20, <2>2, <2>3, ChainKept DEF FatalSent, revVars
<1>21. ASSUME NEW o \in Coroutine, StepSent(o) PROVE Chained'
  <2>1. /\ Rest \in Seq(Frame) /\ Clear(Rest) /\ seen'.last # "page" /\ pc[o] \in Sending
        /\ rev[o] \in 0..MaxRevision
    BY <1>0, <1>21, Sent DEF StepSent
  <2>2. pc[o] \notin {"idle", "done"} /\ Alone(o)
    BY <2>1, OnlyOne DEF Sending
  <2>3. pc[o] \in {"pending", "ready", "coalesced", "error", "complete"} => initialized
    BY <1>0 DEF Stages, processing, InitAwait, Coroutine
  <2>4. CASE pc' = [pc EXCEPT ![o] = "apply"] /\ outbound' = Rest
    BY <1>0, <2>1, <2>2, <2>4, ChainMoved DEF Moved, Alone, Sending
  <2>5. CASE /\ Send(o, "error", Rest, Msg("compile-error", rev[o], lastGood, o))
             /\ UNCHANGED <<shot, rev, queue>>
    <3>1. PICK m \in Frame : m = Msg("compile-error", rev[o], lastGood, o)
      BY <2>1, MsgType DEF IInv, TypeOK, FrameType, Waiter
    <3>2. lastGood' = lastGood
      BY <1>21 DEF StepSent, revVars
    <3>3. pc'[o] = "error" => Due(m, o)'
      BY <2>5, <3>1, <3>2 DEF Due, Msg
    <3> QED
      BY <1>0, <2>1, <2>5, <3>1, <3>3, SendMoves, ChainMoved DEF Sending
  <2>6. CASE initialized /\ (StartRender(o, Rest) \/ Finish(o, Rest))
    BY <2>1, <2>2, <2>6, RenderMoves, FinishMoves, ChainMoved
  <2>7. CASE /\ pc[o] \in {"doc", "send"} /\ shot[o] # <<>>
             /\ SendPage(o, Rest) /\ UNCHANGED <<rev, queue>>
    <3> DEFINE p == Msg("page", rev[o], 0, "none")
    <3>1. Head(shot[o]) \in 0..MaxRevision
      BY <2>7, SeqFacts, LiveAssumption DEF IInv, TypeOK, Revision
    <3>2. PICK m \in Frame : m = Msg("png", Head(shot[o]), 0, o)
      BY <3>1, MsgType DEF FrameType, Waiter
    <3>3. p \in Frame
      BY <2>1, MsgType DEF FrameType, Waiter
    <3>4. pc'[o] = "send" /\ outbound' = Rest \o <<p, m>> /\ Announcement(o)' = p
      BY <1>0, <2>7, <3>2 DEF SendPage, Announcement
    <3>5. Head(shot[o]) = rev[o]
      <4>1. Shows(shot[o], rev[o])
        BY <2>7 DEF View, Facing
      <4>2. Head(shot[o]) = shot[o][1] /\ 1 \in 1..Len(shot[o])
        BY <2>7, SeqFacts DEF IInv, TypeOK
      <4> QED
        BY <4>1, <4>2 DEF Shows
    <3>6. Due(m, o)'
      BY <2>7, <3>2, <3>4, <3>5 DEF Due, Msg
    <3> HIDE DEF p
    <3>7. Moved(Rest)
      BY <3>3, <3>4, <3>6 DEF Moved, Sending
    <3> QED
      BY <2>1, <3>7, ChainMoved
  <2>8. CASE /\ Send(o, "complete", Rest, Msg("revision-complete", rev[o], 0, o))
             /\ UNCHANGED <<shot, rev, queue>>
    <3>1. PICK m \in Frame : m = Msg("revision-complete", rev[o], 0, o)
      BY <2>1, MsgType DEF FrameType, Waiter
    <3>2. pc'[o] = "complete" => Due(m, o)'
      BY <2>8, <3>1 DEF Due, Msg
    <3> QED
      BY <1>0, <2>1, <2>8, <3>1, <3>2, SendMoves, ChainMoved DEF Sending
  <2> QED
    BY <1>21, <2>3, <2>4, <2>5, <2>6, <2>7, <2>8 DEF StepSent
<1>22. ASSUME NEW o \in Coroutine, FailureSent(o) PROVE Chained'
  <2>1. Rest \in Seq(Frame) /\ Clear(Rest) /\ seen'.last # "page" /\ pc[o] \in Sending
    BY <1>22, Sent DEF FailureSent
  <2>2. \A w \in Coroutine : pc'[w] \notin Sending
    BY <1>0, <1>22, <2>1, OnlyOne DEF FailureSent, Return, Alone, Sending
  <2>3. outbound' = Rest \/ \E x \in Frame : Plain(x) /\ outbound' = Append(Rest, x)
    BY <1>22, CloseAdds DEF FailureSent
  <2>4. Clear(outbound')
    BY <2>1, <2>3, PlainMore
  <2> QED
    BY <2>1, <2>2, <2>4 DEF Chained, ChainedAs
<1>23. CASE ReapSession \/ ReapDir \/ UNCHANGED vars
  BY <1>23, <1>k DEF ReapSession, ReapDir, vars, revVars
<1>24. CASE PeerStep
  BY <1>1, <1>2, <1>4, <1>5, <1>6, <1>7, <1>24 DEF PeerStep
<1>25. CASE InitStep \/ NativeReply
  BY <1>8, <1>9, <1>10, <1>11, <1>12, <1>13, <1>14, <1>15, <1>16, <1>25
  DEF InitStep, NativeReply
<1>26. CASE Deliver
  BY <1>7, <1>18, <1>19, <1>20, <1>21, <1>22, <1>26 DEF Deliver
<1> QED
  BY <1>7, <1>17, <1>23, <1>24, <1>25, <1>26 DEF Next, Reap, Terminated

-----------------------------------------------------------------------------
(* The peer's view is the one the coroutines know of.                         *)

\* No coroutine moves; the last frame may be a plain one or an announcement.
LEMMA ViewKept ==
  ASSUME View, pc' = pc, rev' = rev, shot' = shot, lastGood' = lastGood,
         initialized' = initialized, closer' \in {"open", "notify"},
         seen'.last # "session-closed",
         seen'.begun = seen.begun, seen'.commit = seen.commit, seen'.doc = seen.doc,
         seen'.want = seen.want, seen'.got = seen.got
  PROVE  View'
BY DEF View, Facing

\* What has to hold after coroutine o moved, if no other is at work.
Sees(o) ==
  /\ closer' \in {"open", "notify"} /\ seen'.last # "session-closed"
  /\ seen'.commit <= seen'.begun
  /\ seen'.begun <= rev'["init"] \/ seen'.begun <= rev'["drain"]
  /\ (initialized' /\ pc'["init"] # "ready") <=> seen'.begun # 0
  /\ pc'[o] \notin {"doc", "send", "complete"} => lastGood' = seen'.commit
  /\ pc'[o] \notin {"send", "complete"} => seen'.doc = 0
  /\ Facing(o)'

\* The view of a step in which at most coroutine o is at work.
LEMMA ViewMoved ==
  ASSUME NEW o \in Coroutine, \A w \in Coroutine : w # o => pc'[w] \notin AtWork, Sees(o)
  PROVE  View'
<1>1. \A w \in Coroutine : Facing(w)'
  BY DEF Sees, Facing, AtWork, Rendering
<1>2. \A w \in Coroutine : w # o => pc'[w] \notin {"doc", "send", "complete"}
  BY DEF AtWork, Rendering
<1> QED
  BY <1>1, <1>2 DEF View, Sees

\* A queued revision is begun after all the peer has seen.
LEMMA ViewTaken ==
  ASSUME IInv, NEW q \in Seq(Revision), NEW out, NEW p \in [Coroutine -> Await],
         Taken(p, q, out) \/ NoneTaken(p, q, out),
         \A w \in Coroutine : p[w] \notin AtWork,
         \A w \in Coroutine : Above(q, rev[w]),
         closer' \in {"open", "notify"}, initialized', seen'.last # "session-closed",
         seen' \in Sight, seen'.begun # 0, seen'.commit <= seen'.begun,
         seen'.begun <= rev["init"] \/ seen'.begun <= rev["drain"],
         lastGood' = seen'.commit, seen'.doc = 0
  PROVE  View'
<1>0. /\ rev \in [Coroutine -> 0..MaxRevision] /\ "init" \in Coroutine /\ "drain" \in Coroutine
      /\ seen'.begun \in Nat /\ seen'.commit \in Nat
      /\ \A w \in Coroutine : rev[w] \in 0..MaxRevision
  BY DEF IInv, TypeOK, Coroutine, Sight
<1>1. CASE NoneTaken(p, q, out)
  <2>1. Sees("drain") /\ \A w \in Coroutine : pc'[w] \notin AtWork
    BY <1>0, <1>1 DEF NoneTaken, Sees, Facing, AtWork, Rendering
  <2> QED
    BY <1>0, <2>1, ViewMoved
<1>2. CASE Taken(p, q, out)
  <2>1. /\ q # <<>> /\ rev' = [rev EXCEPT !["drain"] = Head(q)]
        /\ pc' = [p EXCEPT !["drain"] = "started"]
    BY <1>2 DEF Taken
  <2>2. /\ Head(q) \in Revision /\ Head(q) = q[1] /\ 1 \in 1..Len(q)
    BY <2>1, SeqFacts
  <2>3. Head(q) \in Nat /\ rev["init"] < Head(q) /\ rev["drain"] < Head(q)
    BY <1>0, <2>2 DEF Above, Revision
  <2>4. /\ rev'["init"] = rev["init"] /\ rev'["drain"] = Head(q)
        /\ pc'["init"] = p["init"] /\ pc'["drain"] = "started"
    BY <1>0, <2>1 DEF Coroutine
  <2>5. seen'.begun < rev'["drain"] /\ seen'.commit < rev'["drain"]
    BY <1>0, <2>3, <2>4
  <2>6. Facing("drain")'
    BY <2>4, <2>5 DEF Facing
  <2>7. pc'["init"] \notin AtWork /\ pc'["init"] # "ready"
    BY <1>0, <2>4 DEF AtWork
  <2>8. seen'.begun <= rev'["drain"]
    BY <1>0, <2>3, <2>4, <2>5
  <2>9. Sees("drain")
    BY <2>4, <2>6, <2>7, <2>8 DEF Sees
  <2> QED
    BY <1>0, <2>7, <2>9, ViewMoved DEF Coroutine
<1> QED
  BY <1>1, <1>2

\* The view after a coroutine has finished with its revision.
LEMMA ViewFinished ==
  ASSUME IInv, Rising, NEW o \in Coroutine, pc[o] \notin {"idle", "done"}, initialized,
         NEW out, Finish(o, out),
         closer' \in {"open", "notify"}, initialized', seen'.last # "session-closed",
         seen' \in Sight, seen'.begun # 0, seen'.commit <= seen'.begun,
         seen'.begun <= rev["init"] \/ seen'.begun <= rev["drain"],
         lastGood' = seen'.commit, seen'.doc = 0
  PROVE  View'
<1> DEFINE p == Return(pc, o)
<1>1. /\ Taken(p, queue, out) \/ NoneTaken(p, queue, out)
      /\ p["drain"] = "idle" /\ p["init"] \in {"idle", "done"}
  BY FinishTakes
<1>2. p \in [Coroutine -> Await] /\ queue \in Seq(Revision)
  BY ReturnType DEF IInv, TypeOK
<1> HIDE DEF p
<1>3. \A w \in Coroutine : p[w] \notin AtWork /\ Above(queue, rev[w])
  BY <1>1 DEF AtWork, Rendering, Coroutine, Rising
<1> QED
  BY <1>1, <1>2, <1>3, ViewTaken

\* Everything else the coroutines do leaves the view as they know it.
LEMMA ViewStep ==
  ASSUME IInv, Rising, SeenType, Chained, View, Announced, socket = "open",
         socket' = "open", [Next]_vars
  PROVE  View'
<1>0. /\ TypeOK /\ Stages /\ OneRenderer /\ queue \in Seq(Revision)
      /\ pc \in [Coroutine -> Await] /\ rev \in [Coroutine -> 0..MaxRevision]
      /\ shot \in [Coroutine -> Seq(Revision)]
      /\ "init" \in Coroutine /\ "drain" \in Coroutine
      /\ \A w \in Coroutine : rev[w] \in 0..MaxRevision
  BY DEF IInv, TypeOK, Coroutine
<1>v. /\ closer \in {"open", "notify"} /\ seen.last # "session-closed"
      /\ seen.commit <= seen.begun /\ seen \in Sight
      /\ seen.begun \in Nat /\ seen.commit \in Nat
      /\ seen.begun <= rev["init"] \/ seen.begun <= rev["drain"]
      /\ (initialized /\ pc["init"] # "ready") <=> seen.begun # 0
      /\ \A o \in Coroutine : Facing(o)
  BY DEF View, SeenType, Sight
\* What holds of a coroutine that runs: it is the only one.
<1>r. ASSUME NEW o \in Coroutine, pc[o] \notin {"idle", "done"}
      PROVE  /\ \A w \in Coroutine : w # o => pc[w] \notin AtWork
             /\ pc[o] \notin {"doc", "send", "complete"} => lastGood = seen.commit
             /\ pc[o] \notin {"send", "complete"} => seen.doc = 0
             /\ pc[o] \in AtWork => initialized
             /\ pc[o] \in AtWork \ {"ready"} => seen.begun # 0 /\ pc["init"] # "ready"
  <2>1. \A w \in Coroutine : w # o => pc[w] \in {"idle", "done"}
    BY <1>0, <1>r DEF Stages, DrainAwait, OneRenderer, initializing, processing, Coroutine
  <2>2. \A w \in Coroutine : w # o => pc[w] \notin AtWork
    BY <2>1 DEF AtWork, Rendering
  <2>3. /\ pc[o] \notin {"doc", "send", "complete"} => lastGood = seen.commit
        /\ pc[o] \notin {"send", "complete"} => seen.doc = 0
    BY <2>1 DEF View
  <2>4. pc[o] \in AtWork => initialized
    BY <1>0 DEF Stages, processing, AtWork, Rendering, InitAwait, Coroutine
  <2>5. pc[o] \in AtWork \ {"ready"} => pc["init"] # "ready"
    BY <2>1, <1>0 DEF Coroutine
  <2> QED
    BY <1>v, <2>2, <2>3, <2>4, <2>5
<1>k. ASSUME pc' = pc, rev' = rev, shot' = shot, lastGood' = lastGood,
             initialized' = initialized, seen' = seen, closer' \in {"open", "notify"}
      PROVE  View'
  BY <1>k, <1>v, ViewKept
<1>c. ASSUME NEW out, Close(out, TRUE)
      PROVE  closer' \in {"open", "notify"}
  BY <1>c, <1>v DEF Close, closeVars
\* Coroutine o moves on before anything of its revision is shown.
<1>m. ASSUME NEW o \in Coroutine, pc[o] \notin {"idle", "done"},
             pc[o] \notin {"doc", "send", "complete"},
             NEW s, pc' = [pc EXCEPT ![o] = s], s \notin {"doc", "send", "complete", "ready"},
             s \in AtWork => pc[o] \in AtWork \ {"ready", "started"}, s # "started",
             pc[o] # "ready", seen' = seen, rev' = rev, lastGood' = lastGood,
             closer' = closer, initialized' = initialized
      PROVE  View'
  <2>1. pc'[o] = s /\ \A w \in Coroutine : w # o => pc'[w] = pc[w]
    BY <1>0, <1>m
  <2>2. \A w \in Coroutine : w # o => pc'[w] \notin AtWork
    BY <1>m, <1>r, <2>1
  <2>3. Facing(o)'
    BY <1>m, <1>v, <2>1 DEF Facing, AtWork, Rendering
  <2>4. pc'["init"] = "ready" <=> pc["init"] = "ready"
    BY <1>0, <1>m, <2>1
  <2>5. Sees(o)
    BY <1>m, <1>r, <1>v, <2>1, <2>3, <2>4 DEF Sees
  <2> QED
    BY <2>2, <2>5, ViewMoved
\* Coroutine o returns or fails before anything of its revision is shown.
<1>x. ASSUME NEW o \in Coroutine, pc[o] \notin {"idle", "done"},
             pc[o] \notin {"doc", "send", "complete", "ready"}, NEW out, FailSession(o, out),
             seen' = seen, rev' = rev, lastGood' = lastGood,
             closer' = closer, initialized' = initialized
      PROVE  View'
  <2>1. PICK s \in {"idle", "done", "failing"} : pc' = [pc EXCEPT ![o] = s]
    BY <1>x DEF FailSession, Return
  <2>2. s \notin AtWork /\ s \notin {"doc", "send", "complete", "ready"} /\ s # "started"
    BY DEF AtWork, Rendering
  <2> QED
    BY <1>x, <2>1, <2>2, <1>m
<1>f. ASSUME NEW o \in Coroutine, pc[o] \in {"page", "count"}, NEW out, Finish(o, out),
             seen' = seen, lastGood' = lastGood, closer' = closer, initialized' = initialized
      PROVE  View'
  <2>1. pc[o] \notin {"idle", "done"} /\ initialized /\ seen.begun # 0 /\ lastGood = seen.commit
        /\ seen.doc = 0
    BY <1>f, <1>r DEF AtWork, Rendering
  <2> QED
    BY <1>f, <1>v, <2>1, ViewFinished
<1>1. ASSUME NEW r \in Revision, Initialize(r) PROVE View'
  <2>1. /\ ~initialized /\ pc["drain"] = "idle" /\ pc["init"] \in {"idle", "done"}
        /\ pc' = [pc EXCEPT !["init"] = "mkdtemp"] /\ rev' = [rev EXCEPT !["init"] = r]
        /\ UNCHANGED <<closer, initialized, lastGood, seen>>
    BY <1>0, <1>1 DEF Initialize, initializing, Stages, processing, closeVars, revVars
  <2>2. pc'["init"] = "mkdtemp" /\ pc'["drain"] = "idle" /\ rev'["init"] = r /\ r \in Nat
    BY <1>0, <2>1 DEF Revision, Coroutine
  <2>3. seen.begun = 0 /\ lastGood = seen.commit /\ seen.doc = 0
    BY <1>v, <2>1 DEF View, Coroutine
  <2>4. Sees("init")
    BY <1>v, <2>1, <2>2, <2>3 DEF Sees, Facing, AtWork, Rendering
  <2>5. \A w \in Coroutine : w # "init" => pc'[w] \notin AtWork
    BY <2>2 DEF Coroutine, AtWork, Rendering
  <2> QED
    BY <1>0, <2>4, <2>5, ViewMoved
<1>2. ASSUME NEW r \in Revision, Change(r) PROVE View'
  <2> DEFINE q == Append(queue, r)
  <2>1. /\ q \in Seq(Revision) /\ Drain(pc, q, outbound) /\ seen' = seen /\ shot' = shot
        /\ lastGood' = lastGood /\ initialized /\ initialized' /\ closer' = closer
        /\ r > latest /\ latest \in 0..MaxRevision
    BY <1>0, <1>2, AppendType DEF Change, closeVars, TypeOK
  <2>2. \A w \in Coroutine : Above(q, rev[w])
    <3>1. \A w \in Coroutine : rev[w] \in 0..latest /\ Above(queue, rev[w])
      BY <1>0, <2>1 DEF Rising
    <3> QED
      BY <1>0, <2>1, <3>1, SortedAppend DEF Rising
  <2> HIDE DEF q
  <2>3. CASE NoneTaken(pc, q, outbound)
    BY <1>v, <2>1, <2>3, <1>k DEF NoneTaken
  <2>4. CASE /\ Taken(pc, q, outbound)
             /\ pc["drain"] = "idle" /\ pc["init"] \in {"idle", "done"}
    <3>1. \A w \in Coroutine : pc[w] \notin AtWork
      BY <2>4 DEF Coroutine, AtWork, Rendering
    <3>2. seen.begun # 0 /\ lastGood = seen.commit /\ seen.doc = 0
      BY <1>v, <2>1, <2>4 DEF View, Coroutine
    <3> QED
      BY <1>0, <1>v, <2>1, <2>2, <2>4, <3>1, <3>2, ViewTaken
  <2> QED
    BY <2>1, <2>3, <2>4, DrainTakes
<1>3. ASSUME NEW r \in Revision, QueueFull(r) PROVE View'
  BY <1>3, <1>v, <1>k DEF QueueFull, closeVars, revVars
<1>4. ASSUME NEW k \in {"frame", "fatal"}, RefuseFrame(k) PROVE View'
  BY <1>4, <1>v, <1>k DEF RefuseFrame, closeVars, revVars
<1>5. CASE CloseRequested
  BY <1>5, <1>c, <1>k DEF CloseRequested, revVars
<1>6. CASE PeerVanishes \/ SocketEvent \/ ClosedSent \/ CloseDone
  BY <1>6 DEF PeerVanishes, SocketEvent, ClosedSent, CloseDone
<1>7. CASE Mkdtemp \/ Materialize \/ LateClose
  <2>1. PICK s \in {"materialize", "start", "done"} : pc' = [pc EXCEPT !["init"] = s]
    BY <1>7 DEF Mkdtemp, Materialize, LateClose, Return
  <2>2. /\ pc["init"] \in {"mkdtemp", "materialize", "lateclose"}
        /\ UNCHANGED <<seen, rev, lastGood, closer, initialized>>
    BY <1>7 DEF Mkdtemp, Materialize, LateClose, closeVars, revVars
  <2>3. s \notin AtWork /\ s \notin {"doc", "send", "complete", "ready"} /\ s # "started"
    BY DEF AtWork, Rendering
  <2> QED
    BY <1>0, <2>1, <2>2, <2>3, <1>m
<1>8. CASE Started
  <2>1. CASE closer # "open"
    <3>1. /\ pc["init"] = "start" /\ pc' = [pc EXCEPT !["init"] = "lateclose"]
          /\ UNCHANGED <<seen, rev, lastGood, closer, initialized>>
      BY <1>8, <2>1 DEF Started, closeVars, revVars
    <3>2. "lateclose" \notin AtWork
      BY DEF AtWork, Rendering
    <3> QED
      BY <1>0, <3>1, <3>2, <1>m
  <2>2. CASE closer = "open"
    <3>1. /\ pc["init"] = "start" /\ pc' = [pc EXCEPT !["init"] = "ready"]
          /\ UNCHANGED <<seen, rev, lastGood, closer>> /\ ~initialized
      BY <1>0, <1>8, <2>2 DEF Started, Send, closeVars, Stages
    <3>2. rev["init"] \in Revision /\ seen.begun = 0
      BY <1>0, <1>v, <3>1 DEF Stages
    <3>3. /\ pc'["init"] = "ready" /\ lastGood = seen.commit /\ seen.doc = 0
          /\ \A w \in Coroutine : w # "init" => pc'[w] \notin AtWork
      BY <1>0, <3>1, <1>r
    <3>4. Facing("init")'
      BY <1>v, <3>1, <3>2, <3>3 DEF Facing, Revision
    <3>5. Sees("init")
      BY <1>v, <3>1, <3>2, <3>3, <3>4 DEF Sees
    <3> QED
      BY <1>0, <3>3, <3>5, ViewMoved
  <2> QED
    BY <2>1, <2>2
<1>9. CASE InitFails
  <2>1. /\ pc["init"] \in {"mkdtemp", "materialize", "start"} /\ FailSession("init", outbound)
        /\ UNCHANGED <<seen, rev, lastGood, closer, initialized>>
    BY <1>9 DEF InitFails, closeVars, revVars
  <2> QED
    BY <1>0, <2>1, <1>x
<1>10. CASE ApplyOk
  <2>1. PICK s \in {"notrendered", "coalesced", "pending"} : pc' = [pc EXCEPT !["drain"] = s]
    BY <1>10 DEF ApplyOk, Send
  <2>2. /\ pc["drain"] = "apply" /\ pc["drain"] \in AtWork \ {"ready", "started"}
        /\ UNCHANGED <<seen, rev, lastGood, closer, initialized>>
    BY <1>10 DEF ApplyOk, AtWork, closeVars
  <2> QED
    BY <1>0, <2>1, <2>2, <1>m
<1>11. CASE ApplyFails
  <2>1. /\ pc["drain"] = "apply" /\ pc' = [pc EXCEPT !["drain"] = "refused"]
        /\ UNCHANGED <<seen, rev, lastGood, closer, initialized>>
    BY <1>11 DEF ApplyFails, Send, closeVars, revVars
  <2>2. "refused" \notin AtWork
    BY DEF AtWork, Rendering
  <2> QED
    BY <1>0, <2>1, <2>2, <1>m
<1>12. ASSUME NEW o \in Coroutine, PageOk(o) PROVE View'
  <2>1. /\ pc[o] = "page" /\ UNCHANGED <<seen, lastGood, closer, initialized>>
    BY <1>12 DEF PageOk, closeVars, revVars
  <2>2. CASE rev[o] # latest
    BY <1>12, <2>1, <2>2, <1>f DEF PageOk
  <2>3. CASE rev[o] = latest
    <3>1. pc' = pc /\ rev' = rev
      BY <1>12, <2>3 DEF PageOk
    <3>2. pc' = [pc EXCEPT ![o] = "page"] /\ pc[o] \in AtWork \ {"ready", "started"}
      BY <1>0, <2>1, <3>1 DEF AtWork, Rendering
    <3> QED
      BY <2>1, <3>1, <3>2, <1>m
  <2> QED
    BY <2>2, <2>3
<1>13. ASSUME NEW o \in Coroutine, PageFails(o) PROVE View'
  <2>1. /\ pc[o] = "page" /\ pc' = [pc EXCEPT ![o] = "count"]
        /\ UNCHANGED <<seen, rev, lastGood, closer, initialized>>
    BY <1>13 DEF PageFails, closeVars, revVars
  <2>2. pc[o] \in AtWork \ {"ready", "started"}
    BY <2>1 DEF AtWork, Rendering
  <2> QED
    BY <2>1, <2>2, <1>m
<1>14. ASSUME NEW o \in Coroutine, CountOk(o) PROVE View'
  <2>1. /\ pc[o] = "count" /\ UNCHANGED <<seen, closer, initialized>>
    BY <1>14 DEF CountOk, closeVars
  <2>2. CASE FailSession(o, outbound) /\ UNCHANGED <<rev, lastGood>>
    BY <2>1, <2>2, <1>x
  <2>3. CASE Finish(o, outbound) /\ UNCHANGED lastGood
    BY <2>1, <2>3, <1>f
  <2>4. CASE /\ lastGood' = rev[o] /\ pc' = [pc EXCEPT ![o] = "doc"]
             /\ UNCHANGED <<shot, rev>>
    <3>1. pc'[o] = "doc" /\ \A w \in Coroutine : w # o => pc'[w] = pc[w]
      BY <1>0, <2>4
    <3>2. Shows(shot[o], rev[o])
      BY <2>1, <3>1 DEF Announced, Shows
    <3>3. /\ \A w \in Coroutine : w # o => pc'[w] \notin AtWork
          /\ initialized /\ seen.begun # 0 /\ seen.doc = 0 /\ pc["init"] # "ready"
      BY <2>1, <3>1, <1>r DEF AtWork, Rendering
    <3>4. pc'["init"] # "ready"
      BY <1>0, <3>1, <3>3
    <3>5. seen.commit < rev[o] /\ seen.begun = rev[o]
      BY <1>v, <2>1 DEF Facing, AtWork, Rendering
    <3>6. Facing(o)'
      BY <2>1, <2>4, <3>1, <3>2, <3>5 DEF Facing
    <3>7. Sees(o)
      BY <1>v, <2>1, <2>4, <3>1, <3>3, <3>4, <3>6 DEF Sees
    <3> QED
      BY <3>3, <3>7, ViewMoved
  <2> QED
    BY <1>14, <2>2, <2>3, <2>4 DEF CountOk, Send
<1>15. ASSUME NEW o \in Coroutine, CountFails(o) PROVE View'
  <2>1. /\ pc[o] = "count" /\ FailSession(o, outbound)
        /\ UNCHANGED <<seen, rev, lastGood, closer, initialized>>
    BY <1>15 DEF CountFails, closeVars, revVars
  <2> QED
    BY <2>1, <1>x
<1>16. CASE NativeExit
  BY <1>16, <1>v, <1>k DEF NativeExit, closeVars, revVars

\* The last frame is a plain one or an announcement.
<1>l. ASSUME NEW k \in {"none", "frame", "fatal", "exit"}, Transmit(k)
      PROVE  /\ seen'.last # "session-closed"
             /\ seen'.begun = seen.begun /\ seen'.commit = seen.commit /\ seen'.doc = seen.doc
             /\ seen'.want = seen.want /\ seen'.got = seen.got
  <2>1. Head1 \in Frame /\ seen' = Observe(seen, Head1) /\ seen'.last = Head1.type
    BY <1>l, Sent
  <2>2. Head1.type \in {"protocol-error", "session-error", "page"}
    BY <1>l, Sent DEF Plain, Announcement, Msg
  <2>3. seen' = [seen EXCEPT !.last = Head1.type, !.rev = Head1.rev]
    BY <2>1, <2>2, ObserveIs
  <2> QED
    BY <1>v, <2>1, <2>2, <2>3 DEF Sight
<1>17. CASE PlainSent
  <2>1. PICK k \in {"none", "frame"} : Transmit(k)
    BY <1>17 DEF PlainSent
  <2> QED
    BY <1>17, <1>l, <1>v, <2>1, ViewKept DEF PlainSent, closeVars, revVars
<1>18. CASE PlainRejected \/ \E o \in Coroutine : StepRejected(o)
  BY <1>18 DEF PlainRejected, StepRejected, Reject
<1>19. CASE FatalSent
  <2>1. PICK k \in {"fatal", "exit"} : Transmit(k)
    BY <1>19 DEF FatalSent
  <2>2. Close(Rest, TRUE)
    BY <1>19 DEF FatalSent
  <2> QED
    BY <1>19, <1>l, <1>c, <2>1, <2>2, ViewKept DEF FatalSent, revVars
<1>20. ASSUME NEW o \in Coroutine, Transmit(o)
       PROVE  /\ pc[o] \in Sending /\ pc[o] \notin {"idle", "done"}
              /\ seen'.last # "session-closed" /\ seen' \in Sight
              /\ seen'.begun = IF pc[o] \in {"ready", "started"} THEN rev[o] ELSE seen.begun
              /\ seen'.commit = IF pc[o] = "complete" THEN rev[o] ELSE seen.commit
              /\ seen'.doc = IF pc[o] = "doc" THEN rev[o]
                             ELSE IF pc[o] = "complete" THEN 0 ELSE seen.doc
              /\ seen'.want = IF pc[o] = "doc" THEN Len(shot[o])
                              ELSE IF pc[o] = "complete" THEN 0 ELSE seen.want
              /\ seen'.got = IF pc[o] \in {"doc", "complete"} THEN 0
                             ELSE IF pc[o] = "send" THEN seen.got + 1 ELSE seen.got
  <2>1. /\ Head1 \in Frame /\ seen' = Observe(seen, Head1) /\ seen'.last = Head1.type
        /\ pc[o] \in Sending /\ Due(Head1, o)
    BY <1>20, Sent
  <2>2. pc[o] \notin {"idle", "done"} /\ seen'.last # "session-closed"
    BY <2>1 DEF Due, Sending
  <2>3. seen' \in Sight
    BY <2>1, SeenTyped
  <2> QED
    BY <2>1, <2>2, <2>3, SeenAfter
\* Coroutine o, at work, ends or gives up its revision.
<1>e. ASSUME NEW o \in Coroutine, pc[o] \in {"coalesced", "error", "complete", "pending", "ready"},
             Transmit(o), closer' = closer, initialized' = initialized, lastGood' = lastGood,
             Finish(o, Rest)
      PROVE  View'
  <2>1. initialized /\ seen.commit < rev[o]
    BY <1>e, <1>r, <1>v DEF Facing, AtWork, Rendering
  <2>2. seen'.begun = rev[o]
    BY <1>e, <1>20, <1>v DEF Facing, AtWork, Rendering
  <2>3. lastGood = seen'.commit /\ seen'.doc = 0
    <3>1. pc[o] = "complete" => lastGood = rev[o]
      BY DEF IInv, Working
    <3> QED
      BY <1>e, <1>20, <1>r, <3>1
  <2>4. seen'.begun # 0 /\ seen'.commit <= seen'.begun
        /\ (seen'.begun <= rev["init"] \/ seen'.begun <= rev["drain"])
    BY <1>0, <1>e, <1>v, <1>20, <2>1, <2>2 DEF Coroutine
  <2> QED
    BY <1>e, <1>v, <1>20, <2>1, <2>3, <2>4, ViewFinished
<1>21. ASSUME NEW o \in Coroutine, StepSent(o) PROVE View'
  <2>1. /\ Transmit(o) /\ UNCHANGED <<closer, initialized, lastGood>>
    BY <1>21 DEF StepSent, closeVars, revVars
  <2>2. /\ pc[o] \in Sending /\ pc[o] \notin {"idle", "done"} /\ Facing(o)
        /\ Len(shot[o]) \in Nat /\ seen.got \in Nat
    BY <1>0, <1>v, <2>1, <1>20, SeqFacts DEF Sight
  \* It goes on with its revision, at s.
  <2>3. ASSUME NEW s \in AtWork \ {"ready", "started"}, pc' = [pc EXCEPT ![o] = s], rev' = rev,
               pc[o] \in AtWork, pc[o] # "complete",
               s \in {"doc", "send", "complete"} <=> pc[o] \in {"doc", "send"}, s # "doc",
               s = "send" => /\ Len(shot'[o]) + 1 = Len(shot[o]) /\ Shows(shot'[o], rev[o])
                             /\ Len(shot'[o]) \in Nat,
               s = "complete" => Len(shot[o]) = 0
        PROVE  View'
    <3>1. pc'[o] = s /\ \A w \in Coroutine : w # o => pc'[w] = pc[w]
      BY <1>0, <2>3
    <3>2. \A w \in Coroutine : w # o => pc'[w] \notin AtWork
      BY <2>2, <3>1, <1>r
    <3>3. seen'.begun = rev[o] /\ seen'.commit = seen.commit /\ seen.commit < rev[o]
      BY <2>1, <2>2, <2>3, <1>20 DEF Facing
    <3>4. /\ initialized /\ pc'["init"] # "ready" /\ seen'.begun # 0
          /\ seen'.commit <= seen'.begun
      BY <1>0, <1>r, <1>v, <2>2, <2>3, <3>1, <3>3 DEF Coroutine
    <3>5. pc'[o] \notin {"doc", "send", "complete"} => lastGood' = seen'.commit /\ seen'.doc = 0
      BY <1>r, <1>20, <2>1, <2>2, <2>3, <3>1
    <3>6. s = "send" => seen'.doc = rev[o] /\ seen'.want = seen'.got + Len(shot'[o]) + 1
      BY <1>20, <2>1, <2>2, <2>3 DEF Facing
    <3>7. s = "complete" => seen'.doc = rev[o] /\ seen'.want = seen'.got
      BY <1>20, <2>1, <2>2, <2>3 DEF Facing
    <3>8. Facing(o)'
      BY <2>3, <3>1, <3>3, <3>6, <3>7 DEF Facing
    <3>9. seen'.begun <= rev'["init"] \/ seen'.begun <= rev'["drain"]
      BY <1>0, <2>3, <3>3 DEF Coroutine
    <3>10. Sees(o)
      BY <1>v, <1>20, <2>1, <2>3, <3>1, <3>4, <3>5, <3>8, <3>9 DEF Sees
    <3> QED
      BY <3>2, <3>10, ViewMoved
  <2>4. CASE pc[o] = "started" /\ pc' = [pc EXCEPT ![o] = "apply"] /\ rev' = rev
    BY <2>3, <2>4 DEF AtWork, Rendering
  <2>5. CASE /\ pc[o] \in {"notrendered", "ready"} /\ rev' = rev
             /\ pc' = [pc EXCEPT ![o] = "error"]
    BY <2>3, <2>5 DEF AtWork, Rendering
  <2>6. CASE /\ pc[o] \in {"pending", "ready"} /\ closer = "open" /\ rev' = rev
             /\ pc' = [pc EXCEPT ![o] = "page"]
    BY <2>3, <2>6 DEF AtWork, Rendering
  <2>7. CASE /\ pc[o] \in {"coalesced", "error", "complete", "pending", "ready"}
             /\ Finish(o, Rest)
    BY <2>1, <2>7, <1>e
  <2>8. CASE /\ pc[o] \in {"doc", "send"} /\ shot[o] # <<>> /\ rev' = rev
             /\ pc' = [pc EXCEPT ![o] = "send"] /\ shot' = [shot EXCEPT ![o] = Tail(@)]
    <3>1. shot[o] \in Seq(Revision) /\ shot'[o] = Tail(shot[o])
      BY <1>0, <2>8
    <3>2. Len(shot'[o]) + 1 = Len(shot[o]) /\ Len(shot'[o]) \in Nat
      <4>1. Tail(shot[o]) \in Seq(Revision) /\ Len(Tail(shot[o])) = Len(shot[o]) - 1
        BY <2>8, <3>1, SeqFacts
      <4>2. Len(Tail(shot[o])) \in Nat /\ Len(shot[o]) \in Nat
        BY <3>1, <4>1, SeqFacts
      <4> QED
        BY <3>1, <4>1, <4>2
    <3>3. Shows(shot'[o], rev[o])
      <4>1. Shows(shot[o], rev[o])
        BY <2>2, <2>8 DEF Facing
      <4>2. \A i \in 1..Len(shot'[o]) : i + 1 \in 1..Len(shot[o]) /\ shot'[o][i] = shot[o][i + 1]
        BY <2>8, <3>1, <3>2, SeqFacts
      <4> QED
        BY <4>1, <4>2 DEF Shows
    <3> QED
      BY <2>3, <2>8, <3>2, <3>3 DEF AtWork, Rendering
  <2>9. CASE /\ pc[o] \in {"doc", "send"} /\ shot[o] = <<>> /\ rev' = rev
             /\ pc' = [pc EXCEPT ![o] = "complete"]
    <3>1. Len(shot[o]) = 0
      BY <2>9
    <3> QED
      BY <2>3, <2>9, <3>1 DEF AtWork, Rendering
  <2> QED
    BY <1>21, <2>4, <2>5, <2>6, <2>7, <2>8, <2>9 DEF StepSent, StartRender, SendPage, Send
<1>22. ASSUME NEW o \in Coroutine, FailureSent(o) PROVE View'
  <2>1. /\ Transmit(o) /\ pc[o] \in {"refused", "failing"} /\ Close(Rest, TRUE)
        /\ pc' = Return(pc, o) /\ UNCHANGED <<initialized, rev, shot, lastGood>>
    BY <1>22 DEF FailureSent, revVars
  <2>2. PICK s \in {"idle", "done"} : pc' = [pc EXCEPT ![o] = s]
    BY <2>1 DEF Return
  <2>3. pc'[o] = s /\ \A w \in Coroutine : w # o => pc'[w] = pc[w]
    BY <1>0, <2>2
  <2>4. /\ seen'.begun = seen.begun /\ seen'.commit = seen.commit /\ seen'.doc = seen.doc
        /\ seen'.last # "session-closed" /\ pc[o] \notin {"idle", "done"}
    BY <2>1, <1>20
  <2>5. /\ \A w \in Coroutine : w # o => pc'[w] \notin AtWork
        /\ lastGood = seen.commit /\ seen.doc = 0
    BY <2>1, <2>3, <2>4, <1>r
  <2>6. pc'["init"] = "ready" <=> pc["init"] = "ready"
    BY <1>0, <2>1, <2>3
  <2>7. Facing(o)'
    BY <2>3 DEF Facing, AtWork, Rendering
  <2>8. Sees(o)
    BY <1>c, <1>v, <2>1, <2>3, <2>4, <2>5, <2>6, <2>7 DEF Sees
  <2> QED
    BY <2>5, <2>8, ViewMoved
<1>23. CASE ReapSession \/ ReapDir \/ UNCHANGED vars
  BY <1>23, <1>k, <1>v DEF ReapSession, ReapDir, vars, revVars, closeVars
<1>24. CASE PeerStep
  BY <1>1, <1>2, <1>3, <1>4, <1>5, <1>6, <1>24 DEF PeerStep
<1>25. CASE InitStep \/ NativeReply
  BY <1>7, <1>8, <1>9, <1>10, <1>11, <1>12, <1>13, <1>14, <1>15, <1>25
  DEF InitStep, NativeReply
<1>26. CASE Deliver
  BY <1>6, <1>17, <1>18, <1>19, <1>21, <1>22, <1>26 DEF Deliver
<1> QED
  BY <1>6, <1>16, <1>23, <1>24, <1>25, <1>26 DEF Next, Reap, Terminated

-----------------------------------------------------------------------------
\* The chain and the peer's view, as long as the peer is there.
PeerInv ==
  /\ Rising /\ SeenType
  /\ socket = "open" => Chained /\ View

\* Nothing has been sent at first.
LEMMA InitPeerInv ==
  ASSUME Init
  PROVE  PeerInv
<1>1. Rising
  BY EmptyRises DEF Init, Rising, Coroutine
<1>2. SeenType
  BY LiveAssumption DEF Init, SeenType, Sight
<1>3. Chained
  <2>1. \A o \in Coroutine : pc[o] \notin Sending
    BY DEF Init, Sending
  <2>2. Clear(outbound) /\ seen.last # "page"
    BY DEF Init, Clear
  <2> QED
    BY <2>1, <2>2 DEF Chained, ChainedAs
<1>4. View
  BY DEF Init, View, Facing, AtWork, Rendering, Coroutine
<1> QED
  BY <1>1, <1>2, <1>3, <1>4 DEF PeerInv

\* Every step keeps the chain and the view.
LEMMA PeerInvStep ==
  ASSUME IInv, Announced, PeerInv, [Next]_vars
  PROVE  PeerInv'
<1>1. Rising' /\ SeenType'
  BY RisingStep, SeenStep DEF PeerInv
<1>2. socket' = "open" => socket = "open"
  BY DEF Next, PeerStep, Initialize, Change, QueueFull, RefuseFrame, CloseRequested,
    PeerVanishes, SocketEvent, InitStep, Mkdtemp, Materialize, Started, LateClose, InitFails,
    NativeReply, ApplyOk, ApplyFails, PageOk, PageFails, CountOk, CountFails, NativeExit,
    Deliver, PlainSent, PlainRejected, FatalSent, ClosedSent, StepSent, StepRejected,
    FailureSent, Reap, ReapSession, ReapDir, CloseDone, Terminated, vars
<1>3. socket' = "open" => Chained' /\ View'
  BY <1>2, ChainedStep, ViewStep DEF PeerInv
<1> QED
  BY <1>1, <1>3 DEF PeerInv

\* What the peer receives is, frame by frame, what the protocol promises: a page
\* is announced right before its image, a document is complete before it is
\* committed, a compile error names the committed revision (sendPage,
\* renderRevision, sendCompileError and the outbound chain they share).
THEOREM FramesFollowProtocol == Spec => ImplementsProtocol
<1>1. Init => Peer!Init
  BY DEF Init, Peer!Init
<1>2. IInv /\ Shown /\ PeerInv /\ [Next]_vars =>
        Shown' /\ PeerInv' /\ (Peer!Next \/ UNCHANGED Peer!vars)
  BY ShownStep, PeerInvStep, StepFollows DEF PeerInv
<1>3. Init => Shown /\ PeerInv
  BY InitPeerInv, EmptySeq DEF Init, Shown, Raster
<1> QED
  BY <1>1, <1>2, <1>3, Invariance, PTL DEF Spec, ImplementsProtocol, Peer!Spec
=============================================================================
