-------------------------- MODULE LiveBackendProofs --------------------------
(***************************************************************************)
(* Proofs about LiveBackend, for any clients, pages and bounds.            *)
(*                                                                         *)
(* Of TeXpresso, Fresh rests on what lies between the session and the      *)
(* process: at most one command that changes the document, so that the     *)
(* next flush is that of the change that waits for it, and lines whose     *)
(* documents only grow (Ordered, OneSource, Waiting).                      *)
(***************************************************************************)
EXTENDS LiveBackend, FiniteSetTheorems, TLAPS

-----------------------------------------------------------------------------
(* The inductive invariant of TexpressoSession. *)

Source(r) == r.op \in {"start", "change"}

LineType == [op : {"flush", "count", "render"}, page : Page \cup {0},
             shows : Tex!Edit, good : BOOLEAN]
WaiterType == [client : Client \cup {Nobody}, req : Tex!Request, after : Nat]

TexTyped ==
  /\ child \in {"up", "dead", "gone"}
  /\ compiled \in Tex!Edit /\ edits \in Tex!Edit /\ seen \in Tex!Edit /\ clean \in Tex!Edit
  /\ flushes \in Nat
  /\ cache \in [Page -> Tex!Edit]
  /\ stdin \in Seq(Tex!Request) /\ stdout \in Seq(LineType) /\ waiters \in Seq(WaiterType)
  /\ request \in [Client -> Tex!Request]
  /\ closed \in BOOLEAN /\ exitError \in BOOLEAN /\ told \in BOOLEAN

\* The documents of the lines only grow, up to that of the process.
Ordered ==
  /\ clean <= seen /\ seen <= compiled /\ compiled <= edits
  /\ \A i \in 1..Len(stdout) : seen <= stdout[i].shows /\ stdout[i].shows <= compiled
  /\ \A i, j \in 1..Len(stdout) : i < j => stdout[i].shows <= stdout[j].shows

\* At most one command that changes the document, or the flush that answers it,
\* is under way; while the session is open, a request waits for it.
OneSource ==
  /\ \A i \in 1..Len(stdin) : Source(stdin[i]) => stdin[i].since = edits
  /\ \A i, j \in 1..Len(stdin) : Source(stdin[i]) /\ Source(stdin[j]) => i = j
  /\ \A i, j \in 1..Len(stdout) : stdout[i].op = "flush" /\ stdout[j].op = "flush" => i = j
  /\ \A i \in 1..Len(stdin), j \in 1..Len(stdout) : ~(Source(stdin[i]) /\ stdout[j].op = "flush")
SourceAwaited ==
  \/ closed \/ exitError
  \/ \E c \in Client : Source(request[c])
  \/ /\ \A i \in 1..Len(stdin) : ~Source(stdin[i])
     /\ \A i \in 1..Len(stdout) : stdout[i].op # "flush"

\* A waiter is that of the request its client has under way, or of nobody; no
\* line that may serve it is of a document older than it asks for.
Waiting ==
  /\ \A i \in 1..Len(waiters) :
       /\ waiters[i].req.op # "none"
       /\ waiters[i].client \in Client => request[waiters[i].client] = waiters[i].req
       /\ waiters[i].client = Nobody => ~Source(waiters[i].req)
       /\ Source(waiters[i].req) => waiters[i].req.since <= edits
       /\ ~Source(waiters[i].req) => waiters[i].req.since <= seen
  /\ \A i, j \in 1..Len(waiters) :
       waiters[i].client \in Client /\ waiters[i].client = waiters[j].client => i = j
FlushForAll ==
  \A i \in 1..Len(stdout), j \in 1..Len(waiters) :
    stdout[i].op = "flush" /\ Source(waiters[j].req) => waiters[j].req.since <= stdout[i].shows

\* Nothing else is asked for while the session starts.
StartAlone ==
  \A c \in Client : request[c].op = "start" =>
    /\ \A p \in Page : cache[p] = 0
    /\ \A i \in 1..Len(waiters) : waiters[i].client = c

\* What a process that is gone leaves, unless close() has begun.
Endings ==
  /\ child = "gone" /\ ~closed => exitError /\ told /\ waiters = <<>>
  /\ closing # "no" => closed

TexInv ==
  /\ TexTyped /\ Ordered /\ OneSource /\ SourceAwaited /\ Waiting /\ FlushForAll
  /\ StartAlone /\ Endings
  /\ Tex!Fresh /\ Tex!CacheFresh

-----------------------------------------------------------------------------
(* The inductive invariant of LatexmkSession. *)

\* Where a call is, the sources it is of, and the PDF it may read.
FullAt ==
  /\ pc = "write" => call.op = "change" /\ call.since = buffers
  /\ pc \in {"compile", "log"} =>
       call.op \in {"start", "change"} /\ call.since = buffers /\ disk = buffers
  /\ pc = "log" /\ built => pdf = disk
  /\ pc \in {"mupdf", "pdf"} => call.op \in {"render", "count"} /\ call.since = usable
  /\ pc = "pdf" => result = "success"
  /\ call.op = "start" => result = "none"

\* The PDF is that of the last compilation whenever a page can be asked for.
FullPdf ==
  /\ result = "success"
  /\ reply.call.op = "change" => reply.ok
  /\ pc \in {"none", "write", "mupdf", "pdf"}
  => pdf = usable

FullTyped ==
  /\ buffers \in Nat /\ disk \in Nat /\ pdf \in Nat /\ usable \in Nat
  /\ pages \in [Page -> Nat] /\ built \in BOOLEAN
  /\ pc \in {"none", "write", "compile", "log", "mupdf", "pdf"}
  /\ pc \in {"mupdf", "pdf"} => (reply.call.op = "change" => reply.ok)

FullInv == FullTyped /\ FullAt /\ FullPdf /\ Full!Fresh /\ Full!CacheFresh

IInv == TexInv /\ FullInv

-----------------------------------------------------------------------------
(* The first of the waiters a line serves: a set of numbers has a least one. *)

\* A nonempty set of numbers has a least one.
LEMMA Least ==
  ASSUME NEW T, T \subseteq Nat, T # {}
  PROVE  \E n \in T : \A m \in T : n <= m
  <1> DEFINE less == {p \in Nat \X Nat : p[1] < p[2]}
  <1>1. IsWellFoundedOn(less, Nat)
    BY NatLessThanWellFounded DEF OpToRel
  <1>2. PICK n \in T : \A m \in T : <<m, n>> \notin less
    <2> HIDE DEF less
    <2> QED
      BY <1>1, WFMin, Zenon
  <1>3. \A m \in T : ~(m < n)
    BY <1>2
  <1> QED
    BY <1>3

\* Min(T) is one of T.
LEMMA MinIsIn ==
  ASSUME NEW T, T \subseteq Nat, T # {}
  PROVE  Tex!Min(T) \in T
  BY Least DEF Tex!Min

-----------------------------------------------------------------------------
(* Waiters that are removed: Without(s, k) is s but for its k-th element. *)

\* t has the waiters of s but the k-th.
Thinned(t, s, k) ==
  /\ t \in Seq(WaiterType)
  /\ \A i \in 1..Len(t) : \E m \in 1..Len(s) : m # k /\ t[i] = s[m]
  /\ \A i, j \in 1..Len(t) : i # j =>
       \E m, n \in 1..Len(s) : m # n /\ t[i] = s[m] /\ t[j] = s[n]

\* Without(s, k) is such a sequence.
LEMMA WithoutOne ==
  ASSUME NEW s \in Seq(WaiterType), NEW k \in 1..Len(s)
  PROVE  Thinned(Tex!Without(s, k), s, k)
  <1> DEFINE a == SubSeq(s, 1, k - 1)
             b == SubSeq(s, k + 1, Len(s))
             at(i) == IF i < k THEN i ELSE i + 1
  <1>1. a \in Seq(WaiterType) /\ Len(a) = k - 1 /\ \A i \in 1..(k - 1) : a[i] = s[i]
    OBVIOUS
  <1>2. b \in Seq(WaiterType) /\ Len(b) = Len(s) - k /\ \A i \in 1..(Len(s) - k) : b[i] = s[k + i]
    OBVIOUS
  <1> DEFINE t == Tex!Without(s, k)
  <1>3. t = a \o b
    BY DEF Tex!Without
  <1> HIDE DEF a, b, t
  <1>4. /\ t \in Seq(WaiterType) /\ Len(t) = Len(s) - 1
        /\ \A i \in 1..Len(t) : t[i] = s[at(i)] /\ at(i) \in 1..Len(s) /\ at(i) # k
    <2>1. t \in Seq(WaiterType) /\ Len(t) = Len(s) - 1
      BY <1>1, <1>2, <1>3
    <2>2. \A i \in 1..Len(t) : at(i) \in 1..Len(s) /\ at(i) # k
      BY <2>1
    <2>3. ASSUME NEW i \in 1..Len(t), i < k PROVE t[i] = s[i]
      BY <1>1, <1>2, <1>3, <2>1, <2>3
    <2>4. ASSUME NEW i \in 1..Len(t), ~(i < k) PROVE t[i] = s[i + 1]
      <3>1. i - (k - 1) \in 1..(Len(s) - k) /\ k + (i - (k - 1)) = i + 1
        BY <2>1, <2>4
      <3>2. t[i] = b[i - (k - 1)]
        BY <1>1, <1>2, <1>3, <2>1, <2>4
      <3> QED
        BY <1>2, <3>1, <3>2
    <2> QED
      BY <2>1, <2>2, <2>3, <2>4
  <1>5. \A i, j \in 1..Len(t) : i # j => at(i) # at(j)
    OBVIOUS
  <1> HIDE DEF at
  <1>6. \A i \in 1..Len(t) : \E m \in 1..Len(s) : m # k /\ t[i] = s[m]
    BY <1>4
  <1>7. \A i, j \in 1..Len(t) : i # j =>
          \E m, n \in 1..Len(s) : m # n /\ t[i] = s[m] /\ t[j] = s[n]
    BY <1>4, <1>5
  <1> QED
    BY <1>4, <1>6, <1>7 DEF t, Thinned

-----------------------------------------------------------------------------
(* Steps of TexpressoSession. *)

\* The pages, the requests and the bounds are what the model says of them.
LEMMA TexData ==
  ASSUME TexTyped
  PROVE  /\ Nobody \notin Client /\ 0 \notin Page
         /\ compiled \in Nat /\ edits \in Nat /\ seen \in Nat /\ clean \in Nat
         /\ \A p \in Page : cache[p] \in Nat
         /\ \A c \in Client : request[c] \in Tex!Request
         /\ Len(stdin) \in Nat /\ \A i \in 1..Len(stdin) : stdin[i] \in Tex!Request
         /\ Len(stdout) \in Nat /\ \A i \in 1..Len(stdout) :
              stdout[i] \in LineType /\ stdout[i].shows \in Nat
         /\ Len(waiters) \in Nat /\ \A i \in 1..Len(waiters) :
              /\ waiters[i] \in WaiterType
              /\ waiters[i].req \in Tex!Request /\ waiters[i].req.since \in Nat
              /\ waiters[i].client \in Client \cup {Nobody}
  <1>1. MaxEdit \in Nat /\ Page \subseteq Nat \ {0} /\ Nobody \notin Client
    BY BackendAssumption
  <1>2. \A r \in Tex!Request : r.since \in Nat
    BY <1>1 DEF Tex!Request, Tex!Edit
  <1>3. \A r \in LineType : r.shows \in Nat
    BY <1>1 DEF LineType, Tex!Edit
  <1>4. \A w \in WaiterType : w.req \in Tex!Request /\ w.client \in Client \cup {Nobody}
    BY DEF WaiterType
  <1>5. Tex!Edit \subseteq Nat
    BY <1>1 DEF Tex!Edit
  <1>6. /\ compiled \in Nat /\ edits \in Nat /\ seen \in Nat /\ clean \in Nat
        /\ \A p \in Page : cache[p] \in Nat
        /\ \A c \in Client : request[c] \in Tex!Request
    BY <1>5 DEF TexTyped
  <1>7. Len(stdin) \in Nat /\ \A i \in 1..Len(stdin) : stdin[i] \in Tex!Request
    BY DEF TexTyped
  <1>8. Len(stdout) \in Nat /\ \A i \in 1..Len(stdout) : stdout[i] \in LineType
    BY DEF TexTyped
  <1>9. Len(waiters) \in Nat /\ \A i \in 1..Len(waiters) : waiters[i] \in WaiterType
    BY DEF TexTyped
  <1> QED
    BY <1>1, <1>2, <1>3, <1>4, <1>6, <1>7, <1>8, <1>9

\* Having no request under way changes no document.
LEMMA NoneIsRequest == Tex!None \in Tex!Request /\ ~Source(Tex!None)
  BY BackendAssumption DEF Tex!None, Tex!Req, Tex!Request, Tex!Edit, Source

\* What start() has written before the first event is in order.
LEMMA TexInit == Tex!Init => TexInv
  <1> SUFFICES ASSUME Tex!Init PROVE TexInv
    OBVIOUS
  <1>1. PICK c \in Client :
          /\ request = [d \in Client |-> IF d = c THEN Tex!Req("start", 0, 1) ELSE Tex!None]
          /\ waiters = <<Tex!Waiter(c, Tex!Req("start", 0, 1), 0)>>
    BY DEF Tex!Init
  <1>2. MaxEdit \in Nat \ {0} /\ Nobody \notin Client
    BY BackendAssumption
  <1>3. Tex!Req("start", 0, 1) \in Tex!Request /\ Tex!None \in Tex!Request
    BY <1>2 DEF Tex!Req, Tex!None, Tex!Request, Tex!Edit
  <1>4. Tex!Waiter(c, Tex!Req("start", 0, 1), 0) \in WaiterType
    BY <1>3 DEF Tex!Waiter, WaiterType
  <1>5. /\ child = "up" /\ stdin = <<Tex!Req("start", 0, 1)>> /\ stdout = <<>>
        /\ compiled = 0 /\ edits = 1 /\ flushes = 0 /\ seen = 0 /\ clean = 0
        /\ cache = [p \in Page |-> 0]
        /\ closed = FALSE /\ exitError = FALSE /\ closing = "no" /\ told = FALSE
        /\ answer.ok = FALSE
    BY DEF Tex!Init, Tex!NoAnswer, Tex!Answer
  <1>6. TexTyped
    <2>1. 0 \in Tex!Edit /\ 1 \in Tex!Edit
      BY <1>2 DEF Tex!Edit
    <2>2. stdin \in Seq(Tex!Request) /\ stdout \in Seq(LineType) /\ waiters \in Seq(WaiterType)
      BY <1>1, <1>3, <1>4, <1>5
    <2>3. request \in [Client -> Tex!Request] /\ cache \in [Page -> Tex!Edit]
      BY <1>1, <1>3, <1>5, <2>1
    <2> QED
      BY <1>5, <2>1, <2>2, <2>3 DEF TexTyped
  <1>7. Len(stdin) = 1 /\ stdin[1] = Tex!Req("start", 0, 1) /\ Len(stdout) = 0
    BY <1>5
  <1>8. Len(waiters) = 1 /\ waiters[1] = Tex!Waiter(c, Tex!Req("start", 0, 1), 0)
    BY <1>1
  <1>9. Ordered /\ OneSource
    BY <1>5, <1>7 DEF Ordered, OneSource, Tex!Req
  <1>10. SourceAwaited
    BY <1>1 DEF SourceAwaited, Source, Tex!Req
  <1>11. Waiting /\ FlushForAll
    <2>1. /\ waiters[1].client = c /\ waiters[1].req = request[c]
          /\ waiters[1].req.op = "start" /\ waiters[1].req.since = 1
      BY <1>1, <1>8 DEF Tex!Waiter, Tex!Req
    <2> QED
      BY <1>2, <1>5, <1>7, <1>8, <2>1 DEF Waiting, FlushForAll, Source
  <1>12. StartAlone
    BY <1>1, <1>5, <1>8 DEF StartAlone, Tex!Waiter, Tex!Req, Tex!None
  <1> QED
    BY <1>5, <1>6, <1>9, <1>10, <1>11, <1>12 DEF TexInv, Endings, Tex!Fresh, Tex!CacheFresh

(* Steps that leave the pipe, the output and the cache alone: they end waiters *)
(* and requests, and close the session or notice its end.                      *)
Quiet ==
  /\ UNCHANGED <<stdin, stdout, compiled, edits, flushes, seen, cache, clean>>
  /\ child' \in {"up", "dead", "gone"}
  /\ closed' \in BOOLEAN /\ exitError' \in BOOLEAN /\ told' \in BOOLEAN
  /\ closed => closed'
  /\ exitError => exitError'
  /\ request' \in [Client -> Tex!Request]
  /\ \A c \in Client : \/ request'[c] = request[c]
                       \/ request'[c] = Tex!None /\ (Source(request[c]) => closed' \/ exitError')
  /\ waiters' \in Seq(WaiterType)
  /\ \A i \in 1..Len(waiters') : \E m \in 1..Len(waiters) :
       /\ waiters'[i] = waiters[m]
       /\ waiters[m].client \in Client => request'[waiters[m].client] = request[waiters[m].client]
  /\ \A i, j \in 1..Len(waiters') : i # j =>
       \E m, n \in 1..Len(waiters) : m # n /\ waiters'[i] = waiters[m] /\ waiters'[j] = waiters[n]
  /\ Endings'
  /\ Tex!Fresh'

\* A step that moves no line, edit or waiter keeps the invariant.
LEMMA QuietKeeps ==
  ASSUME TexInv, Quiet
  PROVE  TexInv'
  <1> USE TexData
  <1>0. TexTyped
    BY DEF TexInv
  <1>1. TexTyped'
    BY <1>0 DEF TexTyped, Quiet
  <1>2. Ordered' /\ OneSource' /\ Tex!CacheFresh'
    BY DEF TexInv, Quiet, Ordered, OneSource, Tex!CacheFresh
  <1>3. SourceAwaited'
    <2>1. CASE closed \/ exitError
      BY <2>1 DEF Quiet, SourceAwaited
    <2>2. ASSUME NEW c \in Client, Source(request[c]) PROVE SourceAwaited'
      BY <2>2 DEF Quiet, SourceAwaited
    <2>3. CASE /\ \A i \in 1..Len(stdin) : ~Source(stdin[i])
               /\ \A i \in 1..Len(stdout) : stdout[i].op # "flush"
      BY <2>3 DEF Quiet, SourceAwaited
    <2> QED
      BY <2>1, <2>2, <2>3 DEF TexInv, SourceAwaited
  <1>4. Waiting'
    <2>1. ASSUME NEW i \in 1..Len(waiters')
          PROVE  /\ waiters'[i].req.op # "none"
                 /\ waiters'[i].client \in Client =>
                      request'[waiters'[i].client] = waiters'[i].req
                 /\ waiters'[i].client = Nobody => ~Source(waiters'[i].req)
                 /\ Source(waiters'[i].req) => waiters'[i].req.since <= edits'
                 /\ ~Source(waiters'[i].req) => waiters'[i].req.since <= seen'
      <3>1. PICK m \in 1..Len(waiters) :
              /\ waiters'[i] = waiters[m]
              /\ waiters[m].client \in Client =>
                   request'[waiters[m].client] = request[waiters[m].client]
        BY DEF Quiet
      <3> QED
        BY <3>1 DEF TexInv, Waiting, Quiet
    <2>2. ASSUME NEW i \in 1..Len(waiters'), NEW j \in 1..Len(waiters'), i # j,
                 waiters'[i].client \in Client
          PROVE  waiters'[i].client # waiters'[j].client
      <3>1. PICK m \in 1..Len(waiters), n \in 1..Len(waiters) :
              m # n /\ waiters'[i] = waiters[m] /\ waiters'[j] = waiters[n]
        BY <2>2 DEF Quiet
      <3> QED
        BY <2>2, <3>1 DEF TexInv, Waiting
    <2> QED
      BY <2>1, <2>2 DEF Waiting
  <1>5. FlushForAll'
    <2> SUFFICES ASSUME NEW i \in 1..Len(stdout'), NEW j \in 1..Len(waiters'),
                        stdout'[i].op = "flush", Source(waiters'[j].req)
                 PROVE  waiters'[j].req.since <= stdout'[i].shows
      BY DEF FlushForAll
    <2>1. PICK m \in 1..Len(waiters) : waiters'[j] = waiters[m]
      BY DEF Quiet
    <2> QED
      BY <2>1 DEF TexInv, FlushForAll, Quiet
  <1>6. StartAlone'
    <2> SUFFICES ASSUME NEW c \in Client, request'[c].op = "start"
                 PROVE  /\ \A p \in Page : cache'[p] = 0
                        /\ \A i \in 1..Len(waiters') : waiters'[i].client = c
      BY DEF StartAlone
    <2>1. request[c].op = "start"
      BY DEF Quiet, Tex!None, Tex!Req
    <2>2. \A i \in 1..Len(waiters') : \E m \in 1..Len(waiters) : waiters'[i] = waiters[m]
      BY DEF Quiet
    <2>3. (\A p \in Page : cache[p] = 0) /\ \A m \in 1..Len(waiters) : waiters[m].client = c
      BY <2>1 DEF TexInv, StartAlone
    <2>4. cache' = cache
      BY DEF Quiet
    <2> QED
      BY <2>2, <2>3, <2>4
  <1> QED
    BY <1>1, <1>2, <1>3, <1>4, <1>5, <1>6 DEF TexInv, Quiet

\* The end of the process, timeouts and the stages of close() are such steps.
LEMMA QuietSteps ==
  ASSUME TexInv,
         \/ Tex!NativeDies \/ Tex!CloseSession \/ Tex!GraceOver \/ Tex!ForceOver
         \/ Tex!StartFails \/ Tex!CloseEvent \/ Tex!Over
         \/ \E c \in Client \cup {Nobody} : Tex!Timeout(c)
  PROVE  Quiet
  <1> USE TexData
  <1>0. TexTyped /\ Endings /\ Tex!Fresh
    BY DEF TexInv
  <1>1. ASSUME UNCHANGED <<stdin, stdout, compiled, edits, flushes, seen, cache, clean,
                           waiters, request, answer, told, exitError>>,
               closed => closed', closed' \in BOOLEAN,
               child' \in {child, "dead"}, child = "up" \/ child' = child,
               closing' = closing \/ closed'
        PROVE  Quiet
    <2>1. Endings' /\ Tex!Fresh'
      BY <1>0, <1>1 DEF Endings, Tex!Fresh
    <2>2. waiters \in Seq(WaiterType) /\ request \in [Client -> Tex!Request]
      BY <1>0 DEF TexTyped
    <2>3. child' \in {"up", "dead", "gone"} /\ exitError \in BOOLEAN /\ told \in BOOLEAN
      BY <1>0, <1>1 DEF TexTyped
    <2> QED
      BY <1>1, <2>1, <2>2, <2>3 DEF Quiet
  <1>2. CASE Tex!NativeDies
    BY <1>0, <1>1, <1>2 DEF Tex!NativeDies, Tex!output, Tex!ending, TexTyped
  <1>3. CASE Tex!CloseSession
    BY <1>0, <1>1, <1>3 DEF Tex!CloseSession, Tex!Close, Tex!process, Tex!output, TexTyped
  <1>4. CASE Tex!GraceOver
    BY <1>0, <1>1, <1>4 DEF Tex!GraceOver, Tex!output, TexTyped, Endings
  <1>5. CASE Tex!ForceOver
    BY <1>0, <1>1, <1>5 DEF Tex!ForceOver, Tex!output, TexTyped, Endings
  <1>6. CASE Tex!Over
    BY <1>0, <1>1, <1>6 DEF Tex!Over, Tex!vars, TexTyped
  <1>7. CASE Tex!StartFails
    <2>1. PICK c \in Client : /\ request[c].op = "start"
                              /\ \A i \in 1..Len(waiters) : waiters[i].client # c
                              /\ Tex!Return(c, request[c], FALSE, 0)
      BY <1>7 DEF Tex!StartFails
    <2>2. UNCHANGED <<stdin, stdout, compiled, edits, flushes, seen, cache, clean, child,
                      waiters, closed, exitError, told, closing>>
      BY <1>7 DEF Tex!StartFails, Tex!process, Tex!output, Tex!ending
    <2>3. closed
      BY <1>0, <1>7 DEF Tex!StartFails, Endings
    <2>4. Endings' /\ Tex!Fresh'
      BY <1>0, <2>1, <2>2 DEF Endings, Tex!Fresh, Tex!Return, Tex!Answer
    <2>5. /\ request' \in [Client -> Tex!Request]
          /\ \A d \in Client : request'[d] = request[d] \/ request'[d] = Tex!None
          /\ \A d \in Client : d # c => request'[d] = request[d]
      BY <1>0, <2>1, NoneIsRequest DEF TexTyped, Tex!Return
    <2> QED
      BY <1>0, <2>1, <2>2, <2>3, <2>4, <2>5 DEF Quiet, TexTyped
  <1>8. ASSUME NEW c \in Client \cup {Nobody}, Tex!Timeout(c) PROVE Quiet
    <2>1. PICK i \in 1..Len(waiters) :
            waiters[i].client = c /\ waiters' = Tex!Without(waiters, i) /\ Tex!Rejected({c})
      BY <1>8 DEF Tex!Timeout
    <2>2. UNCHANGED <<stdin, stdout, compiled, edits, flushes, seen, cache, clean, child,
                      exitError, told>> /\ closed'
      BY <1>8 DEF Tex!Timeout, Tex!Close, Tex!process, Tex!output
    <2>3. Endings' /\ Tex!Fresh'
      BY <2>1, <2>2 DEF Endings, Tex!Fresh, Tex!Rejected, Tex!NoAnswer, Tex!Answer
    <2>4. /\ request' \in [Client -> Tex!Request]
          /\ \A d \in Client : request'[d] = request[d] \/ request'[d] = Tex!None
          /\ \A d \in Client : d # c => request'[d] = request[d]
      BY <1>0, <2>1, NoneIsRequest DEF TexTyped, Tex!Rejected
    <2>5. \A m \in 1..Len(waiters) : m # i /\ waiters[m].client \in Client =>
            request'[waiters[m].client] = request[waiters[m].client]
      BY <2>1, <2>4 DEF TexInv, Waiting
    <2>6. waiters \in Seq(WaiterType)
      BY <1>0 DEF TexTyped
    <2>7. Thinned(waiters', waiters, i)
      BY <2>1, <2>6, WithoutOne
    <2>8. \A k \in 1..Len(waiters') : \E m \in 1..Len(waiters) :
            /\ waiters'[k] = waiters[m]
            /\ waiters[m].client \in Client =>
                 request'[waiters[m].client] = request[waiters[m].client]
      BY <2>5, <2>7 DEF Thinned
    <2> QED
      BY <1>0, <1>8, <2>2, <2>3, <2>4, <2>7, <2>8 DEF Quiet, Thinned, TexTyped, Tex!Timeout, Tex!Close
  <1>9. CASE Tex!CloseEvent
    <2>1. CASE closed
      <3>1. /\ UNCHANGED <<waiters, request, answer, closed, exitError, told, stdin, stdout,
                           compiled, edits, flushes, seen, cache, clean>>
            /\ child' = "gone"
        BY <1>9, <2>1 DEF Tex!CloseEvent, Tex!output
      <3> QED
        BY <1>0, <2>1, <3>1 DEF Quiet, TexTyped, Endings, Tex!Fresh
    <2>2. CASE ~closed
      <3>1. /\ UNCHANGED <<stdin, stdout, compiled, edits, flushes, seen, cache, clean>>
            /\ child' = "gone" /\ exitError' = TRUE /\ waiters' = <<>>
            /\ told' \in BOOLEAN /\ closed' \in BOOLEAN
            /\ Tex!Rejected({waiters[i].client : i \in 1..Len(waiters)})
            /\ told' \/ closed'
            /\ closing' # "no" => closed'
        BY <1>0, <1>9, <2>2 DEF Tex!CloseEvent, Tex!Fail, Tex!Close, Tex!output, TexTyped,
          Tex!Started, Endings
      <3>2. Endings' /\ Tex!Fresh'
        BY <3>1 DEF Endings, Tex!Fresh, Tex!Rejected, Tex!NoAnswer, Tex!Answer
      <3>3. /\ request' \in [Client -> Tex!Request]
            /\ \A d \in Client : request'[d] = request[d] \/ request'[d] = Tex!None
        BY <1>0, <3>1, NoneIsRequest DEF TexTyped, Tex!Rejected
      <3>4. waiters' \in Seq(WaiterType) /\ Len(waiters') = 0
        BY <3>1
      <3> QED
        BY <2>2, <3>1, <3>2, <3>3, <3>4 DEF Quiet
    <2> QED
      BY <2>1, <2>2
  <1> QED
    BY <1>2, <1>3, <1>4, <1>5, <1>6, <1>7, <1>8, <1>9

\* A request is registered, with the caller it has, or without.
Registers(w) ==
  /\ w \in WaiterType /\ waiters' = Append(waiters, w)
  /\ \/ w.client = Nobody /\ ~Source(w.req) /\ request' = request
     \/ /\ w.client \in Client /\ request[w.client] = Tex!None
        /\ request' = [request EXCEPT ![w.client] = w.req]
  /\ w.req.op \in {"change", "count", "render"}
  /\ Source(w.req) => w.req.since <= edits'
  /\ ~Source(w.req) => w.req.since <= seen
  /\ \A c \in Client : request[c].op # "start"
  /\ edits <= edits' /\ edits' \in Nat /\ seen' = seen

\* A new waiter asks for no more than the lines that may serve it hold.
LEMMA RegistersKeeps ==
  ASSUME TexInv, NEW w, Registers(w)
  PROVE  /\ waiters' \in Seq(WaiterType) /\ request' \in [Client -> Tex!Request]
         /\ Waiting' /\ StartAlone'
         /\ Len(waiters') = Len(waiters) + 1 /\ waiters'[Len(waiters) + 1] = w
         /\ \A i \in 1..Len(waiters) : waiters'[i] = waiters[i]
  <1> USE TexData
  <1>0. TexTyped /\ w.req \in Tex!Request
    BY DEF TexInv, Registers, WaiterType
  <1>1. /\ waiters' \in Seq(WaiterType)
        /\ Len(waiters') = Len(waiters) + 1 /\ waiters'[Len(waiters) + 1] = w
        /\ \A i \in 1..Len(waiters) : waiters'[i] = waiters[i]
    BY <1>0 DEF Registers, TexTyped
  <1>2. request' \in [Client -> Tex!Request]
    BY <1>0 DEF Registers, TexTyped
  <1>3. \A c \in Client : \/ request'[c] = request[c]
                          \/ c = w.client /\ request[c] = Tex!None /\ request'[c] = w.req
    BY <1>0 DEF Registers, TexTyped
  <1>4. StartAlone'
    BY <1>3 DEF StartAlone, Registers
  <1>5. Tex!None.op = "none"
    BY DEF Tex!None, Tex!Req
  <1>6. \A i \in 1..Len(waiters) : waiters[i].client \in Client =>
          /\ waiters[i].client # w.client
          /\ request'[waiters[i].client] = waiters[i].req
    <2> TAKE i \in 1..Len(waiters)
    <2> HAVE waiters[i].client \in Client
    <2>1. waiters[i].req.op # "none" /\ request[waiters[i].client] = waiters[i].req
      BY DEF TexInv, Waiting
    <2>2. waiters[i].client # w.client
      BY <1>0, <1>5, <2>1 DEF Registers
    <2> QED
      BY <1>3, <2>1, <2>2
  <1>7. ASSUME NEW i \in 1..Len(waiters')
        PROVE  /\ waiters'[i].req.op # "none"
               /\ waiters'[i].client \in Client =>
                    request'[waiters'[i].client] = waiters'[i].req
               /\ waiters'[i].client = Nobody => ~Source(waiters'[i].req)
               /\ Source(waiters'[i].req) => waiters'[i].req.since <= edits'
               /\ ~Source(waiters'[i].req) => waiters'[i].req.since <= seen'
    <2>1. CASE i \in 1..Len(waiters)
      <3>1. waiters'[i] = waiters[i]
        BY <1>1, <2>1
      <3>2. waiters[i].req.since \in Nat /\ edits \in Nat /\ edits' \in Nat /\ edits <= edits'
            /\ seen' = seen
        BY <1>0, <2>1 DEF Registers
      <3> QED
        BY <1>6, <2>1, <3>1, <3>2 DEF TexInv, Waiting
    <2>2. CASE i = Len(waiters) + 1
      <3>1. waiters'[i] = w
        BY <1>1, <2>2
      <3>2. w.client \in Client => request'[w.client] = w.req
        BY <1>0 DEF Registers, TexTyped
      <3> QED
        BY <3>1, <3>2, <1>0 DEF Registers
    <2> QED
      BY <1>0, <1>1, <2>1, <2>2
  <1>8. ASSUME NEW i \in 1..Len(waiters'), NEW j \in 1..Len(waiters'),
               waiters'[i].client \in Client, waiters'[i].client = waiters'[j].client
        PROVE  i = j
    <2>1. CASE i \in 1..Len(waiters) /\ j \in 1..Len(waiters)
      BY <1>1, <1>8, <2>1 DEF TexInv, Waiting
    <2>2. CASE i = Len(waiters) + 1 /\ j \in 1..Len(waiters)
      BY <1>1, <1>6, <1>8, <2>2
    <2>3. CASE j = Len(waiters) + 1 /\ i \in 1..Len(waiters)
      BY <1>1, <1>6, <1>8, <2>3
    <2> QED
      BY <1>0, <1>1, <2>1, <2>2, <2>3
  <1>9. Waiting'
    BY <1>7, <1>8 DEF Waiting
  <1> QED
    BY <1>1, <1>2, <1>4, <1>9

\* applyRangeChange: nothing that changes the document is under way when the
\* command is written.
LEMMA ChangeKeeps ==
  ASSUME TexInv, NEW c \in Client, Tex!Change(c)
  PROVE  TexInv'
  <1> USE TexData
  <1> DEFINE r == Tex!Req("change", 0, edits + 1)
             w == Tex!Waiter(c, r, flushes)
  <1>0. TexTyped /\ Endings /\ Tex!Fresh
    BY DEF TexInv
  <1>1. /\ request[c] = Tex!None /\ edits < MaxEdit
        /\ \A d \in Client : ~Source(request[d])
        /\ UNCHANGED <<child, stdout, compiled, flushes, seen, cache, clean, closed, exitError,
                       closing, told>>
    BY DEF Tex!Change, Tex!Idle, Tex!Started, Tex!output, Tex!ending, Source
  <1>2. CASE Tex!Refused
    <2>1. Tex!Return(c, r, FALSE, 0) /\ UNCHANGED <<stdin, edits, waiters>>
      BY <1>2 DEF Tex!Change
    <2>2. request' = request
      BY <1>0, <1>1, <2>1 DEF Tex!Return, TexTyped
    <2>3. Tex!Fresh' /\ Endings'
      BY <1>0, <1>1, <2>1 DEF Tex!Fresh, Tex!Return, Tex!Answer, Endings
    <2>4. Quiet
      BY <1>0, <1>1, <2>1, <2>2, <2>3 DEF Quiet, TexTyped
    <2> QED
      BY <2>4, QuietKeeps
  <1>3. CASE ~Tex!Refused
    <2>1. /\ stdin' = Append(stdin, r) /\ edits' = edits + 1
          /\ request' = [request EXCEPT ![c] = r] /\ waiters' = Append(waiters, w)
          /\ answer' = answer
      <3>1. ~Tex!Reached(flushes, flushes)
        BY <1>0 DEF Tex!Reached, TexTyped
      <3> QED
        BY <1>3, <3>1 DEF Tex!Change, Tex!Await
    <2>2. r \in Tex!Request /\ r.op = "change" /\ r.since = edits + 1 /\ Source(r)
          /\ edits' \in Tex!Edit /\ edits' \in Nat
      BY <1>0, <1>1, <2>1, BackendAssumption DEF Tex!Request, Tex!Req, Tex!Edit, Source
    <2>3. w \in WaiterType /\ w.client = c /\ w.req = r
      BY <1>0, <2>2 DEF WaiterType, Tex!Waiter, TexTyped
    <2> HIDE DEF r, w
    <2>4. Registers(w)
      BY <1>0, <1>1, <2>1, <2>2, <2>3 DEF Registers, Source
    <2>5. /\ waiters' \in Seq(WaiterType) /\ request' \in [Client -> Tex!Request]
          /\ Waiting' /\ StartAlone'
          /\ Len(waiters') = Len(waiters) + 1 /\ waiters'[Len(waiters) + 1] = w
          /\ \A i \in 1..Len(waiters) : waiters'[i] = waiters[i]
      BY <2>4, RegistersKeeps
    <2>6. /\ stdin' \in Seq(Tex!Request) /\ Len(stdin') = Len(stdin) + 1
          /\ stdin'[Len(stdin) + 1] = r
          /\ \A i \in 1..Len(stdin) : stdin'[i] = stdin[i]
      BY <1>0, <2>1, <2>2 DEF TexTyped
    <2>7. TexTyped'
      BY <1>0, <1>1, <2>2, <2>5, <2>6 DEF TexTyped
    <2>8. ~closed /\ ~exitError
      BY <1>3 DEF Tex!Refused
    <2>9. /\ \A i \in 1..Len(stdin) : ~Source(stdin[i])
          /\ \A i \in 1..Len(stdout) : stdout[i].op # "flush"
      BY <1>1, <2>8 DEF TexInv, SourceAwaited
    <2>10. Ordered'
      BY <1>0, <1>1, <2>1 DEF TexInv, Ordered
    <2>11. \A i \in 1..Len(stdin') : Source(stdin'[i]) => i = Len(stdin) + 1
      BY <1>0, <2>6, <2>9
    <2>12. OneSource'
      BY <1>0, <1>1, <2>1, <2>2, <2>6, <2>9, <2>11 DEF OneSource
    <2>13. SourceAwaited'
      BY <1>0, <2>1, <2>2 DEF SourceAwaited, TexTyped
    <2>14. FlushForAll'
      BY <1>1, <2>9 DEF FlushForAll
    <2>15. Endings' /\ Tex!Fresh' /\ Tex!CacheFresh'
      BY <1>0, <1>1, <2>1, <2>8 DEF Endings, TexInv, Tex!Fresh, Tex!CacheFresh
    <2> QED
      BY <2>5, <2>7, <2>10, <2>12, <2>13, <2>14, <2>15 DEF TexInv
  <1> QED
    BY <1>2, <1>3

\* getPageCount and renderPage: the waiter asks for no more than has been seen.
LEMMA AskKeeps ==
  ASSUME TexInv, NEW c \in Client, NEW r \in Tex!Request, r.op \in {"count", "render"},
         r.since <= seen, Tex!Ask(c, r)
  PROVE  TexInv'
  <1> USE TexData
  <1>0. TexTyped /\ Endings /\ Tex!Fresh
    BY DEF TexInv
  <1>1. /\ request[c] = Tex!None /\ \A d \in Client : request[d].op # "start"
        /\ UNCHANGED <<child, stdout, compiled, edits, flushes, seen, cache, clean, closed,
                       exitError, closing, told>>
    BY DEF Tex!Ask, Tex!Idle, Tex!Started, Tex!output, Tex!ending
  <1>2. ~Source(r)
    BY DEF Source
  <1>3. \A d \in Client \cup {Nobody} :
          /\ Tex!Waiter(d, r, 0) \in WaiterType
          /\ Tex!Waiter(d, r, 0).client = d /\ Tex!Waiter(d, r, 0).req = r
    BY DEF Tex!Waiter, WaiterType
  <1>4. ASSUME NEW w, Registers(w), w.req = r, Tex!Fresh', Endings',
               \/ stdin' = stdin /\ request' = request
               \/ /\ stdin' = Append(stdin, r)
                  /\ request' = [request EXCEPT ![c] = r]
        PROVE  TexInv'
    <2>1. /\ waiters' \in Seq(WaiterType) /\ request' \in [Client -> Tex!Request]
          /\ Waiting' /\ StartAlone'
          /\ Len(waiters') = Len(waiters) + 1 /\ waiters'[Len(waiters) + 1] = w
          /\ \A i \in 1..Len(waiters) : waiters'[i] = waiters[i]
      BY <1>4, RegistersKeeps
    <2>2. /\ stdin' \in Seq(Tex!Request)
          /\ \A i \in 1..Len(stdin') : \/ i \in 1..Len(stdin) /\ stdin'[i] = stdin[i]
                                       \/ ~Source(stdin'[i])
          /\ \A i \in 1..Len(stdin) : i \in 1..Len(stdin') /\ stdin'[i] = stdin[i]
      <3>1. CASE stdin' = stdin
        BY <1>0, <3>1 DEF TexTyped
      <3>2. CASE stdin' = Append(stdin, r)
        <4>1. /\ stdin' \in Seq(Tex!Request) /\ Len(stdin') = Len(stdin) + 1
              /\ stdin'[Len(stdin) + 1] = r
              /\ \A i \in 1..Len(stdin) : stdin'[i] = stdin[i]
          BY <1>0, <3>2 DEF TexTyped
        <4> QED
          BY <1>0, <1>2, <4>1
      <3> QED
        BY <1>4, <3>1, <3>2
    <2>3. TexTyped'
      BY <1>0, <1>1, <2>1, <2>2 DEF TexTyped
    <2>4. Ordered' /\ Tex!CacheFresh'
      BY <1>1 DEF TexInv, Ordered, Tex!CacheFresh
    <2>5. OneSource'
      BY <1>1, <2>2 DEF TexInv, OneSource
    <2>6. SourceAwaited'
      <3>1. \A d \in Client : Source(request[d]) => d # c /\ request'[d] = request[d]
        BY <1>0, <1>1, <1>4, NoneIsRequest DEF TexTyped
      <3> QED
        BY <1>1, <2>2, <3>1 DEF TexInv, SourceAwaited
    <2>7. FlushForAll'
      <3>1. \A j \in 1..Len(waiters') : Source(waiters'[j].req) =>
              j \in 1..Len(waiters) /\ waiters'[j] = waiters[j]
        BY <1>0, <1>2, <1>4, <2>1
      <3> QED
        BY <1>1, <3>1 DEF TexInv, FlushForAll
    <2> QED
      BY <1>4, <2>1, <2>3, <2>4, <2>5, <2>6, <2>7 DEF TexInv
  <1>5. edits' = edits /\ edits \in Nat /\ seen \in Nat
    BY <1>0, <1>1
  <1>6. CASE Tex!Refused
    <2>1. Tex!Return(c, r, FALSE, 0) /\ UNCHANGED stdin
      BY <1>6 DEF Tex!Ask
    <2>2. request' = request
      BY <1>0, <1>1, <2>1 DEF Tex!Return, TexTyped
    <2>3. Tex!Fresh'
      BY <2>1 DEF Tex!Fresh, Tex!Return, Tex!Answer
    <2>4. CASE waiters' = waiters
      <3>1. Quiet
        BY <1>0, <1>1, <2>1, <2>2, <2>3, <2>4 DEF Quiet, TexTyped, Endings
      <3> QED
        BY <3>1, QuietKeeps
    <2>5. CASE ~exitError /\ waiters' = Append(waiters, Tex!Waiter(Nobody, r, 0))
      <3>1. Endings'
        BY <1>0, <1>1, <2>5 DEF Endings
      <3>2. Registers(Tex!Waiter(Nobody, r, 0))
        BY <1>1, <1>2, <1>3, <1>5, <2>2, <2>5 DEF Registers
      <3> QED
        BY <1>3, <1>4, <2>1, <2>2, <2>3, <3>1, <3>2
    <2> QED
      BY <1>6, <2>4, <2>5 DEF Tex!Ask
  <1>7. CASE ~Tex!Refused
    <2>1. /\ stdin' = Append(stdin, r) /\ request' = [request EXCEPT ![c] = r]
          /\ waiters' = Append(waiters, Tex!Waiter(c, r, 0)) /\ answer' = answer
      BY <1>7 DEF Tex!Ask, Tex!Await
    <2>2. Endings' /\ Tex!Fresh'
      BY <1>0, <1>1, <1>7, <2>1 DEF Endings, Tex!Refused, Tex!Fresh
    <2>3. Registers(Tex!Waiter(c, r, 0))
      <3> DEFINE w == Tex!Waiter(c, r, 0)
      <3>1. w \in WaiterType /\ w.client = c /\ w.req = r
        BY <1>3
      <3>2. waiters' = Append(waiters, w) /\ request' = [request EXCEPT ![c] = r]
        BY <2>1
      <3> HIDE DEF w
      <3>3. request' = [request EXCEPT ![w.client] = w.req]
        BY <3>1, <3>2
      <3>4. Registers(w)
        BY <1>1, <1>2, <1>5, <3>1, <3>2, <3>3 DEF Registers
      <3> QED
        BY <3>4 DEF w
    <2> QED
      BY <1>3, <1>4, <2>1, <2>2, <2>3
  <1> QED
    BY <1>6, <1>7

\* getPageCount.
LEMMA CountKeeps ==
  ASSUME TexInv, NEW c \in Client, Tex!Count(c)
  PROVE  TexInv'
  <1>1. TexTyped
    BY DEF TexInv
  <1>2. Tex!Req("count", 0, seen) \in Tex!Request
    BY <1>1 DEF Tex!Req, Tex!Request, TexTyped
  <1> QED
    BY <1>1, <1>2, AskKeeps, TexData DEF Tex!Count, Tex!Req

\* renderPage: a cached page is answered at once, any other is asked for.
LEMMA RenderKeeps ==
  ASSUME TexInv, NEW c \in Client, NEW p \in Page, Tex!RenderPage(c, p)
  PROVE  TexInv'
  <1> DEFINE r == Tex!Req("render", p, clean)
  <1> USE TexData
  <1>1. TexTyped /\ Endings /\ clean <= seen
    BY DEF TexInv, Ordered
  <1>2. r \in Tex!Request /\ r.op = "render" /\ r.since = clean
    BY <1>1 DEF Tex!Req, Tex!Request, TexTyped
  <1>3. CASE Tex!Ask(c, r)
    BY <1>1, <1>2, <1>3, AskKeeps
  <1>4. CASE /\ cache[p] # 0 /\ Tex!Idle(c) /\ Tex!Return(c, r, TRUE, cache[p])
             /\ UNCHANGED <<Tex!process, edits, Tex!output, waiters, Tex!ending>>
    <2>1. request' = request
      BY <1>1, <1>4 DEF Tex!Idle, Tex!Return, TexTyped
    <2>2. cache[p] >= clean
      BY <1>4 DEF TexInv, Tex!CacheFresh
    <2>3. Tex!Fresh'
      BY <1>2, <1>4, <2>2 DEF Tex!Fresh, Tex!Return, Tex!Answer
    <2>4. Quiet
      BY <1>1, <1>4, <2>1, <2>3 DEF Quiet, TexTyped, Endings, Tex!process, Tex!output, Tex!ending
    <2> QED
      BY <2>4, QuietKeeps
  <1> QED
    BY <1>3, <1>4 DEF Tex!RenderPage

\* The process answers a command; if that changes the document, the flush it
\* writes shows every edit made so far.
LEMMA NativeKeeps ==
  ASSUME TexInv, Tex!NativeStep
  PROVE  TexInv'
  <1> USE TexData
  <1> DEFINE r == Head(stdin)
  <1>0. TexTyped /\ Endings /\ Tex!Fresh
    BY DEF TexInv
  <1>1. /\ child = "up" /\ stdin # <<>> /\ stdin' = Tail(stdin)
        /\ UNCHANGED <<child, edits, flushes, seen, cache, clean, waiters, closed, exitError,
                       closing, told, request, answer>>
    BY DEF Tex!NativeStep, Tex!output, Tex!ending
  <1>2. /\ 1 \in 1..Len(stdin) /\ r = stdin[1] /\ r \in Tex!Request
        /\ stdin' \in Seq(Tex!Request) /\ Len(stdin') = Len(stdin) - 1
        /\ \A i \in 1..Len(stdin') : i + 1 \in 1..Len(stdin) /\ stdin'[i] = stdin[i + 1]
    BY <1>0, <1>1 DEF TexTyped
  <1>3. r.since \in Tex!Edit /\ r.page \in Page \cup {0}
    BY <1>2 DEF Tex!Request
  <1> HIDE DEF r
  <1>4. PICK l \in LineType :
          /\ stdout' = Append(stdout, l)
          /\ compiled' \in Tex!Edit /\ l.shows = compiled'
          /\ \/ Source(r) /\ l.op = "flush" /\ compiled' = r.since
             \/ ~Source(r) /\ l.op # "flush" /\ compiled' = compiled
    <2>1. \A p \in Page \cup {0}, good \in BOOLEAN, o \in {"flush", "count", "render"} :
            compiled' \in Tex!Edit =>
              /\ Tex!Line(o, p, good) \in LineType
              /\ Tex!Line(o, p, good).shows = compiled' /\ Tex!Line(o, p, good).op = o
      BY DEF Tex!Line, LineType
    <2>2. CASE /\ r.op \in {"start", "change"} /\ compiled' = r.since
               /\ \E good \in BOOLEAN : stdout' = Append(stdout, Tex!Line("flush", 0, good))
      BY <1>3, <2>1, <2>2 DEF Source
    <2>3. CASE /\ r.op = "count" /\ UNCHANGED compiled
               /\ stdout' = Append(stdout, Tex!Line("count", 0, TRUE))
      BY <1>0, <2>1, <2>3 DEF Source, TexTyped
    <2>4. CASE /\ r.op = "render" /\ UNCHANGED compiled
               /\ \E good \in BOOLEAN : stdout' = Append(stdout, Tex!Line("render", r.page, good))
      BY <1>0, <1>3, <2>1, <2>4 DEF Source, TexTyped
    <2> QED
      BY <2>2, <2>3, <2>4 DEF Tex!NativeStep, r
  <1>5. /\ stdout' \in Seq(LineType) /\ Len(stdout') = Len(stdout) + 1
        /\ stdout'[Len(stdout) + 1] = l
        /\ \A i \in 1..Len(stdout) : stdout'[i] = stdout[i]
    BY <1>0, <1>4 DEF TexTyped
  <1>6. TexTyped'
    BY <1>0, <1>1, <1>2, <1>4, <1>5 DEF TexTyped
  <1>7. compiled <= compiled' /\ compiled' <= edits /\ compiled \in Nat /\ compiled' \in Nat
        /\ (Source(r) => compiled' = edits)
    <2>1. compiled' \in Nat
      BY <1>4, BackendAssumption DEF Tex!Edit
    <2> QED
      BY <1>0, <1>2, <1>4, <2>1 DEF TexInv, Ordered, OneSource
  <1>8. Ordered'
    <2>1. ASSUME NEW i \in 1..Len(stdout')
          PROVE  seen <= stdout'[i].shows /\ stdout'[i].shows <= compiled'
      <3>1. CASE i \in 1..Len(stdout)
        <4>1. stdout'[i] = stdout[i] /\ stdout[i].shows \in Nat /\ seen \in Nat
          BY <1>0, <1>5, <3>1
        <4> QED
          BY <1>7, <3>1, <4>1 DEF TexInv, Ordered
      <3>2. CASE i = Len(stdout) + 1
        BY <1>0, <1>4, <1>5, <1>7, <3>2 DEF TexInv, Ordered
      <3> QED
        BY <1>0, <1>5, <3>1, <3>2
    <2>2. ASSUME NEW i \in 1..Len(stdout'), NEW j \in 1..Len(stdout'), i < j
          PROVE  stdout'[i].shows <= stdout'[j].shows
      <3>1. i \in 1..Len(stdout) /\ stdout'[i] = stdout[i]
        BY <1>0, <1>5, <2>2
      <3>2. CASE j \in 1..Len(stdout)
        BY <1>5, <2>2, <3>1, <3>2 DEF TexInv, Ordered
      <3>3. CASE j = Len(stdout) + 1
        <4>1. stdout[i].shows \in Nat /\ stdout[i].shows <= compiled
          BY <1>0, <3>1 DEF TexInv, Ordered
        <4> QED
          BY <1>4, <1>5, <1>7, <3>1, <3>3, <4>1
      <3> QED
        BY <1>0, <1>5, <3>2, <3>3
    <2>3. clean <= seen /\ seen <= compiled' /\ compiled' <= edits
      BY <1>0, <1>7 DEF TexInv, Ordered
    <2> QED
      BY <1>1, <2>1, <2>2, <2>3 DEF Ordered
  <1>9. \A i \in 1..Len(stdout') : stdout'[i].op = "flush" =>
          \/ i \in 1..Len(stdout) /\ stdout[i].op = "flush" /\ stdout'[i] = stdout[i]
          \/ i = Len(stdout) + 1 /\ Source(stdin[1]) /\ stdout'[i] = l
    BY <1>0, <1>2, <1>4, <1>5
  <1>10. OneSource'
    <2>1. OneSource
      BY DEF TexInv
    <2>2. \A i \in 1..Len(stdin') : Source(stdin'[i]) => stdin'[i].since = edits
      BY <1>2, <2>1 DEF OneSource
    <2>3. ASSUME NEW i \in 1..Len(stdin'), NEW j \in 1..Len(stdin'),
                 Source(stdin'[i]), Source(stdin'[j])
          PROVE  i = j
      <3>1. i + 1 = j + 1
        BY <1>2, <2>1, <2>3 DEF OneSource
      <3> QED
        BY <3>1
    <2>4. \A i, j \in 1..Len(stdout') :
            stdout'[i].op = "flush" /\ stdout'[j].op = "flush" => i = j
      BY <1>2, <1>9, <2>1 DEF OneSource
    <2>5. ASSUME NEW i \in 1..Len(stdin'), NEW j \in 1..Len(stdout'),
                 Source(stdin'[i]), stdout'[j].op = "flush"
          PROVE  FALSE
      <3>1. i + 1 \in 1..Len(stdin) /\ Source(stdin[i + 1]) /\ i + 1 # 1
        BY <1>2, <2>5
      <3> QED
        BY <1>2, <1>9, <2>1, <2>5, <3>1 DEF OneSource
    <2> QED
      BY <1>1, <2>2, <2>3, <2>4, <2>5 DEF OneSource
  <1>11. SourceAwaited'
    BY <1>1, <1>2, <1>9 DEF TexInv, SourceAwaited
  <1>12. FlushForAll'
    <2> SUFFICES ASSUME NEW i \in 1..Len(stdout'), NEW j \in 1..Len(waiters),
                        stdout'[i].op = "flush", Source(waiters[j].req)
                 PROVE  waiters[j].req.since <= stdout'[i].shows
      BY <1>1 DEF FlushForAll
    <2>1. CASE i \in 1..Len(stdout) /\ stdout[i].op = "flush" /\ stdout'[i] = stdout[i]
      BY <2>1 DEF TexInv, FlushForAll
    <2>2. CASE Source(stdin[1]) /\ stdout'[i] = l
      BY <1>2, <1>4, <1>7, <2>2 DEF TexInv, Waiting
    <2> QED
      BY <1>9, <2>1, <2>2
  <1>13. Waiting' /\ StartAlone' /\ Endings' /\ Tex!Fresh' /\ Tex!CacheFresh'
    BY <1>0, <1>1 DEF TexInv, Waiting, StartAlone, Endings, Tex!Fresh, Tex!CacheFresh
  <1> QED
    BY <1>6, <1>8, <1>10, <1>11, <1>12, <1>13 DEF TexInv

\* The first line is taken, and counted if it is a flush.
TakesLine ==
  /\ 1 \in 1..Len(stdout) /\ stdout' = Tail(stdout) /\ flushes' \in Nat
  /\ \/ stdout[1].op = "flush" /\ seen' = stdout[1].shows
     \/ stdout[1].op # "flush" /\ seen' = seen
  /\ UNCHANGED <<child, stdin, compiled, edits, closed, exitError, closing, told>>

\* It serves the waiter w.
Serving(w) == (Source(w.req) => stdout[1].op = "flush") /\ Tex!Resumed(w, stdout[1])

\* handleProtocolLine takes the first line and serves at most one waiter.
LEMMA LineIsTaken ==
  ASSUME TexInv, Tex!HandleLine
  PROVE  /\ TakesLine
         /\ \/ UNCHANGED <<waiters, cache, clean, request, answer>>
            \/ \E k \in 1..Len(waiters) : Serving(waiters[k]) /\ Thinned(waiters', waiters, k)
  <1> USE TexData
  <1> DEFINE line == Head(stdout)
             served == {i \in 1..Len(waiters) : Tex!Serves(line, waiters[i])}
  <1>0. TexTyped
    BY DEF TexInv
  <1>1. line = stdout[1] /\ 1 \in 1..Len(stdout)
    BY <1>0 DEF Tex!HandleLine, TexTyped
  <1>2. /\ stdout' = Tail(stdout)
        /\ flushes' = IF line.op = "flush" THEN flushes + 1 ELSE flushes
        /\ seen' = IF line.op = "flush" THEN line.shows ELSE seen
        /\ UNCHANGED <<child, stdin, compiled, edits, closed, exitError, closing, told>>
    BY DEF Tex!HandleLine, Tex!ending
  <1>3. TakesLine
    BY <1>0, <1>1, <1>2 DEF TakesLine, TexTyped
  <1>4. CASE served = {}
    BY <1>3, <1>4 DEF Tex!HandleLine
  <1>5. CASE served # {}
    <2> DEFINE k == Tex!Min(served)
    <2>1. k \in served
      <3> HIDE DEF line
      <3>1. served \subseteq Nat
        OBVIOUS
      <3> HIDE DEF served
      <3> QED
        BY <1>5, <3>1, MinIsIn
    <2>2. k \in 1..Len(waiters) /\ Tex!Serves(line, waiters[k])
      BY <2>1
    <2>3. waiters' = Tex!Without(waiters, k) /\ Tex!Resumed(waiters[k], line)
      BY <1>5 DEF Tex!HandleLine
    <2> HIDE DEF k, line, served
    <2>4. Source(waiters[k].req) => line.op = "flush"
      BY <2>2 DEF Tex!Serves, Source
    <2>5. Thinned(waiters', waiters, k)
      BY <1>0, <2>2, <2>3, WithoutOne DEF TexTyped
    <2>6. Serving(waiters[k])
      BY <1>1, <2>3, <2>4 DEF Serving
    <2> QED
      BY <1>3, <2>2, <2>5, <2>6
  <1> QED
    BY <1>4, <1>5

\* What taking a line leaves true, whoever it serves.
LEMMA TakesKeeps ==
  ASSUME TexInv, TakesLine
  PROVE  /\ stdout' \in Seq(LineType) /\ Len(stdout') = Len(stdout) - 1
         /\ \A i \in 1..Len(stdout') : i + 1 \in 1..Len(stdout) /\ stdout'[i] = stdout[i + 1]
         /\ seen' \in Tex!Edit /\ seen' \in Nat /\ stdout[1].shows \in Tex!Edit
         /\ seen <= seen' /\ seen' <= stdout[1].shows /\ seen' <= compiled
         /\ \A i \in 1..Len(stdout') : seen' <= stdout'[i].shows /\ stdout'[i].shows <= compiled
         /\ \A i, j \in 1..Len(stdout') : i < j => stdout'[i].shows <= stdout'[j].shows
         /\ OneSource'
         /\ stdout[1].op = "flush" => /\ \A i \in 1..Len(stdin') : ~Source(stdin'[i])
                                      /\ \A i \in 1..Len(stdout') : stdout'[i].op # "flush"
  <1> USE TexData
  <1>0. TexTyped /\ Ordered /\ OneSource
    BY DEF TexInv
  <1>1. /\ stdout' \in Seq(LineType) /\ Len(stdout') = Len(stdout) - 1
        /\ \A i \in 1..Len(stdout') : i + 1 \in 1..Len(stdout) /\ stdout'[i] = stdout[i + 1]
    BY <1>0 DEF TakesLine, TexTyped
  <1>2. stdout[1].shows \in Tex!Edit /\ stdout[1].shows \in Nat /\ 1 \in 1..Len(stdout)
    BY <1>0 DEF TakesLine, LineType
  <1>3. /\ seen' \in Tex!Edit /\ seen' \in Nat
        /\ seen <= seen' /\ seen' <= stdout[1].shows /\ seen' <= compiled
    BY <1>0, <1>2 DEF TakesLine, Ordered, TexTyped
  <1>4. \A i \in 1..Len(stdout') : stdout[1].shows <= stdout'[i].shows
                                   /\ stdout'[i].shows <= compiled /\ stdout'[i].shows \in Nat
    BY <1>0, <1>1, <1>2 DEF Ordered
  <1>5. \A i, j \in 1..Len(stdout') : i < j => stdout'[i].shows <= stdout'[j].shows
    <2> SUFFICES ASSUME NEW i \in 1..Len(stdout'), NEW j \in 1..Len(stdout'), i < j
                 PROVE  stdout'[i].shows <= stdout'[j].shows
      OBVIOUS
    <2>1. i + 1 \in 1..Len(stdout) /\ j + 1 \in 1..Len(stdout) /\ i + 1 < j + 1
      BY <1>1
    <2> QED
      BY <1>0, <1>1, <2>1 DEF Ordered
  <1>6. UNCHANGED <<stdin, edits>>
    BY DEF TakesLine
  <1>7. \A i, j \in 1..Len(stdout') : stdout'[i].op = "flush" /\ stdout'[j].op = "flush" => i = j
    <2> SUFFICES ASSUME NEW i \in 1..Len(stdout'), NEW j \in 1..Len(stdout'),
                        stdout'[i].op = "flush", stdout'[j].op = "flush"
                 PROVE  i = j
      OBVIOUS
    <2>1. i + 1 = j + 1
      BY <1>0, <1>1 DEF OneSource
    <2> QED
      BY <2>1
  <1>8. OneSource'
    BY <1>0, <1>1, <1>6, <1>7 DEF OneSource
  <1>9. ASSUME stdout[1].op = "flush"
        PROVE  /\ \A i \in 1..Len(stdin') : ~Source(stdin'[i])
               /\ \A i \in 1..Len(stdout') : stdout'[i].op # "flush"
    <2>1. \A i \in 1..Len(stdin') : ~Source(stdin'[i])
      BY <1>0, <1>2, <1>6, <1>9 DEF OneSource
    <2>2. \A i \in 1..Len(stdout') : stdout'[i].op # "flush"
      <3> SUFFICES ASSUME NEW i \in 1..Len(stdout'), stdout'[i].op = "flush" PROVE FALSE
        OBVIOUS
      <3>1. i + 1 = 1
        BY <1>0, <1>1, <1>2, <1>9 DEF OneSource
      <3> QED
        BY <3>1
    <2> QED
      BY <2>1, <2>2
  <1>10. \A i \in 1..Len(stdout') : seen' <= stdout'[i].shows
    BY <1>2, <1>3, <1>4
  <1> QED
    BY <1>1, <1>2, <1>3, <1>4, <1>5, <1>8, <1>9, <1>10

\* handleProtocolLine, and what the waiter it serves does next.
LEMMA HandleKeeps ==
  ASSUME TexInv, Tex!HandleLine
  PROVE  TexInv'
  <1> USE TexData
  <1> DEFINE line == stdout[1]
  <1>0. TexTyped /\ Ordered /\ Endings /\ Tex!Fresh /\ Tex!CacheFresh
    BY DEF TexInv
  <1>1. TakesLine
    BY LineIsTaken
  <1>2. /\ stdout' \in Seq(LineType) /\ Len(stdout') = Len(stdout) - 1
        /\ \A i \in 1..Len(stdout') : i + 1 \in 1..Len(stdout) /\ stdout'[i] = stdout[i + 1]
        /\ seen' \in Tex!Edit /\ seen' \in Nat /\ line.shows \in Tex!Edit
        /\ seen <= seen' /\ seen' <= line.shows /\ seen' <= compiled
        /\ \A i \in 1..Len(stdout') : seen' <= stdout'[i].shows /\ stdout'[i].shows <= compiled
        /\ \A i, j \in 1..Len(stdout') : i < j => stdout'[i].shows <= stdout'[j].shows
        /\ OneSource'
    BY <1>1, TakesKeeps
  <1>3. line.op = "flush" => /\ \A i \in 1..Len(stdin') : ~Source(stdin'[i])
                             /\ \A i \in 1..Len(stdout') : stdout'[i].op # "flush"
    BY <1>1, TakesKeeps
  <1>4. /\ UNCHANGED <<child, stdin, compiled, edits, closed, exitError, closing, told>>
        /\ flushes' \in Nat /\ 1 \in 1..Len(stdout)
        /\ \/ line.op = "flush" /\ seen' = line.shows
           \/ line.op # "flush" /\ seen' = seen
    BY <1>1 DEF TakesLine
  <1>5. line.shows \in Nat /\ line.good \in BOOLEAN /\ seen <= line.shows
    BY <1>0, <1>2, <1>4 DEF LineType
  <1> HIDE DEF line
  <1>6. CASE UNCHANGED <<waiters, cache, clean, request, answer>>
    <2>1. TexTyped'
      BY <1>0, <1>2, <1>4, <1>6 DEF TexTyped
    <2>2. Ordered'
      BY <1>0, <1>2, <1>4, <1>6 DEF Ordered
    <2>3. SourceAwaited'
      BY <1>2, <1>3, <1>4, <1>6 DEF TexInv, SourceAwaited
    <2>4. Waiting'
      BY <1>0, <1>2, <1>4, <1>6 DEF TexInv, Waiting
    <2>5. FlushForAll'
      BY <1>2, <1>6 DEF TexInv, FlushForAll
    <2>6. StartAlone'
      BY <1>6 DEF TexInv, StartAlone
    <2>7. Endings' /\ Tex!Fresh' /\ Tex!CacheFresh'
      BY <1>0, <1>4, <1>6 DEF Endings, Tex!Fresh, Tex!CacheFresh
    <2> QED
      BY <1>2, <2>1, <2>2, <2>3, <2>4, <2>5, <2>6, <2>7 DEF TexInv
  <1>7. ASSUME NEW k \in 1..Len(waiters), Serving(waiters[k]), Thinned(waiters', waiters, k)
        PROVE  TexInv'
    <2> DEFINE w == waiters[k]
    <2>0. /\ w \in WaiterType /\ w.req \in Tex!Request /\ w.req.since \in Nat
          /\ w.client \in Client \cup {Nobody} /\ w.req.op # "none"
          /\ w.client \in Client => request[w.client] = w.req
          /\ w.client = Nobody => ~Source(w.req)
          /\ ~Source(w.req) => w.req.since <= seen
          /\ Source(w.req) => line.op = "flush" /\ w.req.since <= line.shows
      <3>1. Source(w.req) => line.op = "flush"
        BY <1>7 DEF Serving, line
      <3>2. Source(w.req) => w.req.since <= line.shows
        BY <1>4, <3>1 DEF TexInv, FlushForAll, line
      <3> QED
        BY <1>0, <3>1, <3>2 DEF TexInv, Waiting
    <2>1. Tex!Resumed(w, line)
      BY <1>7 DEF Serving, line
    <2>2. \/ w.client = Nobody /\ UNCHANGED <<request, answer>>
          \/ /\ w.client \in Client
             /\ request' = [request EXCEPT ![w.client] = Tex!None]
             /\ \E ok : answer' = Tex!Answer(ok, w.req, line.shows)
      BY <2>0, <2>1 DEF Tex!Resumed, Tex!Return
    <2>3. /\ clean' = IF Source(w.req) /\ line.good THEN line.shows ELSE clean
          /\ \/ ~Source(w.req) /\ cache' = cache
             \/ /\ w.req.op = "render" /\ w.client \in Client
                /\ cache' = [cache EXCEPT ![w.req.page] = line.shows]
             \/ w.req.op = "change" /\ line.good /\ cache' = [p \in Page |-> 0]
             \/ w.req.op = "change" /\ ~line.good /\ cache' = cache
             \/ w.req.op = "start" /\ cache' = cache
      BY <2>0, <2>1 DEF Tex!Resumed, Tex!Invalidated, Source
    <2>4. waiters' \in Seq(WaiterType)
          /\ \A i \in 1..Len(waiters') : \E m \in 1..Len(waiters) : m # k /\ waiters'[i] = waiters[m]
      BY <1>7 DEF Thinned
    <2>5. /\ request' \in [Client -> Tex!Request]
          /\ \A c \in Client : c # w.client => request'[c] = request[c]
          /\ w.client \in Client => request'[w.client] = Tex!None
      BY <1>0, <2>2, NoneIsRequest DEF TexTyped
    <2>6. clean' \in Tex!Edit /\ cache' \in [Page -> Tex!Edit]
      <3>1. 0 \in Tex!Edit
        BY BackendAssumption DEF Tex!Edit
      <3> QED
        BY <1>0, <1>2, <2>3, <3>1 DEF TexTyped
    <2>7. TexTyped'
      BY <1>0, <1>2, <1>4, <2>4, <2>5, <2>6 DEF TexTyped
    <2>8. clean' <= seen'
      BY <1>0, <1>2, <1>4, <2>0, <2>3 DEF Ordered
    <2>9. Ordered'
      BY <1>0, <1>2, <1>4, <2>8 DEF Ordered
    <2>10. SourceAwaited'
      <3>1. CASE line.op = "flush"
        BY <1>3, <3>1 DEF SourceAwaited
      <3>2. CASE line.op # "flush"
        <4>1. \A c \in Client : Source(request[c]) => request'[c] = request[c]
          BY <2>0, <2>5, <3>2
        <4> QED
          BY <1>2, <1>4, <4>1 DEF TexInv, SourceAwaited
      <3> QED
        BY <3>1, <3>2
    <2>11. Waiting'
      <3>1. ASSUME NEW i \in 1..Len(waiters')
            PROVE  /\ waiters'[i].req.op # "none"
                   /\ waiters'[i].client \in Client =>
                        request'[waiters'[i].client] = waiters'[i].req
                   /\ waiters'[i].client = Nobody => ~Source(waiters'[i].req)
                   /\ Source(waiters'[i].req) => waiters'[i].req.since <= edits'
                   /\ ~Source(waiters'[i].req) => waiters'[i].req.since <= seen'
        <4>1. PICK m \in 1..Len(waiters) : m # k /\ waiters'[i] = waiters[m]
          BY <2>4
        <4>2. waiters[m].client \in Client => waiters[m].client # w.client
          BY <4>1 DEF TexInv, Waiting
        <4>3. waiters[m].req.since \in Nat /\ seen \in Nat
          BY <1>0
        <4>4. /\ waiters[m].req.op # "none"
              /\ waiters[m].client \in Client => request[waiters[m].client] = waiters[m].req
              /\ waiters[m].client = Nobody => ~Source(waiters[m].req)
              /\ Source(waiters[m].req) => waiters[m].req.since <= edits
              /\ ~Source(waiters[m].req) => waiters[m].req.since <= seen
          BY DEF TexInv, Waiting
        <4>5. waiters[m].client \in Client => request'[waiters[m].client] = waiters[m].req
          BY <2>5, <4>2, <4>4
        <4>6. ~Source(waiters[m].req) => waiters[m].req.since <= seen'
          BY <1>2, <4>3, <4>4
        <4> QED
          BY <1>4, <4>1, <4>4, <4>5, <4>6
      <3>2. ASSUME NEW i \in 1..Len(waiters'), NEW j \in 1..Len(waiters'), i # j,
                   waiters'[i].client \in Client
            PROVE  waiters'[i].client # waiters'[j].client
        <4>1. PICK m \in 1..Len(waiters), n \in 1..Len(waiters) :
                m # n /\ waiters'[i] = waiters[m] /\ waiters'[j] = waiters[n]
          BY <1>7, <3>2 DEF Thinned
        <4> QED
          BY <3>2, <4>1 DEF TexInv, Waiting
      <3> QED
        BY <3>1, <3>2 DEF Waiting
    <2>12. FlushForAll'
      <3> SUFFICES ASSUME NEW i \in 1..Len(stdout'), NEW j \in 1..Len(waiters'),
                          stdout'[i].op = "flush", Source(waiters'[j].req)
                   PROVE  waiters'[j].req.since <= stdout'[i].shows
        BY DEF FlushForAll
      <3>1. PICK m \in 1..Len(waiters) : waiters'[j] = waiters[m]
        BY <2>4
      <3> QED
        BY <1>2, <3>1 DEF TexInv, FlushForAll
    <2>13. StartAlone'
      <3> SUFFICES ASSUME NEW c \in Client, request'[c].op = "start" PROVE FALSE
        BY DEF StartAlone
      <3>1. c # w.client
        BY <2>5 DEF Tex!None, Tex!Req
      <3> QED
        BY <2>5, <3>1 DEF TexInv, StartAlone
    <2>14. Endings'
      BY <1>0, <1>4 DEF Endings
    <2>15. Tex!Fresh'
      <3>1. w.req.since <= line.shows
        BY <1>0, <1>5, <2>0
      <3> QED
        BY <1>0, <1>5, <2>0, <2>2, <3>1 DEF Tex!Fresh, Tex!Answer
    <2>16. Tex!CacheFresh'
      <3>1. /\ clean \in Nat /\ \A p \in Page : cache[p] \in Nat
            /\ \A p \in Page : cache[p] = 0 \/ cache[p] >= clean
        BY <1>0 DEF Tex!CacheFresh
      <3>2. CASE ~Source(w.req) /\ cache' = cache
        BY <2>3, <3>1, <3>2 DEF Tex!CacheFresh
      <3>3. CASE w.req.op = "render" /\ cache' = [cache EXCEPT ![w.req.page] = line.shows]
        <4>1. clean' = clean /\ line.shows >= clean
          BY <1>0, <1>5, <2>3, <3>1, <3>3 DEF Source, Ordered
        <4>2. \A p \in Page : cache'[p] = cache[p] \/ cache'[p] = line.shows
          BY <1>0, <3>3 DEF TexTyped
        <4> QED
          BY <3>1, <4>1, <4>2 DEF Tex!CacheFresh
      <3>4. CASE cache' = [p \in Page |-> 0]
        BY <3>4 DEF Tex!CacheFresh
      <3>5. CASE w.req.op = "change" /\ ~line.good /\ cache' = cache
        BY <2>3, <3>1, <3>5 DEF Tex!CacheFresh
      <3>6. CASE w.req.op = "start" /\ cache' = cache
        <4>1. w.client \in Client /\ request[w.client].op = "start"
          BY <2>0, <3>6 DEF Source
        <4> QED
          BY <3>6, <4>1 DEF TexInv, StartAlone, Tex!CacheFresh
      <3> QED
        BY <2>3, <3>2, <3>3, <3>4, <3>5, <3>6
    <2> QED
      BY <1>2, <2>7, <2>9, <2>10, <2>11, <2>12, <2>13, <2>14, <2>15, <2>16 DEF TexInv
  <1> QED
    BY <1>6, <1>7, LineIsTaken

\* Every step of the TeXpresso session keeps its invariant.
LEMMA TexNext ==
  ASSUME TexInv, Tex!Next
  PROVE  TexInv'
  <1>1. ASSUME NEW c \in Client, Tex!Change(c) PROVE TexInv'
    BY <1>1, ChangeKeeps
  <1>2. ASSUME NEW c \in Client, Tex!Count(c) PROVE TexInv'
    BY <1>2, CountKeeps
  <1>3. ASSUME NEW c \in Client, NEW p \in Page, Tex!RenderPage(c, p) PROVE TexInv'
    BY <1>3, RenderKeeps
  <1>4. CASE Tex!NativeStep
    BY <1>4, NativeKeeps
  <1>5. CASE Tex!HandleLine
    BY <1>5, HandleKeeps
  <1>6. CASE \/ Tex!NativeDies \/ Tex!CloseSession \/ Tex!GraceOver \/ Tex!ForceOver
             \/ Tex!StartFails \/ Tex!CloseEvent \/ Tex!Over
             \/ \E c \in Client \cup {Nobody} : Tex!Timeout(c)
    BY <1>6, QuietSteps, QuietKeeps
  <1> QED
    BY <1>1, <1>2, <1>3, <1>4, <1>5, <1>6 DEF Tex!Next

\* So does leaving its variables alone.
LEMMA TexStutters ==
  ASSUME TexInv, UNCHANGED ofTex
  PROVE  TexInv'
  BY DEF ofTex, TexInv, TexTyped, Ordered, OneSource, SourceAwaited, Waiting, FlushForAll,
    StartAlone, Endings, Tex!Fresh, Tex!CacheFresh

-----------------------------------------------------------------------------
(* Steps of LatexmkSession. *)

\* A latexmk session begins with its first compilation.
LEMMA FullInit == Full!Init => FullInv
  <1> SUFFICES ASSUME Full!Init PROVE FullInv
    OBVIOUS
  <1>1. /\ buffers = 1 /\ disk = 1 /\ pdf = 0 /\ result = "none" /\ usable = 0
        /\ pages = [p \in Page |-> 0] /\ pc = "compile" /\ built = FALSE
        /\ call.op = "start" /\ call.since = 1 /\ reply.ok = FALSE
    BY DEF Full!Init, Full!Call
  <1>2. FullTyped
    BY <1>1 DEF FullTyped
  <1> QED
    BY <1>1, <1>2 DEF FullInv, FullAt, FullPdf, Full!Fresh, Full!CacheFresh

\* Leaving its variables alone keeps its invariant.
LEMMA FullStutters ==
  ASSUME FullInv, UNCHANGED ofFull
  PROVE  FullInv'
  BY DEF ofFull, FullInv, FullTyped, FullAt, FullPdf, Full!Fresh, Full!CacheFresh

\* Every step of the latexmk session keeps its invariant.
LEMMA FullNext ==
  ASSUME FullInv, Full!Next
  PROVE  FullInv'
  <1> USE DEF FullInv, FullTyped, FullAt, FullPdf, Full!Fresh, Full!CacheFresh
  <1>1. CASE Full!Change
    BY <1>1 DEF Full!Change, Full!Idle, Full!Reply, Full!Waits, Full!Call, Full!NoCall, Full!view
  <1>2. CASE Full!Written
    BY <1>2 DEF Full!Written, Full!Reply, Full!Call, Full!NoCall, Full!view
  <1>3. CASE Full!Compiled
    <2>1. /\ pc = "compile" /\ pc' = "log" /\ pdf' \in {0, pdf, disk}
          /\ (built' = TRUE /\ pdf' = disk) \/ built' = FALSE
          /\ UNCHANGED <<buffers, disk, result, usable, pages, call, reply>>
      BY <1>3 DEF Full!Compiled, Full!Leftover, Full!view
    <2>2. built' \in BOOLEAN /\ (built' => pdf' = disk)
      BY <2>1
    <2> QED
      BY <2>1, <2>2
  <1>4. CASE Full!CompileRejects
    BY <1>4 DEF Full!CompileRejects, Full!Leftover, Full!Reply, Full!NoCall, Full!Call
  <1>5. CASE Full!LogRead
    <2>1. \/ result' = "success" /\ usable' = disk /\ built
          \/ result' = "latex-error" /\ usable' = usable
      <3>1. PICK good \in {built, FALSE} :
              /\ result' = IF good THEN "success" ELSE "latex-error"
              /\ usable' = IF good THEN disk ELSE usable
        BY <1>5 DEF Full!LogRead
      <3>2. CASE good = FALSE
        BY <3>1, <3>2
      <3>3. CASE good = TRUE
        BY <3>1, <3>3, Zenon
      <3> QED
        BY <3>1, <3>2, <3>3
    <2>2. /\ pc = "log" /\ pc' = "none" /\ call'.op = "none" /\ pages' = [p \in Page |-> 0]
          /\ reply'.call = call /\ reply'.shows = disk
          /\ UNCHANGED <<buffers, disk, pdf, built>>
      BY <1>5 DEF Full!LogRead, Full!NoPages, Full!Reply, Full!NoCall, Full!Call, Full!project
    <2> QED
      BY <2>1, <2>2
  <1>6. CASE Full!Count
    BY <1>6 DEF Full!Count, Full!Idle, Full!Waits, Full!Call, Full!view, Full!project
  <1>7. ASSUME NEW p \in Page, Full!RenderPage(p) PROVE FullInv'
    BY <1>7 DEF Full!RenderPage, Full!Idle, Full!Waits, Full!Reply, Full!NoCall, Full!Call,
      Full!view, Full!project
  <1>8. CASE Full!Loaded
    BY <1>8 DEF Full!Loaded, Full!HasPdf, Full!Reply, Full!NoCall, Full!Call, Full!view,
      Full!project
  <1>9. CASE Full!PdfRead
    BY <1>9 DEF Full!PdfRead, Full!Reply, Full!NoCall, Full!Call, Full!project
  <1>10. CASE Full!CloseSession
    BY <1>10 DEF Full!CloseSession, Full!NoPages, Full!project
  <1>11. CASE Full!Over
    BY <1>11 DEF Full!Over, Full!vars
  <1> QED
    BY <1>1, <1>2, <1>3, <1>4, <1>5, <1>6, <1>7, <1>8, <1>9, <1>10, <1>11 DEF Full!Next

-----------------------------------------------------------------------------
(* The theorems. *)

\* IInv is inductive: a step is one of the backend that was chosen.
THEOREM InvInductive == Spec => []IInv
  <1>1. Init => IInv
    BY TexInit, FullInit DEF Init, IInv
  <1>2. IInv /\ [Next]_vars => IInv'
    <2> SUFFICES ASSUME IInv, [Next]_vars PROVE IInv'
      OBVIOUS
    <2>1. CASE Texpresso
      BY <2>1, TexNext, FullStutters DEF IInv, Texpresso
    <2>2. CASE FullCompile
      BY <2>2, FullNext, TexStutters DEF IInv, FullCompile
    <2>3. CASE Choose \/ UNCHANGED vars
      BY <2>3, TexStutters, FullStutters DEF IInv, Choose, vars
    <2> QED
      BY <2>1, <2>2, <2>3 DEF Next
  <1> QED
    BY <1>1, <1>2, PTL DEF Spec

\* No answer of either backend is older than its request (waitForFlush and the
\* FIFO matching of handleProtocolLine; compile and openPdf).
THEOREM AnswersAreFresh == Spec => []Fresh
  <1>1. IInv => Fresh
    BY DEF IInv, TexInv, FullInv, Fresh
  <1> QED
    BY <1>1, InvInductive, PTL

\* Neither backend keeps a page that an edit which compiled has made stale
\* (renderPage of either session).
THEOREM CacheIsFresh == Spec => []CacheFresh
  <1>1. IInv => CacheFresh
    BY DEF IInv, TexInv, FullInv, CacheFresh
  <1> QED
    BY <1>1, InvInductive, PTL

\* The exit of a process that nobody closed rejects every waiter and is told to
\* the owner (fail and the close event).
THEOREM ExitIsNoticed == Spec => []ExitNoticed
  <1>1. IInv => ExitNoticed
    BY DEF IInv, TexInv, Endings, ExitNoticed, Tex!ExitNoticed
  <1> QED
    BY <1>1, InvInductive, PTL
=============================================================================
