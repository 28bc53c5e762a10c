--------------------------- MODULE LatexmkSession ---------------------------
(***************************************************************************)
(* The live session without TeXpresso: class FullCompileLiveSession of     *)
(* typr-server/liveLatexSession.ts, which compiles the whole project after *)
(* every edit and rasterizes pages of the PDF on disk.                     *)
(*                                                                         *)
(* The live session that owns it issues one call at a time (OneRenderer of *)
(* LiveSession), none after a change that failed, and may close it during  *)
(* any of them.  A compilation is a single await here; that an aborted one *)
(* ends is what BusyEnds of CompileService shows, and nothing else ends    *)
(* one that hangs.  Documents are represented by the number of edits they  *)
(* contain, as in TexpressoSession.                                        *)
(***************************************************************************)
EXTENDS Naturals

CONSTANTS
  Page,     \* pages asked for
  MaxEdit   \* bound on the edits

VARIABLES
  buffers,  \* edits in this.buffers
  disk,     \* edits in the project on disk
  pdf,      \* edits in the PDF on disk, 0 when it cannot be read
  result,   \* snapshotValue.result
  usable,   \* edits of the last compilation that had no error
  pages,    \* renderedPages: edits a cached page contains, 0 when not cached
  started,  \* start(): "no", "yes", or "failed"
  shut,     \* this.closed, and abortController is aborted
  call,     \* the call under way
  pc,       \* what it awaits
  built,    \* the compiler's exit code was 0
  reply     \* the outcome of the last call

vars == <<buffers, disk, pdf, result, usable, pages, started, shut, call, pc, built, reply>>
project == <<buffers, disk, pdf>>
view == <<result, usable, pages, started, shut>>

Edit == 0..MaxEdit
Call(o, p, n) == [op |-> o, page |-> p, since |-> n]
NoCall == Call("none", 0, 0)

\* start() has put the files into the buffers and awaits compile().
Init ==
  /\ buffers = 1 /\ disk = 1 /\ pdf = 0
  /\ result = "none" /\ usable = 0 /\ pages = [p \in Page |-> 0]
  /\ started = "no" /\ shut = FALSE
  /\ call = Call("start", 0, 1) /\ pc = "compile" /\ built = FALSE
  /\ reply = [ok |-> FALSE, call |-> NoCall, shows |-> 0]

\* The owner may issue a call: drainChanges gives up after a change that failed.
Idle ==
  /\ pc = "none" /\ started = "yes"
  /\ reply.call.op = "change" => reply.ok

Reply(r, ok, shows) ==
  /\ pc' = "none" /\ call' = NoCall
  /\ reply' = [ok |-> ok, call |-> r, shows |-> shows]

Waits(r, at) == call' = r /\ pc' = at /\ UNCHANGED reply

-----------------------------------------------------------------------------
(* Edits and compilations. *)

\* applyRangeChange, for a range that lies in the file, up to its first await.
Change ==
  /\ Idle /\ buffers < MaxEdit
  /\ LET r == Call("change", 0, buffers + 1)
     IN IF shut THEN Reply(r, FALSE, 0) /\ UNCHANGED buffers
        ELSE Waits(r, "write") /\ buffers' = buffers + 1
  /\ UNCHANGED <<disk, pdf, view, built>>

\* The file is written, or it is not: the buffer keeps the edit either way.
Written ==
  /\ pc = "write"
  /\ \/ disk' = buffers /\ pc' = "compile" /\ UNCHANGED <<call, reply>>
     \/ Reply(call, FALSE, 0) /\ UNCHANGED disk
  /\ UNCHANGED <<buffers, pdf, view, built>>

\* What a compiler that does not succeed may leave where the PDF was.
Leftover == {0, pdf, disk}

\* runLatexProject returns: with exit code 0, unless close() has aborted it, or
\* with another, which it also returns when the abort came while packages were
\* looked for.
Compiled ==
  /\ pc = "compile"
  /\ \/ ~shut /\ built' = TRUE /\ pdf' = disk
     \/ built' = FALSE /\ pdf' \in Leftover
  /\ pc' = "log"
  /\ UNCHANGED <<buffers, disk, view, call, reply>>

\* runLatexProject rejects: aborted, no compiler, or too much output.
CompileRejects ==
  /\ pc = "compile"
  /\ pdf' \in Leftover
  /\ Reply(call, FALSE, 0)
  /\ started' = IF started = "no" THEN "failed" ELSE started
  /\ UNCHANGED <<buffers, disk, result, usable, pages, shut, built>>

\* Mutant: the pages of the previous compilation stay cached.
KeepPages == pages

\* compile() empties the cache.
NoPages == [p \in Page |-> 0]

\* The log is read; the call returns the snapshot of this compilation, a failure
\* also if the log shows an error in spite of the exit code.
LogRead ==
  /\ pc = "log"
  /\ \E good \in {built, FALSE} :
       /\ result' = IF good THEN "success" ELSE "latex-error"
       /\ usable' = IF good THEN disk ELSE usable
  /\ pages' = NoPages
  /\ started' = "yes"
  /\ Reply(call, TRUE, disk)
  /\ UNCHANGED <<project, shut, built>>

-----------------------------------------------------------------------------
(* Pages. *)

RenderPage(p) ==
  /\ Idle
  /\ LET r == Call("render", p, usable)
     IN \/ shut /\ Reply(r, FALSE, 0)
        \/ ~shut /\ pages[p] # 0 /\ Reply(r, TRUE, pages[p])
        \/ ~shut /\ pages[p] = 0 /\ Waits(r, "mupdf")
  /\ UNCHANGED <<project, view, built>>

\* getPageCount does not ask whether the session is open.
Count ==
  /\ Idle
  /\ Waits(Call("count", 0, usable), "mupdf")
  /\ UNCHANGED <<project, view, built>>

\* Mutant: the PDF is opened whatever the last compilation said.
Renderable == result \in {"success", "latex-error"}

\* openPdf refuses when the last compilation failed.
HasPdf == result = "success"

\* loadMuPdf() returns or throws; then openPdf awaits the file.
Loaded ==
  /\ pc = "mupdf"
  /\ \/ HasPdf /\ pc' = "pdf" /\ UNCHANGED <<call, reply>>
     \/ Reply(call, FALSE, 0)
  /\ UNCHANGED <<project, view, built>>

\* The PDF is read, opened and rasterized; the page is cached even if close()
\* came meanwhile.
PdfRead ==
  /\ pc = "pdf"
  /\ \/ /\ pdf # 0 /\ Reply(call, TRUE, pdf)
        /\ pages' = IF call.op = "render" THEN [pages EXCEPT ![call.page] = pdf] ELSE pages
     \/ Reply(call, FALSE, 0) /\ UNCHANGED pages
  /\ UNCHANGED <<project, result, usable, started, shut, built>>

\* close() aborts the compilation and empties the cache.
CloseSession ==
  /\ started = "yes" /\ ~shut
  /\ shut' = TRUE /\ pages' = NoPages
  /\ UNCHANGED <<project, result, usable, started, call, pc, built, reply>>

\* The session is over.
Over == pc = "none" /\ (shut \/ started = "failed") /\ UNCHANGED vars

Next ==
  \/ Change \/ Written \/ Compiled \/ CompileRejects \/ LogRead
  \/ Count \/ (\E p \in Page : RenderPage(p)) \/ Loaded \/ PdfRead
  \/ CloseSession \/ Over

\* Awaits that end by themselves: files, the module, and an aborted compilation.
Aborted == shut /\ (Compiled \/ CompileRejects)
Await == Written \/ Aborted \/ LogRead \/ Loaded \/ PdfRead

-----------------------------------------------------------------------------
(* Properties. *)

\* Types; a call is under way exactly while something is awaited.
TypeOK ==
  /\ buffers \in Edit /\ disk \in Edit /\ pdf \in Edit /\ usable \in Edit
  /\ result \in {"none", "success", "latex-error"}
  /\ pages \in [Page -> Edit] /\ started \in {"no", "yes", "failed"}
  /\ shut \in BOOLEAN /\ built \in BOOLEAN
  /\ pc \in {"none", "write", "compile", "log", "mupdf", "pdf"}
  /\ call # NoCall <=> pc # "none"

\* A snapshot contains the change that returned it, and no other; a page or a
\* count is of the last source that compiled, and refused once one did not.
Fresh == reply.ok => reply.shows = reply.call.since

\* What is cached is of that source too, although a call that close() overtook
\* goes on to fill the cache.
CacheFresh == \A p \in Page : pages[p] \in {0, usable}
=============================================================================
