---------------------------- MODULE LiveProtocol ----------------------------
(***************************************************************************)
(* What a live-preview connection promises its peer, frame by frame        *)
(* (docs/companion-protocol.md, "Revisions and edits", "Page metadata and  *)
(* binary framing" and "Errors"): the abstract specification that          *)
(* LiveSession implements.  The state is what the frames received so far   *)
(* amount to; each action is the arrival of one frame that may come next.  *)
(***************************************************************************)
EXTENDS Integers

CONSTANTS Revision, PageLimit

VARIABLES
  last,    \* type of the last frame
  rev,     \* revision it carried
  begun,   \* last revision declared ready or started
  commit,  \* last revision completed: the preview the peer shows
  doc,     \* revision of the document being received, 0 for none
  want,    \* its page count
  got,     \* its pages received so far
  told     \* lastGoodRevision of the last compile error

vars == <<last, rev, begun, commit, doc, want, got, told>>

Init ==
  /\ last = "none" /\ rev = 0 /\ begun = 0 /\ commit = 0
  /\ doc = 0 /\ want = 0 /\ got = 0 /\ told = 0

\* A page announcement is followed by its image, and nothing follows
\* session-closed.
Control(t) == last \notin {"page", "session-closed"} /\ last' = t

Begin(r) ==
  /\ Control(IF begun = 0 THEN "session-ready" ELSE "revision-started")
  /\ doc = 0 /\ r > begun
  /\ rev' = r /\ begun' = r
  /\ UNCHANGED <<commit, doc, want, got, told>>

Applied ==
  /\ Control("revision-applied")
  /\ doc = 0 /\ begun # 0 /\ rev' = begun
  /\ UNCHANGED <<begun, commit, doc, want, got, told>>

CompileError ==
  /\ Control("compile-error")
  /\ doc = 0 /\ begun # 0 /\ rev' = begun
  /\ told' = commit
  /\ UNCHANGED <<begun, commit, doc, want, got>>

Document(n) ==
  /\ Control("document")
  /\ doc = 0 /\ begun > commit
  /\ rev' = begun /\ doc' = begun /\ want' = n /\ got' = 0
  /\ UNCHANGED <<begun, commit, told>>

Page ==
  /\ Control("page")
  /\ doc # 0 /\ got < want /\ rev' = doc
  /\ UNCHANGED <<begun, commit, doc, want, got, told>>

Png ==
  /\ last = "page" /\ last' = "png"
  /\ rev' = doc /\ got' = got + 1
  /\ UNCHANGED <<begun, commit, doc, want, told>>

Complete ==
  /\ Control("revision-complete")
  /\ doc # 0 /\ got = want /\ rev' = doc /\ commit' = doc
  /\ doc' = 0 /\ want' = 0 /\ got' = 0
  /\ UNCHANGED <<begun, told>>

Other ==
  /\ \E t \in {"protocol-error", "session-error", "session-closed"} : Control(t)
  /\ rev' \in Revision \cup {0}
  /\ UNCHANGED <<begun, commit, doc, want, got, told>>

Next ==
  \/ \E r \in Revision : Begin(r)
  \/ Applied \/ CompileError \/ Page \/ Png \/ Complete \/ Other
  \/ \E n \in 1..PageLimit : Document(n)

Spec == Init /\ [][Next]_vars
=============================================================================
