--------------------------- MODULE MCLiveSession ---------------------------
(***************************************************************************)
(* Model checking of LiveSession, and its refinement of LiveProtocol: what *)
(* the peer has received is, at every step, a legal frame sequence.        *)
(***************************************************************************)
EXTENDS LiveSession

Peer == INSTANCE LiveProtocol WITH
  last <- seen.last, rev <- seen.rev, begun <- seen.begun,
  commit <- seen.commit, doc <- seen.doc, want <- seen.want,
  got <- seen.got, told <- seen.told

\* Every frame the session sends is one the protocol allows next: pages pair
\* with their images, documents commit complete and in order, a compile error
\* names the committed revision (sendPage, renderRevision, sendCompileError).
ImplementsProtocol == Peer!Spec
=============================================================================
