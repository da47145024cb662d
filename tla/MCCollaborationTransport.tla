---------------------- MODULE MCCollaborationTransport ----------------------
EXTENDS CollaborationTransport

CONSTANTS c1, c2, r1, k1, k2, f1, f2

MCClient      == {c1, c2}
MCReader      == {r1}
MCKey         == {k1, k2}
MCFingerprint == {f1, f2}
=============================================================================
