--------------------------- MODULE MCBlobSnapshots ---------------------------
EXTENDS BlobSnapshots

CONSTANTS c1, c2, s1, s2

MCClient  == {c1, c2}
MCContent == {s1, s2}
=============================================================================
