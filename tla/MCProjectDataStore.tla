------------------------- MODULE MCProjectDataStore -------------------------
EXTENDS ProjectDataStore

CONSTANTS c1, c2, k1, k2, k3, n1, n2

MCClient == {c1, c2}

\* Two documents of one namespace and one of another.
MCKey == {k1, k2, k3}
MCNamespaceOf == [k \in MCKey |-> IF k = k3 THEN n2 ELSE n1]

\* One document, for the histories of its lives.
OneKey == {k1}
=============================================================================
