------------------------- MODULE MCPostgresSnapshots -------------------------
EXTENDS PostgresSnapshots

CONSTANTS c1, c2, c3, s1

MCClient  == {c1, c2, c3}
MCContent == {s1}
=============================================================================
