-------------------------- MODULE MCDropsBotWebhooks --------------------------
(* Two requests at once; three events for a connection that keeps two.      *)
EXTENDS DropsBotWebhooks, TLC

CONSTANTS r1, r2, e1, e2, e3

Requests == {r1, r2}
Events == {e1, e2, e3}
Symmetry == Permutations(Requests) \cup Permutations(Events)
=============================================================================
