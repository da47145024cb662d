------------------------- MODULE MCAgentOrchestrator -------------------------
EXTENDS AgentOrchestrator

CONSTANTS e1, e2, a, b, c, d, q, s

OneCall  == {e1}
TwoCalls == {e1, e2}

\* b and c may not run together; d waits for a, q for c, and s for q.
MCBuilder  == {a, b, c, d}
MCReviewer == {q, s}
MCDependencies ==
  [t \in MCBuilder \cup MCReviewer |->
     CASE t \in {a, b, c} -> {} [] t = d -> {a} [] t = q -> {c} [] t = s -> {b, q}]
MCConflicts ==
  [t \in MCBuilder \cup MCReviewer |->
     CASE t = b -> {c} [] t = c -> {b} [] OTHER -> {}]

\* One builder and no review, for the races of two calls.
OneBuilder == {a}
NoReviewer == {}
Alone      == [t \in OneBuilder |-> {}]
=============================================================================
