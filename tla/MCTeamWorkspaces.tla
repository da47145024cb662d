--------------------------- MODULE MCTeamWorkspaces ---------------------------
EXTENDS TeamWorkspaces, TLC

CONSTANTS r1, r2, o, a, b, w1, i1, i2, p1

MCRequest == {r1, r2}

\* One owner with one workspace, and two accounts to invite.
MCAccount == {o, a, b}
MCWorkspace == {w1}
MCOwnerOf == [x \in MCWorkspace |-> o]
MCInvite == {i1, i2}
MCWorkspaceOf == [x \in MCInvite |-> w1]
MCProject == {p1}

\* Requests, invited accounts and invites are alike.
Symmetry == Permutations(MCRequest) \cup Permutations({a, b}) \cup Permutations(MCInvite)
=============================================================================
