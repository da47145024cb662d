------------------------- MODULE TeamWorkspacesProofs -------------------------
(***************************************************************************)
(* What the envelopes of team workspaces promise, for any accounts,        *)
(* workspaces, invites, limits and requests, in both backends.             *)
(***************************************************************************)
EXTENDS TeamWorkspaces, FiniteSetTheorems, TLAPS

(***************************************************************************)
(* Requests under way are such as the routes make, and know what they need *)
(* of the workspace: that it is not there yet, that its actor is a member, *)
(* or that every pointer of a listing still leads to a membership.         *)
(***************************************************************************)
Given == {"editor", "viewer"}

Asked(q) ==
  /\ q \in Ask /\ q.actor \in Account /\ q.workspace \in Workspace
  /\ q.op \in {"invite", "accept"} => q.invite \in Invite
  /\ q.op \in {"invite", "role"} => q.role \in Given
  /\ q.op = "role" => q.member \in Account
  /\ q.op = "project" => q.project \in Project
  /\ q.op = "create" => q.actor = OwnerOf[q.workspace]

\* What a request holds is not newer than what is stored, and of one version is the same.
HeldFits(r) ==
  LET a == Target(r) IN
  /\ held[r].version <= version[a]
  /\ held[r].version = version[a] => held[r].envelope = envelope[a]
  /\ held[r].envelope.revision <= envelope[a].revision
  /\ held[r].envelope.revision = envelope[a].revision => held[r].envelope = envelope[a]

ListingFits(r) ==
  /\ held[r].known \subseteq held[r].shown \cup held[r].envelope.joined
  /\ \A w \in held[r].shown \cup held[r].envelope.joined : MayRead(Stored(w), request[r].actor)

SlotFits(r) ==
  /\ step[r] # "idle" => Asked(request[r])
  /\ step[r] \in {"read", "write"} => request[r].op # "list"
  /\ step[r] \in {"readOwn", "writeOwn"} =>
       /\ request[r].op = "accept" /\ request[r].actor # OwnerOf[request[r].workspace]
       /\ MayRead(Stored(request[r].workspace), request[r].actor)
  /\ step[r] = "readOwners" => request[r].op = "list" /\ ListingFits(r)
  /\ step[r] \in {"write", "writeOwn"} => HeldFits(r)
  /\ step[r] # "idle" /\ request[r].op = "create" => ~Exists(Stored(request[r].workspace))

SlotsFit == \A r \in Request : SlotFits(r)

CreatesApart ==
  \A r, s \in Request :
    /\ step[r] # "idle" /\ request[r].op = "create"
    /\ step[s] # "idle" /\ request[s].op = "create"
    /\ request[r].workspace = request[s].workspace
    => r = s

(***************************************************************************)
(* A workspace is in its owner's envelope only, which its owner may read;  *)
(* who took an invite is a member.                                         *)
(***************************************************************************)
TeamFits(w, t) ==
  /\ ~Exists(t) => t = NoTeam
  /\ Exists(t) => MayRead(t, OwnerOf[w])
  /\ \A i \in Invite : t.invite[i].there =>
       /\ t.invite[i].role \in Given
       /\ t.invite[i].by # NoOne => MayRead(t, t.invite[i].by)
  /\ IsFiniteSet(Collaborators(t))

EnvelopesFit ==
  /\ \A a \in Account, w \in Workspace : OwnerOf[w] # a => envelope[a].team[w] = NoTeam
  /\ \A w \in Workspace : TeamFits(w, Stored(w))

IInv ==
  /\ TypeOK /\ SlotsFit /\ CreatesApart /\ EnvelopesFit
  /\ PointersAreMemberships /\ ConfirmedIsListed

-----------------------------------------------------------------------------
(* What an outcome tells of the workspace it was computed on.              *)

LEMMA Constants ==
  ASSUME TeamAssumption
  PROVE  /\ NoInvite \in InviteState
         /\ NoTeam \in Team
         /\ EmptyEnvelope \in Envelope
         /\ Nothing \in Held
         /\ NoAsk \in Ask
<1>1. NoInvite \in InviteState
  BY DEF TeamAssumption, NoInvite, InviteState, Role
<1>2. NoTeam \in Team
  BY <1>1 DEF NoTeam, Team, Role
<1>3. EmptyEnvelope \in Envelope
  BY <1>2 DEF EmptyEnvelope, Envelope
<1>4. Nothing \in Held
  BY <1>3 DEF Nothing, Held
<1>5. NoAsk \in Ask
  BY DEF NoAsk, Plain, Ask, Ops, Role
<1> QED
  BY <1>1, <1>2, <1>3, <1>4, <1>5

LEMMA CheckedTells ==
  ASSUME NEW q, NEW t, NEW may \in BOOLEAN, NEW otherwise,
         otherwise \in {"saved", "invalid", "conflict", "not-found"}
  PROVE  /\ Checked(q, t, may, otherwise)
              \in {"saved", "invalid", "conflict", "not-found", "forbidden"}
         /\ Checked(q, t, may, otherwise) = "saved" =>
              Exists(t) /\ may /\ Expected(q, t) /\ otherwise = "saved"
<1>1. CASE ~Exists(t)
  BY <1>1 DEF Checked
<1>2. CASE Exists(t) /\ ~may
  BY <1>2 DEF Checked
<1>3. CASE Exists(t) /\ may /\ ~Expected(q, t)
  BY <1>3 DEF Checked
<1>4. CASE Exists(t) /\ may /\ Expected(q, t)
  BY <1>4 DEF Checked
<1> QED
  BY <1>1, <1>2, <1>3, <1>4

\* What an outcome tells of the request and of the workspace t.
Tells(q, t, answer) ==
  /\ answer = "accepted" =>
       /\ q.op = "accept" /\ t.invite[q.invite].there
       /\ t.invite[q.invite].by = NoOne /\ ~Full(q, t, t.invite[q.invite])
  /\ answer = "already-accepted" =>
       /\ q.op = "accept" /\ t.invite[q.invite].there /\ t.invite[q.invite].by = q.actor
  /\ answer = "saved" =>
       /\ q.op # "accept"
       /\ q.op # "create" => Exists(t) /\ Expected(q, t)
       /\ q.op \in {"update", "project"} => MayWrite(t, q.actor)
       /\ q.op \in {"invite", "role"} => MayManage(t, q.actor)
       /\ q.op = "role" => q.member \in Collaborators(t)

LEMMA CheckedAnswer ==
  ASSUME NEW q, NEW t, NEW may \in BOOLEAN, NEW otherwise, NEW answer,
         answer = Checked(q, t, may, otherwise),
         otherwise \in {"saved", "invalid", "conflict", "not-found"},
         q.op \in {"update", "invite", "role", "project"},
         q.op \in {"update", "project"} => (may => MayWrite(t, q.actor)),
         q.op \in {"invite", "role"} => (may => MayManage(t, q.actor)),
         q.op = "role" => (otherwise = "saved" => q.member \in Collaborators(t))
  PROVE  Tells(q, t, answer)
<1>1. answer \in {"saved", "invalid", "conflict", "not-found", "forbidden"}
  BY CheckedTells
<1>2. answer = "saved" => Exists(t) /\ may /\ Expected(q, t) /\ otherwise = "saved"
  BY CheckedTells
<1> QED
  BY <1>1, <1>2 DEF Tells

LEMMA OutcomeTells ==
  ASSUME NEW q, NEW e, Asked(q), q.op # "list"
  PROVE  Tells(q, e.team[q.workspace], Outcome(q, e))
<1> DEFINE t == e.team[q.workspace]
<1>0. q.op \in {"create", "update", "invite", "role", "project", "accept"}
  BY DEF Asked, Ask, Ops
<1>7. MayWrite(t, q.actor) \in BOOLEAN /\ MayManage(t, q.actor) \in BOOLEAN
  BY DEF MayWrite, MayManage
<1>1. CASE q.op = "create"
  BY <1>1 DEF Outcome, CreateOutcome, Tells
<1>2. CASE q.op = "accept"
  <2>1. Outcome(q, e) = AcceptOutcome(q, t)
    BY <1>2 DEF Outcome
  <2> DEFINE i == t.invite[q.invite]
  <2>2. CASE ~i.there \/ Taken(q, i)
    <3>1. Outcome(q, e) = "not-found"
      BY <2>1, <2>2 DEF AcceptOutcome, Taken
    <3> QED
      BY <3>1 DEF Tells
  <2>3. CASE i.there /\ ~Taken(q, i) /\ i.by = q.actor
    <3>1. Outcome(q, e) = "already-accepted"
      BY <2>1, <2>3 DEF AcceptOutcome
    <3> QED
      BY <3>1, <2>3, <1>2 DEF Tells
  <2>4. CASE i.there /\ ~Taken(q, i) /\ i.by # q.actor
    <3>1. Outcome(q, e) = IF Full(q, t, i) THEN "invalid" ELSE "accepted"
      BY <2>1, <2>4 DEF AcceptOutcome
    <3>2. i.by = NoOne
      BY <2>4 DEF Taken
    <3> QED
      BY <3>1, <3>2, <2>4, <1>2 DEF Tells
  <2> QED
    BY <2>2, <2>3, <2>4
<1>3. CASE q.op = "update"
  <2>1. Outcome(q, e) = Checked(q, t, MayWrite(t, q.actor), "saved")
    BY <1>3 DEF Outcome
  <2> QED
    BY <2>1, <1>7, <1>3, CheckedAnswer
<1>4. CASE q.op = "project"
  <2>1. Outcome(q, e) = Checked(q, t, MayWrite(t, q.actor), ProjectOutcome(q, t))
    BY <1>4 DEF Outcome
  <2>2. ProjectOutcome(q, t) \in {"saved", "invalid", "conflict", "not-found"}
    BY DEF ProjectOutcome
  <2> QED
    BY <2>1, <2>2, <1>7, <1>4, CheckedAnswer
<1>5. CASE q.op = "invite"
  <2>1. Outcome(q, e) = Checked(q, t, MayManage(t, q.actor), InviteOutcome(q, t))
    BY <1>5 DEF Outcome
  <2>2. InviteOutcome(q, t) \in {"saved", "invalid", "conflict", "not-found"}
    BY DEF InviteOutcome
  <2> QED
    BY <2>1, <2>2, <1>7, <1>5, CheckedAnswer
<1>6. CASE q.op = "role"
  <2> DEFINE rest == IF q.member \in Collaborators(t) THEN "saved" ELSE "not-found"
  <2>1. Outcome(q, e) = Checked(q, t, MayManage(t, q.actor), rest)
    BY <1>6 DEF Outcome
  <2>2. rest \in {"saved", "invalid", "conflict", "not-found"}
    OBVIOUS
  <2>3. rest = "saved" => q.member \in Collaborators(t)
    OBVIOUS
  <2> HIDE DEF rest
  <2> QED
    BY <2>1, <2>2, <2>3, <1>7, <1>6, CheckedAnswer
<1> QED
  BY <1>0, <1>1, <1>2, <1>3, <1>4, <1>5, <1>6

-----------------------------------------------------------------------------
(* What a success makes of the workspace: it stays one that fits, its      *)
(* revision moves by one and nobody loses the right to read it.            *)

Bumped(c) == [c EXCEPT !.revision = @ + 1]

InvitesFit(t) ==
  \A i \in Invite : t.invite[i].there =>
    /\ t.invite[i].role \in Given
    /\ t.invite[i].by # NoOne => MayRead(t, t.invite[i].by)

Follows(w, t, u) ==
  /\ u \in Team /\ TeamFits(w, u)
  /\ u.revision = t.revision + 1
  /\ \A a \in Account : MayRead(t, a) => MayRead(u, a)

LEMMA BumpedFollows ==
  ASSUME NEW w \in Workspace, NEW t \in Team, NEW c \in Team,
         c.revision = t.revision,
         \A a \in Account : MayRead(t, a) => MayRead(c, a),
         MayRead(c, OwnerOf[w]), InvitesFit(c), IsFiniteSet(Collaborators(c))
  PROVE  Follows(w, t, Bumped(c))
<1> DEFINE u == Bumped(c)
<1>1. /\ u \in Team /\ u.revision = t.revision + 1
      /\ u.role = c.role /\ u.invite = c.invite /\ u.project = c.project
  BY DEF Bumped, Team
<1>2. Collaborators(u) = Collaborators(c)
  BY <1>1 DEF Collaborators
<1>3. \A a : MayRead(u, a) <=> MayRead(c, a)
  BY <1>1 DEF MayRead
<1>4. Exists(u)
  BY <1>1 DEF Exists, Team
<1>5. InvitesFit(u)
  BY <1>1, <1>3 DEF InvitesFit
<1> QED
  BY <1>1, <1>2, <1>3, <1>4, <1>5 DEF Follows, TeamFits, InvitesFit

\* The roles of c are those of t and one more.
LEMMA OneMoreCollaborator ==
  ASSUME NEW t, NEW c, NEW x, IsFiniteSet(Collaborators(t)),
         \A a \in Account \ {x} : c.role[a] = t.role[a]
  PROVE  IsFiniteSet(Collaborators(c))
<1>1. Collaborators(c) \subseteq Collaborators(t) \cup {x}
  BY DEF Collaborators
<1>2. IsFiniteSet(Collaborators(t) \cup {x})
  BY FS_AddElement
<1> QED
  BY <1>1, <1>2, FS_Subset

LEMMA ChangeFollows ==
  ASSUME TeamAssumption, NEW q, NEW t \in Team, NEW answer \in {"saved", "accepted"},
         Asked(q), q.op # "list", TeamFits(q.workspace, t),
         q.op = "create" => ~Exists(t),
         Tells(q, t, answer)
  PROVE  Follows(q.workspace, t, Bumped(Change(q, t)))
<1> DEFINE w == q.workspace
           c == Change(q, t)
<1>0. /\ q.op \in {"create", "update", "invite", "role", "project", "accept"}
      /\ w \in Workspace /\ q.actor \in Account /\ OwnerOf[w] \in Account
      /\ q.role \in Role /\ q.limit \in Nat
  BY DEF Asked, Ask, Ops, TeamAssumption
<1>1. InvitesFit(t)
  BY DEF TeamFits, InvitesFit
<1>2. Exists(t) => MayRead(t, OwnerOf[w])
  BY DEF TeamFits
<1>3. IsFiniteSet(Collaborators(t))
  BY DEF TeamFits
<1>4. /\ t.revision \in Nat /\ t.role \in [Account -> Role]
      /\ t.invite \in [Invite -> InviteState] /\ t.project \in [Project -> Nat]
  BY DEF Team
<1>5. CASE q.op = "create"
  <2>1. c = [t EXCEPT !.role[q.actor] = "owner"]
    BY <1>5 DEF Change
  <2>2. t = NoTeam /\ q.actor = OwnerOf[w]
    BY <1>5 DEF TeamFits, Asked
  <2>3. /\ c \in Team /\ c.revision = t.revision /\ c.invite = t.invite
        /\ c.role = [t.role EXCEPT ![q.actor] = "owner"]
    BY <2>1 DEF Team, Role
  <2>4. \A a \in Account : MayRead(t, a) => MayRead(c, a)
    BY <2>3, <1>4, <1>0 DEF MayRead
  <2>5. MayRead(c, OwnerOf[w])
    BY <2>2, <2>3, <1>4, <1>0 DEF MayRead
  <2>6. InvitesFit(c)
    BY <2>2, <2>3 DEF InvitesFit, NoTeam, NoInvite
  <2>7. IsFiniteSet(Collaborators(c))
    <3>1. \A a \in Account \ {q.actor} : c.role[a] = t.role[a]
      BY <2>3, <1>4
    <3> QED
      BY <3>1, <1>3, OneMoreCollaborator
  <2> QED
    BY <2>3, <2>4, <2>5, <2>6, <2>7, <1>0, BumpedFollows
<1>6. CASE q.op = "accept"
  <2> DEFINE i == q.invite
  <2>1. /\ i \in Invite /\ t.invite[i].there
        /\ t.invite[i].by = NoOne
    BY <1>6 DEF Tells, Asked
  <2>2. Exists(t)
    BY <2>1 DEF TeamFits, NoTeam, NoInvite
  <2>3. c = Accepting(q, t)
    BY <1>6 DEF Change
  <2>4. /\ c \in Team /\ c.revision = t.revision
        /\ c.role = [t.role EXCEPT ![q.actor] =
                       IF @ = "none" THEN t.invite[i].role ELSE @]
        /\ c.invite = [t.invite EXCEPT ![i] = [@ EXCEPT !.by = q.actor]]
    <3> DEFINE role == [t.role EXCEPT ![q.actor] =
                          IF @ = "none" THEN t.invite[i].role ELSE @]
               invite == [t.invite EXCEPT ![i] = [@ EXCEPT !.by = q.actor]]
    <3>1. t.invite[i] \in InviteState /\ t.invite[i].role \in Role
      BY <2>1, <1>4 DEF InviteState
    <3>2. role \in [Account -> Role]
      BY <3>1, <1>4, <1>0
    <3>3. [t.invite[i] EXCEPT !.by = q.actor] \in InviteState
      BY <3>1, <1>0 DEF InviteState
    <3>4. invite \in [Invite -> InviteState]
      BY <3>3, <2>1, <1>4
    <3>5. c = [t EXCEPT !.role = role, !.invite = invite]
      BY <2>3, <1>4, <1>0, <2>1 DEF Accepting, Team
    <3> HIDE DEF role, invite
    <3>6. c \in Team /\ c.revision = t.revision /\ c.role = role /\ c.invite = invite
      BY <3>2, <3>4, <3>5 DEF Team
    <3> QED
      BY <3>6 DEF role, invite
  <2>5. t.invite[i].role \in Given
    BY <2>1, <1>1 DEF InvitesFit
  <2>6. \A a \in Account : MayRead(t, a) => MayRead(c, a)
    BY <2>4, <1>4, <1>0 DEF MayRead
  <2>7. MayRead(c, q.actor)
    BY <2>4, <2>5, <1>4, <1>0 DEF MayRead, Given
  <2>8. InvitesFit(c)
    <3> SUFFICES ASSUME NEW j \in Invite, c.invite[j].there
                 PROVE  /\ c.invite[j].role \in Given
                        /\ c.invite[j].by # NoOne => MayRead(c, c.invite[j].by)
      BY DEF InvitesFit
    <3>1. CASE j = i
      <4>1. c.invite[j].by = q.actor /\ c.invite[j].role = t.invite[i].role
        BY <3>1, <2>4, <1>4, <2>1 DEF InviteState
      <4> QED
        BY <4>1, <2>5, <2>7
    <3>2. CASE j # i
      <4>1. c.invite[j] = t.invite[j]
        BY <3>2, <2>4, <1>4
      <4>2. t.invite[j].by \in Account \cup {NoOne}
        BY <1>4 DEF InviteState
      <4> QED
        BY <4>1, <4>2, <2>6, <1>1 DEF InvitesFit
    <3> QED
      BY <3>1, <3>2
  <2>9. IsFiniteSet(Collaborators(c))
    <3>1. \A a \in Account \ {q.actor} : c.role[a] = t.role[a]
      BY <2>4, <1>4
    <3> QED
      BY <3>1, <1>3, OneMoreCollaborator
  <2>10. MayRead(c, OwnerOf[w])
    BY <2>2, <2>6, <1>2, <1>0
  <2> QED
    BY <2>4, <2>6, <2>8, <2>9, <2>10, <1>0, BumpedFollows
<1>7. q.op \notin {"create", "accept"} => Exists(t)
  BY <1>0 DEF Tells
<1>8. CASE q.op = "update"
  <2>1. c = t
    BY <1>8 DEF Change
  <2> QED
    BY <2>1, <1>0, <1>1, <1>2, <1>3, <1>7, <1>8, BumpedFollows
<1>9. CASE q.op = "project"
  <2>1. c = [t EXCEPT !.project[q.project] = @ + 1]
    BY <1>9 DEF Change
  <2>2. c \in Team /\ c.revision = t.revision /\ c.role = t.role /\ c.invite = t.invite
    BY <2>1, <1>9 DEF Team, Asked
  <2>3. /\ \A a : MayRead(c, a) <=> MayRead(t, a)
        /\ Collaborators(c) = Collaborators(t)
    BY <2>2 DEF MayRead, Collaborators
  <2>4. InvitesFit(c)
    BY <2>2, <2>3, <1>1 DEF InvitesFit
  <2> QED
    BY <2>2, <2>3, <2>4, <1>0, <1>2, <1>3, <1>7, <1>9, BumpedFollows
<1>10. CASE q.op = "invite"
  <2>1. c = [t EXCEPT !.invite = Inviting(q, t)]
    BY <1>10 DEF Change
  <2>2. q.invite \in Invite /\ q.role \in Given
    BY <1>10 DEF Asked
  <2>3. Kept(q, t) \in [Invite -> InviteState]
    BY <1>4, Constants DEF Kept
  <2>4. /\ Inviting(q, t) \in [Invite -> InviteState]
        /\ \A j \in Invite \ {q.invite} : Inviting(q, t)[j] = Kept(q, t)[j]
        /\ Inviting(q, t)[q.invite]
             = [there |-> TRUE, role |-> q.role, limit |-> q.limit, by |-> NoOne]
    BY <2>2, <2>3, <1>0 DEF Inviting, InviteState
  <2>5. /\ c \in Team /\ c.revision = t.revision /\ c.role = t.role
        /\ c.invite = Inviting(q, t)
    BY <2>1, <2>4 DEF Team
  <2>6. /\ \A a : MayRead(c, a) <=> MayRead(t, a)
        /\ Collaborators(c) = Collaborators(t)
    BY <2>5 DEF MayRead, Collaborators
  <2>7. InvitesFit(c)
    <3> SUFFICES ASSUME NEW j \in Invite, c.invite[j].there
                 PROVE  /\ c.invite[j].role \in Given
                        /\ c.invite[j].by # NoOne => MayRead(c, c.invite[j].by)
      BY DEF InvitesFit
    <3>1. CASE j = q.invite
      BY <3>1, <2>5, <2>4, <2>2
    <3>2. CASE j # q.invite
      <4>1. c.invite[j] = t.invite[j]
        BY <3>2, <2>5, <2>4 DEF Kept, NoInvite
      <4> QED
        BY <4>1, <2>6, <1>1 DEF InvitesFit
    <3> QED
      BY <3>1, <3>2
  <2> QED
    BY <2>5, <2>6, <2>7, <1>0, <1>2, <1>3, <1>7, <1>10, BumpedFollows
<1>11. CASE q.op = "role"
  <2>1. c = [t EXCEPT !.role[q.member] = q.role]
    BY <1>11 DEF Change
  <2>2. q.member \in Account /\ q.role \in Given
    BY <1>11 DEF Asked
  <2>3. /\ c \in Team /\ c.revision = t.revision /\ c.invite = t.invite
        /\ c.role = [t.role EXCEPT ![q.member] = q.role]
    BY <2>1, <1>0 DEF Team
  <2>4. \A a \in Account : MayRead(t, a) => MayRead(c, a)
    BY <2>2, <2>3, <1>4 DEF MayRead, Given
  <2>5. InvitesFit(c)
    <3>1. \A j \in Invite : t.invite[j].by \in Account \cup {NoOne}
      BY <1>4 DEF InviteState
    <3> QED
      BY <3>1, <2>3, <2>4, <1>1 DEF InvitesFit
  <2>6. IsFiniteSet(Collaborators(c))
    <3>1. \A a \in Account \ {q.member} : c.role[a] = t.role[a]
      BY <2>3, <1>4
    <3> QED
      BY <3>1, <1>3, OneMoreCollaborator
  <2>7. MayRead(c, OwnerOf[w])
    BY <2>4, <1>2, <1>0, <1>7, <1>11
  <2> QED
    BY <2>3, <2>4, <2>5, <2>6, <2>7, <1>0, BumpedFollows
<1> QED
  BY <1>0, <1>5, <1>6, <1>8, <1>9, <1>10, <1>11

-----------------------------------------------------------------------------
(* What a write that is stored makes of the envelopes.                     *)

Outgoing(r) == IF step[r] = "write" THEN Mutated(request[r], held[r].envelope)
               ELSE Joined(request[r], held[r].envelope)

Puts(r) ==
  /\ step[r] \in {"write", "writeOwn"}
  /\ Unmoved(r)
  /\ Put(r, Outgoing(r))

\* The request of r succeeds on the workspace w.
Succeeds(r, w) ==
  /\ step[r] = "write" /\ request[r].workspace = w
  /\ Outcome(request[r], envelope[OwnerOf[w]]) \in {"saved", "accepted"}

\* The condition of a write says that what was read is what is stored.
LEMMA HeldIsStored ==
  ASSUME IInv, NEW r \in Request, step[r] \in {"write", "writeOwn"}, Unmoved(r)
  PROVE  /\ Target(r) \in Account
         /\ held[r].envelope = envelope[Target(r)]
         /\ envelope[Target(r)] \in Envelope
         /\ Asked(request[r]) /\ request[r].op # "list"
<1>1. SlotFits(r) /\ TypeOK
  BY DEF IInv, SlotsFit
<1>2. HeldFits(r) /\ Asked(request[r]) /\ request[r].op # "list"
  BY <1>1 DEF SlotFits
<1>3. Target(r) \in Account
  BY <1>2, TeamAssumption DEF Target, Asked
<1>4. envelope[Target(r)] \in Envelope /\ version[Target(r)] \in Nat /\ held[r].version \in Nat
  BY <1>1, <1>3 DEF TypeOK, Held
<1>5. held[r].envelope = envelope[Target(r)]
  BY <1>2, <1>4 DEF HeldFits, Unmoved
<1> QED
  BY <1>2, <1>3, <1>4, <1>5

LEMMA OutgoingFollows ==
  ASSUME IInv, NEW r \in Request, step[r] \in {"write", "writeOwn"}, Unmoved(r)
  PROVE  LET e == envelope[Target(r)]
             f == Outgoing(r) IN
         /\ f \in Envelope
         /\ f = e \/ f.revision = e.revision + 1
         /\ \A w \in Workspace :
              /\ ~Succeeds(r, w) => f.team[w] = e.team[w]
              /\ Succeeds(r, w) =>
                   /\ OwnerOf[w] = Target(r)
                   /\ f.team[w] = Bumped(Change(request[r], e.team[w]))
                   /\ Follows(w, e.team[w], f.team[w])
         /\ f.joined = IF step[r] = "writeOwn" THEN e.joined \cup {request[r].workspace}
                       ELSE e.joined
<1> DEFINE e == envelope[Target(r)]
           f == Outgoing(r)
           q == request[r]
           w == q.workspace
<1>1. /\ Target(r) \in Account /\ held[r].envelope = e /\ e \in Envelope
      /\ Asked(q) /\ q.op # "list" /\ w \in Workspace
  BY HeldIsStored DEF Asked
<1>2. CASE step[r] = "write"
  <2>1. f = Mutated(q, e) /\ Target(r) = OwnerOf[w] /\ e.team[w] = Stored(w)
    BY <1>1, <1>2 DEF Outgoing, Target, Stored
  <2>2. CASE Outcome(q, e) \in {"saved", "accepted"}
    <3> DEFINE u == Bumped(Change(q, e.team[w]))
    <3>1. f = [e EXCEPT !.revision = @ + 1, !.team[w] = u]
      BY <2>1, <2>2 DEF Mutated, Bumped
    <3>2. /\ TeamFits(w, e.team[w]) /\ e.team[w] \in Team
          /\ q.op = "create" => ~Exists(e.team[w])
      <4>1. TeamFits(w, Stored(w)) /\ SlotFits(r)
        BY <1>1 DEF IInv, EnvelopesFit, SlotsFit
      <4>2. q.op = "create" => ~Exists(Stored(w))
        BY <4>1, <1>2 DEF SlotFits
      <4> QED
        BY <4>1, <4>2, <1>1, <2>1 DEF Envelope
    <3>3. Follows(w, e.team[w], u)
      BY <3>2, <1>1, <2>2, OutcomeTells, ChangeFollows, TeamAssumption
    <3>4. u \in Team
      BY <3>3 DEF Follows
    <3> HIDE DEF u
    <3>5. /\ f \in Envelope /\ f.revision = e.revision + 1 /\ f.joined = e.joined
          /\ f.team = [e.team EXCEPT ![w] = u]
      <4>1. /\ e.revision + 1 \in Nat /\ [e.team EXCEPT ![w] = u] \in [Workspace -> Team]
            /\ e.joined \in SUBSET Workspace
        BY <3>4, <1>1 DEF Envelope
      <4>2. f = [revision |-> e.revision + 1, team |-> [e.team EXCEPT ![w] = u],
                 joined |-> e.joined]
        BY <3>1, <1>1 DEF Envelope
      <4> QED
        BY <4>1, <4>2 DEF Envelope
    <3>6. Succeeds(r, w)
      BY <1>2, <2>1, <2>2 DEF Succeeds
    <3>7. \A x \in Workspace : f.team[x] = IF x = w THEN u ELSE e.team[x]
      BY <3>5, <1>1 DEF Envelope
    <3>8. \A x \in Workspace : Succeeds(r, x) => x = w
      BY DEF Succeeds
    <3> QED
      BY <3>3, <3>5, <3>6, <3>7, <3>8, <2>1, <1>2 DEF u
  <2>3. CASE Outcome(q, e) \notin {"saved", "accepted"}
    <3>1. f = e
      BY <2>1, <2>3 DEF Mutated
    <3>2. \A x \in Workspace : ~Succeeds(r, x)
      BY <2>1, <2>3 DEF Succeeds
    <3> QED
      BY <3>1, <3>2, <1>1, <1>2
  <2> QED
    BY <2>2, <2>3
<1>3. CASE step[r] = "writeOwn"
  <2>1. f = Joined(q, e)
    BY <1>1, <1>3 DEF Outgoing
  <2>4. \A x \in Workspace : ~Succeeds(r, x)
    BY <1>3 DEF Succeeds
  <2>2. CASE w \in e.joined
    <3>1. f = e /\ e.joined \cup {w} = e.joined
      BY <2>1, <2>2 DEF Joined
    <3> QED
      BY <3>1, <2>4, <1>1, <1>3
  <2>3. CASE w \notin e.joined
    <3>1. f = [e EXCEPT !.revision = @ + 1, !.joined = @ \cup {w}]
      BY <2>1, <2>3 DEF Joined
    <3>2. /\ f \in Envelope /\ f.revision = e.revision + 1 /\ f.team = e.team
          /\ f.joined = e.joined \cup {w}
      <4>1. /\ e.revision + 1 \in Nat /\ e.team \in [Workspace -> Team]
            /\ e.joined \cup {w} \in SUBSET Workspace
        BY <1>1 DEF Envelope
      <4>2. f = [revision |-> e.revision + 1, team |-> e.team, joined |-> e.joined \cup {w}]
        BY <3>1, <1>1 DEF Envelope
      <4> QED
        BY <4>1, <4>2 DEF Envelope
    <3> QED
      BY <3>2, <2>4, <1>3
  <2> QED
    BY <2>2, <2>3
<1> QED
  BY <1>2, <1>3

(***************************************************************************)
(* Forward: envelopes only advance.  With a new version the revision moves *)
(* or the envelope is the one before; nobody loses a membership.           *)
(***************************************************************************)
Forward ==
  /\ envelope' \in [Account -> Envelope] /\ version' \in [Account -> Nat]
  /\ \A a \in Account :
       /\ version[a] <= version'[a]
       /\ version'[a] = version[a] => envelope'[a] = envelope[a]
       /\ envelope[a].revision <= envelope'[a].revision
       /\ envelope'[a].revision = envelope[a].revision => envelope'[a] = envelope[a]
       /\ envelope[a].joined \subseteq envelope'[a].joined
  /\ \A w \in Workspace, a \in Account : MayRead(Stored(w), a) => MayRead(Stored(w)', a)

\* How a stored workspace changes: by a request that succeeds on it.
Moves(r) ==
  \A w \in Workspace :
    /\ ~Succeeds(r, w) => Stored(w)' = Stored(w)
    /\ Succeeds(r, w) =>
         /\ Stored(w)' = Bumped(Change(request[r], Stored(w)))
         /\ Follows(w, Stored(w), Stored(w)')

LEMMA PutsFit ==
  ASSUME IInv, NEW r \in Request, Puts(r)
  PROVE  /\ Forward /\ Moves(r)
         /\ EnvelopesFit' /\ PointersAreMemberships'
         /\ step[r] = "writeOwn" =>
              request[r].workspace \in envelope'[request[r].actor].joined
<1> DEFINE a == Target(r)
           e == envelope[a]
           f == Outgoing(r)
<1>1. /\ step[r] \in {"write", "writeOwn"} /\ Unmoved(r) /\ a \in Account
      /\ envelope' = [envelope EXCEPT ![a] = f]
      /\ version' = [version EXCEPT ![a] = @ + 1]
  BY HeldIsStored DEF Puts, Put
<1>2. envelope \in [Account -> Envelope] /\ version \in [Account -> Nat]
  BY DEF IInv, TypeOK
<1>3. f \in Envelope /\ (f = e \/ f.revision = e.revision + 1)
  BY <1>1, OutgoingFollows
<1>4. \A w \in Workspace :
        /\ ~Succeeds(r, w) => f.team[w] = e.team[w]
        /\ Succeeds(r, w) =>
             /\ OwnerOf[w] = a
             /\ f.team[w] = Bumped(Change(request[r], e.team[w]))
             /\ Follows(w, e.team[w], f.team[w])
  BY <1>1, OutgoingFollows
<1>5. f.joined = IF step[r] = "writeOwn" THEN e.joined \cup {request[r].workspace}
                 ELSE e.joined
  BY <1>1, OutgoingFollows
<1> HIDE DEF f
<1>6. /\ envelope'[a] = f
      /\ \A b \in Account \ {a} : envelope'[b] = envelope[b]
  BY <1>1, <1>2
<1>7. /\ version'[a] = version[a] + 1 /\ version[a] \in Nat
      /\ \A b \in Account \ {a} : version'[b] = version[b] /\ version[b] \in Nat
  BY <1>1, <1>2
<1>8. \A w \in Workspace : OwnerOf[w] \in Account
  BY TeamAssumption
<1>9. Moves(r)
  <2> SUFFICES ASSUME NEW w \in Workspace
               PROVE  /\ ~Succeeds(r, w) => Stored(w)' = Stored(w)
                      /\ Succeeds(r, w) =>
                           /\ Stored(w)' = Bumped(Change(request[r], Stored(w)))
                           /\ Follows(w, Stored(w), Stored(w)')
    BY DEF Moves
  <2>1. CASE OwnerOf[w] = a
    <3>1. Stored(w) = e.team[w] /\ Stored(w)' = f.team[w]
      BY <2>1, <1>6 DEF Stored
    <3> QED
      BY <3>1, <1>4
  <2>2. CASE OwnerOf[w] # a
    <3>1. Stored(w)' = Stored(w) /\ ~Succeeds(r, w)
      BY <2>2, <1>4, <1>6, <1>8 DEF Stored
    <3> QED
      BY <3>1
  <2> QED
    BY <2>1, <2>2
<1>10. \A w \in Workspace, b \in Account : MayRead(Stored(w), b) => MayRead(Stored(w)', b)
  BY <1>9 DEF Moves, Follows
<1>11. \A b \in Account : envelope[b].joined \subseteq envelope'[b].joined
  BY <1>5, <1>6
<1>12. \A b \in Account : envelope[b].revision \in Nat
  BY <1>2 DEF Envelope
<1>13. Forward
  <2>1. \A b \in Account :
          /\ version[b] <= version'[b]
          /\ version'[b] = version[b] => envelope'[b] = envelope[b]
          /\ envelope[b].revision <= envelope'[b].revision
          /\ envelope'[b].revision = envelope[b].revision => envelope'[b] = envelope[b]
    BY <1>3, <1>6, <1>7, <1>12
  <2>2. envelope' \in [Account -> Envelope] /\ version' \in [Account -> Nat]
    BY <1>1, <1>2, <1>3
  <2> QED
    BY <2>1, <2>2, <1>10, <1>11 DEF Forward
<1>14. EnvelopesFit'
  <2>1. ASSUME NEW b \in Account, NEW w \in Workspace, OwnerOf[w] # b
        PROVE  envelope'[b].team[w] = NoTeam
    <3>1. envelope[b].team[w] = NoTeam
      BY <2>1 DEF IInv, EnvelopesFit
    <3> QED
      BY <3>1, <2>1, <1>4, <1>6
  <2>2. ASSUME NEW w \in Workspace
        PROVE  TeamFits(w, Stored(w)')
    <3>1. TeamFits(w, Stored(w))
      BY DEF IInv, EnvelopesFit
    <3> QED
      BY <3>1, <1>9 DEF Moves, Follows
  <2> QED
    BY <2>1, <2>2 DEF EnvelopesFit
<1>15. PointersAreMemberships'
  <2> SUFFICES ASSUME NEW b \in Account, NEW w \in envelope'[b].joined
               PROVE  OwnerOf[w] # b /\ MayRead(Stored(w)', b)
    BY DEF PointersAreMemberships
  <2>1. CASE w \in envelope[b].joined
    <3>1. OwnerOf[w] # b /\ MayRead(Stored(w), b) /\ w \in Workspace
      BY <2>1, <1>2 DEF IInv, PointersAreMemberships, Envelope
    <3> QED
      BY <3>1, <1>10
  <2>2. CASE w \notin envelope[b].joined
    <3>1. b = a /\ step[r] = "writeOwn" /\ w = request[r].workspace
      BY <2>2, <1>5, <1>6
    <3>2. /\ a = request[r].actor /\ w \in Workspace
          /\ a # OwnerOf[w] /\ MayRead(Stored(w), a)
      BY <3>1 DEF Target, IInv, SlotsFit, SlotFits, Asked
    <3> QED
      BY <3>1, <3>2, <1>1, <1>10
  <2> QED
    BY <2>1, <2>2
<1>16. step[r] = "writeOwn" => request[r].workspace \in envelope'[request[r].actor].joined
  BY <1>5, <1>6 DEF Target
<1> QED
  BY <1>9, <1>13, <1>14, <1>15, <1>16

-----------------------------------------------------------------------------
(* What a step of one request leaves of the others.                        *)

\* A workspace that appears is created by the request of r.
CreatedBy(r) ==
  \A w \in Workspace : ~Exists(Stored(w)) /\ Exists(Stored(w)') =>
    /\ step[r] = "write" /\ request[r].op = "create" /\ request[r].workspace = w

LEMMA NewIsCreated ==
  ASSUME IInv, NEW r \in Request, NEW w \in Workspace, Succeeds(r, w), ~Exists(Stored(w))
  PROVE  request[r].op = "create"
<1> DEFINE q == request[r]
           answer == Outcome(q, envelope[OwnerOf[w]])
<1>1. /\ SlotFits(r) /\ step[r] = "write" /\ q.workspace = w
      /\ answer \in {"saved", "accepted"}
  BY DEF Succeeds, IInv, SlotsFit
<1>2. Asked(q) /\ q.op # "list"
  BY <1>1 DEF SlotFits
<1>3. Tells(q, Stored(w), answer)
  BY <1>1, <1>2, OutcomeTells DEF Stored
<1> HIDE DEF answer
<1>4. CASE answer = "accepted"
  <2>1. Stored(w).invite[q.invite].there /\ q.invite \in Invite
    BY <1>2, <1>3, <1>4 DEF Tells, Asked
  <2>2. Stored(w) = NoTeam
    BY DEF IInv, EnvelopesFit, TeamFits
  <2> QED
    BY <2>1, <2>2 DEF NoTeam, NoInvite
<1>5. CASE answer = "saved"
  BY <1>3, <1>5 DEF Tells
<1> QED
  BY <1>1, <1>4, <1>5

LEMMA PutsCreate ==
  ASSUME IInv, NEW r \in Request, Puts(r)
  PROVE  CreatedBy(r)
<1> SUFFICES ASSUME NEW w \in Workspace, ~Exists(Stored(w)), Exists(Stored(w)')
             PROVE  step[r] = "write" /\ request[r].op = "create" /\ request[r].workspace = w
  BY DEF CreatedBy
<1>1. Succeeds(r, w)
  BY PutsFit DEF Moves
<1> QED
  BY <1>1, NewIsCreated DEF Succeeds

LEMMA QuietFits ==
  ASSUME IInv, UNCHANGED stored
  PROVE  /\ Forward /\ EnvelopesFit' /\ PointersAreMemberships'
         /\ \A w \in Workspace : Stored(w)' = Stored(w)
         /\ \A r \in Request : CreatedBy(r)
<1>1. envelope' = envelope /\ version' = version
  BY DEF stored
<1>2. \A w : Stored(w)' = Stored(w)
  BY <1>1 DEF Stored
<1>3. /\ envelope \in [Account -> Envelope] /\ version \in [Account -> Nat]
      /\ \A a \in Account : envelope[a].revision \in Nat /\ version[a] \in Nat
  BY DEF IInv, TypeOK, Envelope
<1>4. Forward
  BY <1>1, <1>2, <1>3 DEF Forward
<1>5. EnvelopesFit'
  BY <1>1, <1>2 DEF IInv, EnvelopesFit
<1>6. PointersAreMemberships'
  BY <1>1, <1>2 DEF IInv, PointersAreMemberships
<1>7. \A r \in Request : CreatedBy(r)
  BY <1>2 DEF CreatedBy
<1> QED
  BY <1>2, <1>4, <1>5, <1>6, <1>7

LEMMA SlotStays ==
  ASSUME IInv, NEW s \in Request, Forward,
         request'[s] = request[s], step'[s] = step[s], held'[s] = held[s],
         step[s] # "idle" /\ request[s].op = "create" =>
           ~Exists(Stored(request[s].workspace)')
  PROVE  SlotFits(s)'
<1> DEFINE q == request[s]
<1>1. SlotFits(s) /\ TypeOK
  BY DEF IInv, SlotsFit
<1>2. step[s] # "idle" => Asked(q) /\ q.actor \in Account /\ q.workspace \in Workspace
  BY <1>1 DEF SlotFits, Asked
<1>3. \A w \in Workspace, a \in Account : MayRead(Stored(w), a) => MayRead(Stored(w)', a)
  BY DEF Forward
<1>4. step[s] \in {"readOwn", "writeOwn"} =>
        /\ q.op = "accept" /\ q.actor # OwnerOf[q.workspace]
        /\ MayRead(Stored(q.workspace)', q.actor)
  BY <1>1, <1>2, <1>3 DEF SlotFits
<1>5. step[s] = "readOwners" => q.op = "list" /\ ListingFits(s)'
  <2> SUFFICES ASSUME step[s] = "readOwners"
               PROVE  q.op = "list" /\ ListingFits(s)'
    OBVIOUS
  <2>1. q.op = "list" /\ ListingFits(s)
    BY <1>1 DEF SlotFits
  <2>2. held[s].shown \cup held[s].envelope.joined \subseteq Workspace
    BY <1>1 DEF TypeOK, Held, Envelope
  <2> QED
    BY <2>1, <2>2, <1>2, <1>3 DEF ListingFits
<1>6. step[s] \in {"write", "writeOwn"} => HeldFits(s)'
  <2> SUFFICES ASSUME step[s] \in {"write", "writeOwn"}
               PROVE  HeldFits(s)'
    OBVIOUS
  <2> DEFINE a == Target(s)
  <2>1. a \in Account /\ a' = a
    BY <1>2, TeamAssumption DEF Target
  <2>2. HeldFits(s)
    BY <1>1 DEF SlotFits
  <2>3. /\ version[a] \in Nat /\ held[s].version \in Nat /\ version'[a] \in Nat
        /\ envelope[a].revision \in Nat /\ held[s].envelope.revision \in Nat
        /\ envelope'[a].revision \in Nat
    BY <1>1, <2>1 DEF TypeOK, Held, Envelope, Forward
  <2>4. /\ version[a] <= version'[a]
        /\ version'[a] = version[a] => envelope'[a] = envelope[a]
        /\ envelope[a].revision <= envelope'[a].revision
        /\ envelope'[a].revision = envelope[a].revision => envelope'[a] = envelope[a]
    BY <2>1 DEF Forward
  <2> HIDE DEF a
  <2>5. /\ held[s].version <= version'[a]
        /\ held[s].version = version'[a] => held[s].envelope = envelope'[a]
        /\ held[s].envelope.revision <= envelope'[a].revision
        /\ held[s].envelope.revision = envelope'[a].revision => held[s].envelope = envelope'[a]
    BY <2>2, <2>3, <2>4 DEF HeldFits, a
  <2> QED
    BY <2>1, <2>5 DEF HeldFits, a
<1>7. step[s] \in {"read", "write"} => q.op # "list"
  BY <1>1 DEF SlotFits
<1> QED
  BY <1>2, <1>4, <1>5, <1>6, <1>7 DEF SlotFits

LEMMA SlotMoves ==
  ASSUME IInv, NEW r \in Request,
         NEW q \in Ask, NEW x \in {"idle", "read", "write", "readOwn", "writeOwn", "readOwners"},
         NEW h \in Held, NEW n \in 0..MaxAttempts,
         request' = [request EXCEPT ![r] = q], step' = [step EXCEPT ![r] = x],
         held' = [held EXCEPT ![r] = h], attempt' = [attempt EXCEPT ![r] = n],
         SlotFits(r)', CreatesApart', CreatedBy(r), Forward,
         EnvelopesFit', PointersAreMemberships', ConfirmedIsListed',
         confirmed' \subseteq Account \X Workspace, issued' \subseteq Invite,
         backend' = backend
  PROVE  IInv'
<1>1. TypeOK /\ SlotsFit /\ CreatesApart
  BY DEF IInv
<1>2. TypeOK'
  BY <1>1 DEF TypeOK, Forward
<1>3. SlotsFit'
  <2> SUFFICES ASSUME NEW s \in Request, s # r
               PROVE  SlotFits(s)'
    BY DEF SlotsFit
  <2>1. request'[s] = request[s] /\ step'[s] = step[s] /\ held'[s] = held[s]
    BY <1>1 DEF TypeOK
  <2>2. ASSUME step[s] # "idle", request[s].op = "create"
        PROVE  ~Exists(Stored(request[s].workspace)')
    <3>1. ~Exists(Stored(request[s].workspace)) /\ request[s].workspace \in Workspace
      BY <1>1, <2>2 DEF SlotsFit, SlotFits, Asked
    <3> QED
      BY <3>1, <2>2, <1>1 DEF CreatedBy, CreatesApart
  <2> QED
    BY <2>1, <2>2, SlotStays
<1> QED
  BY <1>2, <1>3 DEF IInv

\* A request that goes on with what it asked creates no second time.
LEMMA ApartStays ==
  ASSUME IInv, NEW r \in Request, NEW q, NEW x,
         request' = [request EXCEPT ![r] = q], step' = [step EXCEPT ![r] = x],
         x # "idle" => step[r] # "idle" /\ q = request[r]
  PROVE  CreatesApart'
<1>1. TypeOK /\ CreatesApart
  BY DEF IInv
<1>2. \A s \in Request : step'[s] # "idle" => step[s] # "idle" /\ request'[s] = request[s]
  BY <1>1 DEF TypeOK
<1> QED
  BY <1>1, <1>2 DEF CreatesApart

LEMMA ConfirmedStays ==
  ASSUME IInv, Forward, confirmed' = confirmed
  PROVE  ConfirmedIsListed' /\ confirmed' \subseteq Account \X Workspace
<1>1. confirmed \subseteq Account \X Workspace /\ ConfirmedIsListed
  BY DEF IInv, TypeOK
<1>2. \A c \in confirmed : c[1] \in Account
  BY <1>1
<1> QED
  BY <1>1, <1>2 DEF ConfirmedIsListed, Forward

\* The steps that answer a request or give it up.
LEMMA EndKeeps ==
  ASSUME IInv, NEW r \in Request, End(r), CreatedBy(r), Forward,
         EnvelopesFit', PointersAreMemberships', ConfirmedIsListed',
         confirmed' \subseteq Account \X Workspace, issued' \subseteq Invite,
         backend' = backend
  PROVE  IInv'
<1>1. /\ step' = [step EXCEPT ![r] = "idle"] /\ request' = [request EXCEPT ![r] = NoAsk]
      /\ held' = [held EXCEPT ![r] = Nothing] /\ attempt' = [attempt EXCEPT ![r] = 0]
  BY DEF End
<1>2. TypeOK
  BY DEF IInv
<1>3. SlotFits(r)'
  <2>1. step'[r] = "idle"
    BY <1>1, <1>2 DEF TypeOK
  <2> QED
    BY <2>1 DEF SlotFits
<1>4. CreatesApart'
  BY <1>1, ApartStays
<1>5. NoAsk \in Ask /\ Nothing \in Held /\ 0 \in 0..MaxAttempts
  BY Constants, TeamAssumption
<1> QED
  BY <1>1, <1>3, <1>4, <1>5, SlotMoves

-----------------------------------------------------------------------------
(* What the routes ask.                                                    *)

LEMMA AskTyped ==
  ASSUME IInv, NEW a \in Account, NEW w \in Workspace, NEW q \in Asks(a, w)
  PROVE  /\ Asked(q) /\ q.workspace = w /\ q.actor = a
         /\ q.op = "create" => Unused(w)
<1>1. Stored(w).revision \in Nat
  BY TeamAssumption DEF IInv, TypeOK, Envelope, Team, Stored
<1>2. Limit \subseteq Nat /\ 1..Stored(w).revision \subseteq Nat
  BY <1>1, TeamAssumption
<1>3. CASE q \in Edits(a, w)
  <2> DEFINE n == Stored(w).revision
  <2>1. \/ \E k \in 1..n : q = Updating(a, w, k)
        \/ \E p \in Project, m \in 0..1 : q = Putting(a, w, n, p, m)
    BY <1>3 DEF Edits
  <2>2. CASE \E k \in 1..n : q = Updating(a, w, k)
    <3>1. PICK k \in 1..n : q = Updating(a, w, k)
      BY <2>2
    <3>2. q = [op |-> "update", actor |-> a, workspace |-> w, expected |-> k,
               role |-> "none", invite |-> NoOne, limit |-> 0, member |-> NoOne,
               project |-> NoOne, expectedProject |-> 0, expired |-> {}]
      BY <3>1 DEF Updating, Plain
    <3> QED
      BY <3>2, <1>2 DEF Asked, Ask, Ops, Role
  <2>3. CASE \E p \in Project, m \in 0..1 : q = Putting(a, w, n, p, m)
    <3>1. PICK p \in Project, m \in 0..1 : q = Putting(a, w, n, p, m)
      BY <2>3
    <3>2. q = [op |-> "project", actor |-> a, workspace |-> w, expected |-> n,
               role |-> "none", invite |-> NoOne, limit |-> 0, member |-> NoOne,
               project |-> p, expectedProject |-> m, expired |-> {}]
      BY <3>1 DEF Putting, Plain
    <3> QED
      BY <3>2, <1>1 DEF Asked, Ask, Ops, Role
  <2> QED
    BY <2>1, <2>2, <2>3
<1>4. CASE q \in Managements(a, w)
  <2> DEFINE n == Stored(w).revision
  <2>1. \/ \E m \in Account, x \in Given : q = Promoting(a, w, n, m, x)
        \/ \E i \in Invite, x \in Given, l \in Limit, late \in SUBSET Invite :
             q = Offering(a, w, n, i, x, l, late)
    BY <1>4 DEF Managements, Given
  <2>2. CASE \E m \in Account, x \in Given : q = Promoting(a, w, n, m, x)
    <3>1. PICK m \in Account, x \in Given : q = Promoting(a, w, n, m, x)
      BY <2>2
    <3>2. q = [op |-> "role", actor |-> a, workspace |-> w, expected |-> n,
               role |-> x, invite |-> NoOne, limit |-> 0, member |-> m,
               project |-> NoOne, expectedProject |-> 0, expired |-> {}]
      BY <3>1 DEF Promoting, Plain
    <3> QED
      BY <3>2, <1>1 DEF Asked, Ask, Ops, Role, Given
  <2>3. CASE \E i \in Invite, x \in Given, l \in Limit, late \in SUBSET Invite :
               q = Offering(a, w, n, i, x, l, late)
    <3>1. PICK i \in Invite, x \in Given, l \in Limit, late \in SUBSET Invite :
            q = Offering(a, w, n, i, x, l, late)
      BY <2>3
    <3>2. q = [op |-> "invite", actor |-> a, workspace |-> w, expected |-> n,
               role |-> x, invite |-> i, limit |-> l, member |-> NoOne,
               project |-> NoOne, expectedProject |-> 0, expired |-> late]
      BY <3>1 DEF Offering, Plain
    <3> QED
      BY <3>2, <1>1, <1>2 DEF Asked, Ask, Ops, Role, Given
  <2> QED
    BY <2>1, <2>2, <2>3
<1>5. CASE q \in Acceptances(a, w)
  <2>1. PICK i \in issued, l \in Limit : q = Presenting(a, w, i, l)
    BY <1>5 DEF Acceptances
  <2>2. i \in Invite /\ l \in Nat
    BY <1>2 DEF IInv, TypeOK
  <2>3. q = [op |-> "accept", actor |-> a, workspace |-> w, expected |-> 0,
             role |-> "none", invite |-> i, limit |-> l, member |-> NoOne,
             project |-> NoOne, expectedProject |-> 0, expired |-> {}]
    BY <2>1 DEF Presenting, Plain
  <2> QED
    BY <2>2, <2>3 DEF Asked, Ask, Ops, Role
<1>6. CASE q \in Creations(a, w)
  <2>1. q = Plain("create", a, w) /\ OwnerOf[w] = a /\ Unused(w)
    BY <1>6 DEF Creations
  <2> QED
    BY <2>1 DEF Plain, Asked, Ask, Ops, Role
<1>7. CASE q = Plain("list", a, w)
  BY <1>7 DEF Plain, Asked, Ask, Ops, Role
<1> QED
  BY <1>3, <1>4, <1>5, <1>6, <1>7 DEF Asks

-----------------------------------------------------------------------------
(* Each step keeps the invariant.                                          *)

\* What an account holds fits it.
LEMMA HoldingFits ==
  ASSUME IInv, UNCHANGED stored, NEW r \in Request, NEW a \in Account,
         Target(r)' = a, held'[r] = Holding(a)
  PROVE  Holding(a) \in Held /\ HeldFits(r)'
<1>1. envelope' = envelope /\ version' = version
  BY DEF stored
<1>2. envelope[a] \in Envelope /\ version[a] \in Nat /\ envelope[a].revision \in Nat
  BY DEF IInv, TypeOK, Envelope
<1>3. Holding(a) = [envelope |-> envelope[a], version |-> version[a], known |-> {}, shown |-> {}]
  BY DEF Holding, Nothing
<1>4. Holding(a) \in Held
  BY <1>2, <1>3 DEF Held
<1>5. held'[r].envelope = envelope'[a] /\ held'[r].version = version'[a]
  BY <1>1, <1>3
<1> QED
  BY <1>1, <1>2, <1>4, <1>5 DEF HeldFits

LEMMA BeginKeeps ==
  ASSUME IInv, NEW r \in Request, NEW a \in Account, NEW w \in Workspace,
         NEW q \in Asks(a, w), Begin(r, q)
  PROVE  IInv'
<1>1. /\ Asked(q) /\ q.workspace = w /\ q.actor = a /\ q \in Ask
      /\ q.op = "create" => Unused(w)
  BY AskTyped DEF Asked
<1>2. /\ step[r] = "idle" /\ UNCHANGED stored
      /\ request' = [request EXCEPT ![r] = q] /\ attempt' = [attempt EXCEPT ![r] = 1]
      /\ confirmed' = confirmed /\ issued' = issued /\ backend' = backend
  BY DEF Begin
<1>3. TypeOK /\ CreatesApart
  BY DEF IInv
<1>4. /\ Forward /\ EnvelopesFit' /\ PointersAreMemberships' /\ CreatedBy(r)
      /\ \A x \in Workspace : Stored(x)' = Stored(x)
  BY <1>2, QuietFits
<1>5. ConfirmedIsListed' /\ confirmed' \subseteq Account \X Workspace
  BY <1>2, <1>4, ConfirmedStays
<1>6. issued' \subseteq Invite /\ 1 \in 0..MaxAttempts
  BY <1>2, <1>3, TeamAssumption DEF TypeOK
<1>7. request'[r] = q
  BY <1>2, <1>3 DEF TypeOK
<1>8. q.op = "create" => ~Exists(Stored(w)')
  BY <1>1, <1>4 DEF Unused
<1>9. CreatesApart'
  <2> SUFFICES ASSUME NEW s \in Request, s # r, step'[s] # "idle", q.op = "create",
                      request'[s].op = "create", request'[s].workspace = w
               PROVE  FALSE
    <3>1. \A s \in Request \ {r} : request'[s] = request[s] /\ step'[s] = step[s]
      BY <1>2, <1>3 DEF Begin, TypeOK
    <3> QED
      BY <3>1, <1>1, <1>3, <1>7 DEF CreatesApart
  <2>1. request'[s] = request[s] /\ step'[s] = step[s]
    BY <1>2, <1>3 DEF Begin, TypeOK
  <2> QED
    BY <2>1, <1>1 DEF Unused
<1>10. CASE q.op = "list"
  <2>1. /\ held' = [held EXCEPT ![r] = Listing(a)]
        /\ step' = [step EXCEPT ![r] = "readOwners"]
    BY <1>1, <1>10 DEF Begin
  <2> DEFINE mine == {x \in Workspace : MayRead(envelope[a].team[x], a)}
  <2>2. Listing(a) = [envelope |-> [EmptyEnvelope EXCEPT !.joined = envelope[a].joined],
                      version |-> 0, known |-> Own(a), shown |-> mine]
    BY DEF Listing
  <2>3. envelope[a].joined \subseteq Workspace
    BY <1>3 DEF TypeOK, Envelope
  <2>4. Listing(a) \in Held
    <3>1. [EmptyEnvelope EXCEPT !.joined = envelope[a].joined] \in Envelope
      BY <2>3, Constants, TeamAssumption DEF EmptyEnvelope, Envelope
    <3>2. Own(a) \subseteq Workspace
      BY <2>3 DEF Own
    <3> QED
      BY <2>2, <3>1, <3>2 DEF Held
  <2>5. held'[r] = Listing(a) /\ step'[r] = "readOwners"
    BY <2>1, <1>3 DEF TypeOK
  <2>6. /\ held'[r].known = Own(a) /\ held'[r].envelope.joined = envelope[a].joined
        /\ held'[r].shown = {x \in Workspace : MayRead(envelope[a].team[x], a)}
    BY <2>2, <2>5 DEF EmptyEnvelope
  <2>7. ASSUME NEW x \in Workspace, envelope[a].team[x] # NoTeam
        PROVE  OwnerOf[x] = a /\ envelope[a].team[x] = Stored(x) /\ MayRead(Stored(x), a)
    <3>1. OwnerOf[x] = a
      BY <2>7 DEF IInv, EnvelopesFit
    <3>2. TeamFits(x, Stored(x))
      BY DEF IInv, EnvelopesFit
    <3> QED
      BY <3>1, <3>2, <2>7 DEF TeamFits, Stored
  <2>8. ~Exists(NoTeam) /\ ~MayRead(NoTeam, a)
    BY DEF Exists, MayRead, NoTeam
  <2>9. held'[r].known \subseteq held'[r].shown \cup held'[r].envelope.joined
    BY <2>6, <2>7, <2>8 DEF Own
  <2>10. \A x \in held'[r].shown \cup held'[r].envelope.joined : MayRead(Stored(x)', a)
    <3>1. \A x \in envelope[a].joined : MayRead(Stored(x), a)
      BY DEF IInv, PointersAreMemberships
    <3> QED
      BY <3>1, <2>3, <2>6, <2>7, <2>8, <1>4
  <2>11. ListingFits(r)'
    BY <2>9, <2>10, <1>1, <1>7 DEF ListingFits
  <2>12. SlotFits(r)'
    BY <2>5, <2>11, <1>1, <1>7, <1>10 DEF SlotFits
  <2> QED
    BY <2>1, <2>4, <2>12, <1>1, <1>2, <1>4, <1>5, <1>6, <1>9, SlotMoves
<1>11. CASE q.op # "list"
  <2> DEFINE b == OwnerOf[w]
  <2>1. /\ held' = [held EXCEPT ![r] = Holding(b)]
        /\ step' = [step EXCEPT ![r] = "write"]
    BY <1>1, <1>11 DEF Begin
  <2>2. held'[r] = Holding(b) /\ step'[r] = "write" /\ b \in Account
    BY <2>1, <1>3, TeamAssumption DEF TypeOK
  <2>3. Target(r)' = b
    BY <2>2, <1>1, <1>7 DEF Target
  <2>4. Holding(b) \in Held /\ HeldFits(r)'
    BY <2>2, <2>3, <1>2, HoldingFits
  <2>5. SlotFits(r)'
    BY <2>2, <2>4, <1>1, <1>7, <1>8, <1>11 DEF SlotFits
  <2> QED
    BY <2>1, <2>4, <2>5, <1>1, <1>2, <1>4, <1>5, <1>6, <1>9, SlotMoves
<1> QED
  BY <1>10, <1>11

LEMMA ReadKeeps ==
  ASSUME IInv, NEW r \in Request, Read(r)
  PROVE  IInv'
<1> DEFINE a == Target(r)
           x == IF step[r] = "read" THEN "write" ELSE "writeOwn"
<1>1. TypeOK /\ SlotFits(r)
  BY DEF IInv, SlotsFit
<1>2. /\ step[r] \in {"read", "readOwn"} /\ UNCHANGED stored
      /\ held' = [held EXCEPT ![r] = Holding(a)] /\ step' = [step EXCEPT ![r] = x]
      /\ request' = request /\ attempt' = attempt
      /\ confirmed' = confirmed /\ issued' = issued /\ backend' = backend
  BY <1>1 DEF Read, TypeOK
<1>3. /\ request' = [request EXCEPT ![r] = request[r]]
      /\ attempt' = [attempt EXCEPT ![r] = attempt[r]]
      /\ request[r] \in Ask /\ attempt[r] \in 0..MaxAttempts
  BY <1>1, <1>2 DEF TypeOK
<1>4. Asked(request[r]) /\ a \in Account
  BY <1>1, <1>2, TeamAssumption DEF SlotFits, Asked, Target
<1>5. held'[r] = Holding(a) /\ step'[r] = x /\ request'[r] = request[r]
  BY <1>1, <1>2 DEF TypeOK
<1>6. Target(r)' = a
  BY <1>2, <1>5 DEF Target
<1>7. Holding(a) \in Held /\ HeldFits(r)'
  BY <1>2, <1>4, <1>5, <1>6, HoldingFits
<1>8. /\ Forward /\ EnvelopesFit' /\ PointersAreMemberships' /\ CreatedBy(r)
      /\ \A w \in Workspace : Stored(w)' = Stored(w)
  BY <1>2, QuietFits
<1>9. SlotFits(r)'
  <2>1. Stored(request[r].workspace)' = Stored(request[r].workspace)
    BY <1>4, <1>5, <1>8 DEF Asked
  <2> QED
    BY <2>1, <1>1, <1>2, <1>4, <1>5, <1>7 DEF SlotFits
<1>10. CreatesApart'
  BY <1>2, <1>3, ApartStays
<1>11. /\ ConfirmedIsListed' /\ confirmed' \subseteq Account \X Workspace
       /\ issued' \subseteq Invite
  BY <1>1, <1>2, <1>8, ConfirmedStays DEF TypeOK
<1> QED
  BY <1>2, <1>3, <1>7, <1>8, <1>9, <1>10, <1>11, SlotMoves

\* The steps that end a request and store nothing.
LEMMA QuietEndKeeps ==
  ASSUME IInv, NEW r \in Request, End(r), UNCHANGED <<backend, stored, issued, confirmed>>
  PROVE  IInv'
<1>1. UNCHANGED stored /\ issued' = issued /\ confirmed' = confirmed /\ backend' = backend
  BY DEF stored
<1>2. Forward /\ EnvelopesFit' /\ PointersAreMemberships' /\ CreatedBy(r)
  BY <1>1, QuietFits
<1>3. ConfirmedIsListed' /\ confirmed' \subseteq Account \X Workspace
  BY <1>1, <1>2, ConfirmedStays
<1>4. issued' \subseteq Invite
  BY <1>1 DEF IInv, TypeOK
<1> QED
  BY <1>1, <1>2, <1>3, <1>4, EndKeeps

LEMMA RetryKeeps ==
  ASSUME IInv, NEW r \in Request, Retry(r)
  PROVE  IInv'
<1>1. CASE Exhausted(r)
  BY <1>1, QuietEndKeeps DEF Retry
<1>2. CASE ~Exhausted(r)
  <2> DEFINE x == IF step[r] = "write" THEN "read" ELSE "readOwn"
             n == attempt[r] + 1
  <2>1. TypeOK /\ SlotFits(r)
    BY DEF IInv, SlotsFit
  <2>2. /\ step[r] \in {"write", "writeOwn"} /\ UNCHANGED stored
        /\ step' = [step EXCEPT ![r] = x] /\ attempt' = [attempt EXCEPT ![r] = n]
        /\ held' = [held EXCEPT ![r] = Nothing] /\ request' = request
        /\ confirmed' = confirmed /\ issued' = issued /\ backend' = backend
    BY <1>2, <2>1 DEF Retry, TypeOK
  <2>3. /\ request' = [request EXCEPT ![r] = request[r]] /\ request[r] \in Ask
        /\ n \in 0..MaxAttempts /\ Nothing \in Held
    BY <1>2, <2>1, <2>2, Constants, TeamAssumption DEF TypeOK, Exhausted
  <2>4. step'[r] = x /\ request'[r] = request[r]
    BY <2>1, <2>2 DEF TypeOK
  <2>5. /\ Forward /\ EnvelopesFit' /\ PointersAreMemberships' /\ CreatedBy(r)
        /\ \A w \in Workspace : Stored(w)' = Stored(w)
    BY <2>2, QuietFits
  <2>6. SlotFits(r)'
    <3>1. Asked(request[r])
      BY <2>1, <2>2 DEF SlotFits
    <3>2. Stored(request[r].workspace)' = Stored(request[r].workspace)
      BY <2>4, <2>5, <3>1 DEF Asked
    <3> QED
      BY <3>1, <3>2, <2>1, <2>2, <2>4 DEF SlotFits
  <2>7. CreatesApart'
    BY <2>2, <2>3, ApartStays
  <2>8. /\ ConfirmedIsListed' /\ confirmed' \subseteq Account \X Workspace
        /\ issued' \subseteq Invite
    BY <2>1, <2>2, <2>5, ConfirmedStays DEF TypeOK
  <2> QED
    BY <2>2, <2>3, <2>5, <2>6, <2>7, <2>8, SlotMoves
<1> QED
  BY <1>1, <1>2

LEMMA HeldParts ==
  ASSUME NEW g \in Held, NEW e, NEW s
  PROVE  [g EXCEPT !.envelope = e, !.shown = @ \cup s]
           = [envelope |-> e, version |-> g.version, known |-> g.known, shown |-> g.shown \cup s]
<1> DEFINE g1 == [g EXCEPT !.envelope = e]
<1>1. g1 = [envelope |-> e, version |-> g.version, known |-> g.known, shown |-> g.shown]
  BY DEF Held
<1> HIDE DEF g1
<1>2. [g1 EXCEPT !.shown = @ \cup s]
        = [envelope |-> e, version |-> g.version, known |-> g.known, shown |-> g.shown \cup s]
  BY <1>1
<1> QED
  BY <1>2 DEF g1

LEMMA ListOwnerKeeps ==
  ASSUME IInv, NEW r \in Request, NEW a \in Account, ListOwner(r, a)
  PROVE  IInv'
<1> DEFINE found == PointersTo(r, a)
           actor == request[r].actor
           own == held[r].envelope
           h == [envelope |-> [revision |-> own.revision, team |-> own.team,
                               joined |-> own.joined \ found],
                 version |-> held[r].version, known |-> held[r].known,
                 shown |-> held[r].shown \cup VisibleOf(r, a)]
<1>1. TypeOK /\ SlotFits(r)
  BY DEF IInv, SlotsFit
<1>2. /\ step[r] = "readOwners" /\ UNCHANGED stored
      /\ held' = [held EXCEPT ![r] = h] /\ step' = step
      /\ request' = request /\ attempt' = attempt
      /\ confirmed' = confirmed /\ issued' = issued /\ backend' = backend
  <2>1. held[r] \in Held /\ own \in Envelope
    BY <1>1 DEF TypeOK, Held
  <2>2. Unread(r, a)
          = [revision |-> own.revision, team |-> own.team, joined |-> own.joined \ found]
    BY <2>1 DEF Unread, Envelope
  <2>3. Gathered(r, a) = [envelope |-> Unread(r, a), version |-> held[r].version,
                          known |-> held[r].known,
                          shown |-> held[r].shown \cup VisibleOf(r, a)]
    BY <2>1, HeldParts DEF Gathered
  <2> QED
    BY <2>2, <2>3, <1>1 DEF ListOwner, TypeOK
<1>3. /\ request' = [request EXCEPT ![r] = request[r]] /\ step' = [step EXCEPT ![r] = step[r]]
      /\ attempt' = [attempt EXCEPT ![r] = attempt[r]]
      /\ request[r] \in Ask /\ attempt[r] \in 0..MaxAttempts /\ held[r] \in Held
  BY <1>1, <1>2 DEF TypeOK
<1>4. ListingFits(r) /\ Asked(request[r]) /\ request[r].op = "list"
  BY <1>1, <1>2 DEF SlotFits
<1>5. VisibleOf(r, a) = found /\ found \subseteq held[r].envelope.joined
  BY <1>4 DEF VisibleOf, PointersTo, ListingFits
<1>6. /\ h \in Held /\ h.known = held[r].known
      /\ h.shown = held[r].shown \cup found
      /\ h.envelope.joined = held[r].envelope.joined \ found
  BY <1>3, <1>5 DEF Held, Envelope
<1> HIDE DEF h
<1>7. held'[r] = h /\ step'[r] = step[r] /\ request'[r] = request[r]
  BY <1>1, <1>2 DEF TypeOK
<1>8. /\ Forward /\ EnvelopesFit' /\ PointersAreMemberships' /\ CreatedBy(r)
      /\ \A w \in Workspace : Stored(w)' = Stored(w)
  BY <1>2, QuietFits
<1>9. ListingFits(r)'
  <2>1. h.known \subseteq h.shown \cup h.envelope.joined
    BY <1>4, <1>6 DEF ListingFits
  <2>2. h.shown \cup h.envelope.joined = held[r].shown \cup held[r].envelope.joined
    BY <1>5, <1>6
  <2>3. held[r].shown \cup held[r].envelope.joined \subseteq Workspace
    BY <1>3 DEF Held, Envelope
  <2> QED
    BY <2>1, <2>2, <2>3, <1>4, <1>7, <1>8 DEF ListingFits
<1>10. SlotFits(r)'
  BY <1>2, <1>4, <1>7, <1>9 DEF SlotFits
<1>11. CreatesApart'
  BY <1>2, <1>3, ApartStays
<1>12. /\ ConfirmedIsListed' /\ confirmed' \subseteq Account \X Workspace
       /\ issued' \subseteq Invite
  BY <1>1, <1>2, <1>8, ConfirmedStays DEF TypeOK
<1>13. step[r] \in {"idle", "read", "write", "readOwn", "writeOwn", "readOwners"}
  BY <1>2
<1> QED
  BY <1>2, <1>3, <1>6, <1>8, <1>10, <1>11, <1>12, <1>13, SlotMoves

LEMMA WriteFailsKeeps ==
  ASSUME IInv, NEW r \in Request, NEW lands \in BOOLEAN, WriteFails(r, lands)
  PROVE  IInv'
<1>1. CASE lands
  <2>1. /\ Puts(r) /\ End(r)
        /\ backend' = backend /\ issued' = issued /\ confirmed' = confirmed
    BY <1>1 DEF WriteFails, Puts, Outgoing
  <2>2. Forward /\ EnvelopesFit' /\ PointersAreMemberships' /\ CreatedBy(r)
    BY <2>1, PutsFit, PutsCreate
  <2>3. /\ ConfirmedIsListed' /\ confirmed' \subseteq Account \X Workspace
        /\ issued' \subseteq Invite
    BY <2>1, <2>2, ConfirmedStays DEF IInv, TypeOK
  <2> QED
    BY <2>1, <2>2, <2>3, EndKeeps
<1>2. CASE ~lands
  BY <1>2, QuietEndKeeps DEF WriteFails
<1> QED
  BY <1>1, <1>2

LEMMA WriteOwnKeeps ==
  ASSUME IInv, NEW r \in Request, WriteOwn(r)
  PROVE  IInv'
<1> DEFINE q == request[r]
<1>1. TypeOK /\ SlotFits(r)
  BY DEF IInv, SlotsFit
<1>2. /\ step[r] = "writeOwn" /\ Puts(r) /\ End(r)
      /\ backend' = backend /\ issued' = issued /\ Confirm(q, "accepted")
  BY DEF WriteOwn, Puts, Outgoing
<1>3. /\ Forward /\ EnvelopesFit' /\ PointersAreMemberships' /\ CreatedBy(r)
      /\ q.workspace \in envelope'[q.actor].joined
  BY <1>2, PutsFit, PutsCreate
<1>4. Asked(q) /\ q.actor \in Account /\ q.workspace \in Workspace
  BY <1>1, <1>2 DEF SlotFits, Asked
<1>5. confirmed' \subseteq confirmed \cup {<<q.actor, q.workspace>>}
  BY <1>2 DEF Confirm
<1>6. confirmed' \subseteq Account \X Workspace /\ issued' \subseteq Invite
  BY <1>1, <1>2, <1>4, <1>5 DEF TypeOK
<1>7. ConfirmedIsListed'
  <2> SUFFICES ASSUME NEW c \in confirmed'
               PROVE  c[2] \in envelope'[c[1]].joined
    BY DEF ConfirmedIsListed
  <2>1. CASE c \in confirmed
    <3>1. c[1] \in Account /\ c[2] \in envelope[c[1]].joined
      BY <2>1, <1>1 DEF TypeOK, IInv, ConfirmedIsListed
    <3> QED
      BY <3>1, <1>3 DEF Forward
  <2>2. CASE c = <<q.actor, q.workspace>>
    BY <2>2, <1>3
  <2> QED
    BY <2>1, <2>2, <1>5
<1> QED
  BY <1>2, <1>3, <1>6, <1>7, EndKeeps

\* What an acceptance makes of the workspace.
LEMMA AcceptedFacts ==
  ASSUME TeamAssumption, NEW q, Asked(q), q.op = "accept", NEW t \in Team,
         TeamFits(q.workspace, t), Tells(q, t, "accepted")
  PROVE  LET i == q.invite
             u == Bumped(Change(q, t)) IN
         /\ u.role = [t.role EXCEPT ![q.actor] = IF @ = "none" THEN t.invite[i].role ELSE @]
         /\ u.invite[i].by = q.actor
         /\ t.invite[i].role \in Given
         /\ MayRead(u, q.actor)
<1> DEFINE i == q.invite
           u == Bumped(Change(q, t))
<1>1. /\ i \in Invite /\ q.actor \in Account /\ t.invite[i].there
      /\ t.role \in [Account -> Role] /\ t.invite \in [Invite -> InviteState]
  BY DEF Tells, Asked, Team
<1>2. t.invite[i].role \in Given
  BY <1>1 DEF TeamFits
<1>3. Change(q, t) = [t EXCEPT !.role[q.actor] = IF @ = "none" THEN t.invite[i].role ELSE @,
                               !.invite[i].by = q.actor]
  BY DEF Change, Accepting
<1> DEFINE role == [t.role EXCEPT ![q.actor] = IF @ = "none" THEN t.invite[i].role ELSE @]
           invite == [t.invite EXCEPT ![i] = [@ EXCEPT !.by = q.actor]]
<1>4. Change(q, t) = [revision |-> t.revision, role |-> role, invite |-> invite,
                      project |-> t.project]
  <2>1. Change(q, t) = [t EXCEPT !.role = role, !.invite = invite]
    BY <1>1, <1>3 DEF Team
  <2> HIDE DEF role, invite
  <2> QED
    BY <2>1 DEF Team
<1>5. u.role = role /\ u.invite = invite
  <2> HIDE DEF role, invite
  <2> QED
    BY <1>4 DEF Bumped
<1>6. u.invite[i].by = q.actor
  BY <1>1, <1>5 DEF InviteState
<1>7. MayRead(u, q.actor)
  BY <1>1, <1>2, <1>5 DEF MayRead, Given
<1> QED
  BY <1>2, <1>5, <1>6, <1>7

LEMMA WriteKeeps ==
  ASSUME IInv, NEW r \in Request, Write(r)
  PROVE  IInv'
<1> DEFINE q == request[r]
           w == q.workspace
           answer == Outcome(q, held[r].envelope)
<1>1. TypeOK /\ SlotFits(r)
  BY DEF IInv, SlotsFit
<1>2. /\ step[r] = "write" /\ Puts(r) /\ Unmoved(r) /\ backend' = backend
  BY DEF Write, Puts, Outgoing
<1>3. /\ Forward /\ Moves(r) /\ EnvelopesFit' /\ PointersAreMemberships' /\ CreatedBy(r)
  BY <1>2, PutsFit, PutsCreate
<1>4. /\ Asked(q) /\ q.op # "list" /\ w \in Workspace /\ q.actor \in Account
      /\ q \in Ask
  BY <1>1, <1>2 DEF SlotFits, Asked
<1>5. answer = Outcome(q, envelope[OwnerOf[w]]) /\ Stored(w) = envelope[OwnerOf[w]].team[w]
  BY <1>2, HeldIsStored DEF Target, Stored
<1>6. Tells(q, Stored(w), answer)
  BY <1>4, <1>5, OutcomeTells
<1>7. Stored(w) \in Team /\ TeamFits(w, Stored(w))
  BY <1>1, <1>4, TeamAssumption DEF TypeOK, Envelope, Stored, IInv, EnvelopesFit
<1> HIDE DEF answer
<1>8. issued' \subseteq Invite
  <2>1. q.op = "invite" => q.invite \in Invite
    BY <1>4 DEF Asked
  <2> QED
    BY <2>1, <1>1 DEF Write, TypeOK
<1>9. CASE Joins(q, answer)
  <2>1. /\ step' = [step EXCEPT ![r] = "readOwn"] /\ attempt' = [attempt EXCEPT ![r] = 1]
        /\ held' = [held EXCEPT ![r] = Nothing]
        /\ request' = request /\ confirmed' = confirmed
    BY <1>9 DEF Write, answer
  <2>2. /\ request' = [request EXCEPT ![r] = q] /\ 1 \in 0..MaxAttempts /\ Nothing \in Held
    BY <1>1, <2>1, Constants, TeamAssumption DEF TypeOK
  <2>3. step'[r] = "readOwn" /\ request'[r] = q
    BY <1>1, <2>1 DEF TypeOK
  <2>4. /\ answer \in {"accepted", "already-accepted"} /\ q.actor # OwnerOf[w]
        /\ q.op = "accept"
    BY <1>6, <1>9 DEF Joins, Tells
  <2>5. MayRead(Stored(w)', q.actor)
    <3>1. CASE answer = "accepted"
      <4>1. Stored(w)' = Bumped(Change(q, Stored(w)))
        BY <3>1, <2>3, <1>2, <1>3, <1>4, <1>5 DEF Moves, Succeeds
      <4> QED
        BY <4>1, <3>1, <2>4, <1>4, <1>6, <1>7, AcceptedFacts, TeamAssumption
    <3>2. CASE answer = "already-accepted"
      <4>1. MayRead(Stored(w), q.actor)
        <5>1. /\ q.invite \in Invite /\ Stored(w).invite[q.invite].there
              /\ Stored(w).invite[q.invite].by = q.actor
          BY <3>2, <2>4, <1>4, <1>6 DEF Tells, Asked
        <5> QED
          BY <5>1, <1>4, <1>7, TeamAssumption DEF TeamFits
      <4> QED
        BY <4>1, <2>3, <1>3, <1>4 DEF Forward
    <3> QED
      BY <3>1, <3>2, <2>4
  <2>6. SlotFits(r)'
    BY <2>3, <2>4, <2>5, <1>4 DEF SlotFits
  <2>7. CreatesApart'
    BY <2>1, <2>2, <1>2, ApartStays
  <2>8. ConfirmedIsListed' /\ confirmed' \subseteq Account \X Workspace
    BY <2>1, <1>3, ConfirmedStays
  <2> QED
    BY <2>1, <2>2, <2>6, <2>7, <2>8, <1>2, <1>3, <1>4, <1>8, SlotMoves
<1>10. CASE ~Joins(q, answer)
  <2>1. End(r) /\ Confirm(q, answer)
    BY <1>10 DEF Write, answer
  <2>2. confirmed' = confirmed
    BY <2>1, <1>10 DEF Confirm, Joins
  <2>3. ConfirmedIsListed' /\ confirmed' \subseteq Account \X Workspace
    BY <2>2, <1>3, ConfirmedStays
  <2> QED
    BY <2>1, <2>3, <1>2, <1>3, <1>8, EndKeeps
<1> QED
  BY <1>9, <1>10

-----------------------------------------------------------------------------
(* The theorems.                                                           *)

\* In the first states nothing is stored and every request slot is idle.
THEOREM InitInv == Init => IInv
<1> SUFFICES ASSUME Init
             PROVE  IInv
  OBVIOUS
<1>1. /\ NoTeam \in Team /\ EmptyEnvelope \in Envelope /\ Nothing \in Held /\ NoAsk \in Ask
  BY Constants, TeamAssumption
<1>2. /\ envelope = [a \in Account |-> EmptyEnvelope]
      /\ \A a \in Account : envelope[a].joined = {}
      /\ \A a \in Account, w \in Workspace : envelope[a].team[w] = NoTeam
  BY DEF Init, EmptyEnvelope
<1>3. \A w \in Workspace : Stored(w) = NoTeam
  BY <1>2, TeamAssumption DEF Stored
<1>4. TypeOK
  BY <1>1, TeamAssumption DEF Init, TypeOK
<1>5. \A r \in Request : step[r] = "idle"
  BY DEF Init
<1>6. SlotsFit
  BY <1>5 DEF SlotsFit, SlotFits
<1>7. CreatesApart
  BY <1>5 DEF CreatesApart
<1>8. \A w \in Workspace : TeamFits(w, NoTeam)
  <2>1. Collaborators(NoTeam) = {}
    BY DEF Collaborators, NoTeam
  <2>2. IsFiniteSet(Collaborators(NoTeam))
    BY <2>1, FS_EmptySet
  <2> QED
    BY <2>2 DEF TeamFits, Exists, NoTeam, NoInvite
<1>9. EnvelopesFit
  BY <1>2, <1>3, <1>8 DEF EnvelopesFit
<1>10. PointersAreMemberships
  BY <1>2 DEF PointersAreMemberships
<1>11. ConfirmedIsListed
  BY DEF Init, ConfirmedIsListed
<1> QED
  BY <1>4, <1>6, <1>7, <1>9, <1>10, <1>11 DEF IInv

LEMMA StepKeeps ==
  ASSUME IInv, NEW r \in Request, Step(r)
  PROVE  IInv'
<1>1. CASE Read(r)
  BY <1>1, ReadKeeps
<1>2. CASE ReadFails(r)
  BY <1>2, QuietEndKeeps DEF ReadFails
<1>3. CASE Throws(r)
  BY <1>3, QuietEndKeeps DEF Throws
<1>4. CASE Write(r)
  BY <1>4, WriteKeeps
<1>5. CASE WriteOwn(r)
  BY <1>5, WriteOwnKeeps
<1>6. CASE Retry(r)
  BY <1>6, RetryKeeps
<1>7. CASE \E lands \in BOOLEAN : WriteFails(r, lands)
  BY <1>7, WriteFailsKeeps
<1>8. CASE ListEnd(r)
  BY <1>8, QuietEndKeeps DEF ListEnd
<1>9. CASE \E a \in Account : ListOwner(r, a)
  BY <1>9, ListOwnerKeeps
<1> QED
  BY <1>1, <1>2, <1>3, <1>4, <1>5, <1>6, <1>7, <1>8, <1>9 DEF Step

LEMMA StutterKeeps ==
  ASSUME IInv, UNCHANGED vars
  PROVE  IInv'
<1>1. /\ backend' = backend /\ envelope' = envelope /\ version' = version
      /\ issued' = issued /\ request' = request /\ step' = step /\ held' = held
      /\ attempt' = attempt /\ confirmed' = confirmed /\ UNCHANGED stored
  BY DEF vars, stored
<1>2. TypeOK'
  BY <1>1 DEF IInv, TypeOK
<1>3. Forward /\ EnvelopesFit' /\ PointersAreMemberships'
  BY <1>1, QuietFits
<1>4. SlotsFit'
  <2> SUFFICES ASSUME NEW s \in Request
               PROVE  SlotFits(s)'
    BY DEF SlotsFit
  <2>1. step[s] # "idle" /\ request[s].op = "create" =>
          ~Exists(Stored(request[s].workspace)')
    <3> SUFFICES ASSUME step[s] # "idle", request[s].op = "create"
                 PROVE  ~Exists(Stored(request[s].workspace)')
      OBVIOUS
    <3>1. /\ request[s].workspace \in Workspace
          /\ ~Exists(Stored(request[s].workspace))
      BY DEF IInv, SlotsFit, SlotFits, Asked
    <3>2. \A w \in Workspace : Stored(w)' = Stored(w)
      BY <1>1, QuietFits
    <3> QED
      BY <3>1, <3>2, <1>1
  <2> QED
    BY <2>1, <1>1, <1>3, SlotStays
<1>5. CreatesApart'
  BY <1>1 DEF IInv, CreatesApart
<1>6. ConfirmedIsListed'
  BY <1>1, <1>3, ConfirmedStays
<1> QED
  BY <1>2, <1>3, <1>4, <1>5, <1>6 DEF IInv

THEOREM StepInv == IInv /\ [Next]_vars => IInv'
<1> SUFFICES ASSUME IInv, [Next]_vars
             PROVE  IInv'
  OBVIOUS
<1>1. CASE \E r \in Request, a \in Account, w \in Workspace : \E q \in Asks(a, w) : Begin(r, q)
  BY <1>1, BeginKeeps
<1>2. CASE \E r \in Request : Step(r)
  BY <1>2, StepKeeps
<1>3. CASE UNCHANGED vars
  BY <1>3, StutterKeeps
<1> QED
  BY <1>1, <1>2, <1>3 DEF Next

\* The invariant the theorems below rest on: what every request under way knows of the
\* envelopes, and what every envelope holds.
THEOREM Invariant == Spec => []IInv
<1>1. Init => IInv
  BY InitInv
<1>2. IInv /\ [Next]_vars => IInv'
  BY StepInv
<1> QED
  BY <1>1, <1>2, PTL DEF Spec

\* Every variable keeps its type.
THEOREM TypeCorrect == Spec => []TypeOK
<1>1. IInv => TypeOK
  BY DEF IInv
<1> QED
  BY <1>1, Invariant, PTL

\* Every pointer of an account leads to a workspace that lists it as a member, whatever
\* stops an acceptance between its two envelopes (acceptTeamWorkspaceInvite).
THEOREM PointersStayMemberships == Spec => []PointersAreMemberships
<1>1. IInv => PointersAreMemberships
  BY DEF IInv
<1> QED
  BY <1>1, Invariant, PTL

\* A member whose acceptance was answered has the pointer, for good.
THEOREM ConfirmedStaysListed == Spec => []ConfirmedIsListed
<1>1. IInv => ConfirmedIsListed
  BY DEF IInv
<1> QED
  BY <1>1, Invariant, PTL

\* A finished listing has all that the member had when it began and nothing else's
\* (listTeamWorkspacesForMember), with any number of owners read one after the other.
THEOREM ListingsStayExact == Spec => []ListingIsExact
<1>1. IInv => ListingIsExact
  <2> SUFFICES ASSUME IInv, NEW r \in Request,
                      step[r] = "readOwners", held[r].envelope.joined = {}
               PROVE  /\ held[r].known \subseteq held[r].shown
                      /\ \A w \in held[r].shown : MayRead(Stored(w), request[r].actor)
    BY DEF ListingIsExact
  <2>1. ListingFits(r)
    BY DEF IInv, SlotsFit, SlotFits
  <2> QED
    BY <2>1 DEF ListingFits
<1> QED
  BY <1>1, Invariant, PTL

\* A step leaves every workspace as it was, or is a stored write of one request, which
\* is then no longer at that write.
LEMMA NextPuts ==
  ASSUME IInv, Next
  PROVE  \/ \A w \in Workspace : Stored(w)' = Stored(w)
         \/ \E r \in Request : Puts(r) /\ Moves(r) /\ step'[r] # "write"
<1>1. TypeOK
  BY DEF IInv
<1>2. CASE UNCHANGED stored
  BY <1>2, QuietFits
<1>3. ASSUME NEW r \in Request, Step(r), ~UNCHANGED stored
      PROVE  Puts(r) /\ Moves(r) /\ step'[r] # "write"
  <2>1. CASE Write(r)
    <3>1. Puts(r)
      BY <2>1 DEF Write, Puts, Outgoing
    <3>2. step'[r] # "write"
      BY <2>1, <1>1 DEF Write, End, TypeOK
    <3> QED
      BY <3>1, <3>2, PutsFit
  <2>2. CASE WriteOwn(r)
    <3>1. Puts(r) /\ End(r)
      BY <2>2 DEF WriteOwn, Puts, Outgoing
    <3>2. step'[r] # "write"
      BY <3>1, <1>1 DEF End, TypeOK
    <3> QED
      BY <3>1, <3>2, PutsFit
  <2>3. CASE \E lands \in BOOLEAN : WriteFails(r, lands)
    <3>1. Puts(r) /\ End(r)
      BY <2>3, <1>3 DEF WriteFails, Puts, Outgoing
    <3>2. step'[r] # "write"
      BY <3>1, <1>1 DEF End, TypeOK
    <3> QED
      BY <3>1, <3>2, PutsFit
  <2>4. ~(Read(r) \/ ReadFails(r) \/ Throws(r) \/ Retry(r) \/ ListEnd(r)
            \/ \E a \in Account : ListOwner(r, a))
    BY <1>3 DEF Read, ReadFails, Throws, Retry, ListEnd, ListOwner
  <2> QED
    BY <2>1, <2>2, <2>3, <2>4, <1>3 DEF Step
<1>4. CASE \E r \in Request, a \in Account, w \in Workspace : \E q \in Asks(a, w) : Begin(r, q)
  <2>1. UNCHANGED stored
    BY <1>4 DEF Begin
  <2> QED
    BY <2>1, <1>2
<1> QED
  BY <1>2, <1>3, <1>4 DEF Next

\* What is known of a request that succeeds.
LEMMA SucceedsTells ==
  ASSUME IInv, NEW r \in Request, NEW w \in Workspace, Succeeds(r, w)
  PROVE  LET q == request[r] IN
         /\ Asked(q) /\ q.op # "list" /\ q.workspace = w
         /\ Stored(w) \in Team /\ TeamFits(w, Stored(w))
         /\ q.op = "create" => ~Exists(Stored(w))
         /\ IF q.op = "accept" THEN Tells(q, Stored(w), "accepted")
            ELSE Tells(q, Stored(w), "saved")
         /\ \E answer \in {"saved", "accepted"} : Tells(q, Stored(w), answer)
<1> DEFINE q == request[r]
           answer == Outcome(q, envelope[OwnerOf[w]])
<1>1. SlotFits(r) /\ step[r] = "write" /\ q.workspace = w /\ answer \in {"saved", "accepted"}
  BY DEF Succeeds, IInv, SlotsFit
<1>2. Asked(q) /\ q.op # "list" /\ (q.op = "create" => ~Exists(Stored(w)))
  BY <1>1 DEF SlotFits
<1>3. Stored(w) \in Team /\ TeamFits(w, Stored(w))
  BY TeamAssumption DEF IInv, TypeOK, Envelope, Stored, EnvelopesFit
<1>4. Tells(q, Stored(w), answer)
  BY <1>1, <1>2, OutcomeTells DEF Stored
<1> HIDE DEF answer
<1>5. q.op = "accept" => answer = "accepted"
  BY <1>1, <1>4 DEF Tells
<1>6. q.op # "accept" => answer = "saved"
  BY <1>1, <1>4 DEF Tells
<1> QED
  BY <1>1, <1>2, <1>3, <1>4, <1>5, <1>6

LEMMA BumpedParts ==
  ASSUME NEW c
  PROVE  /\ Bumped(c).role = c.role /\ Bumped(c).invite = c.invite
BY DEF Bumped

\* A success that admits a collaborator takes an invite for it.
LEMMA SuccessAdmits ==
  ASSUME IInv, NEW r \in Request, NEW w \in Workspace, Succeeds(r, w), Moves(r),
         NEW a \in Collaborators(Stored(w)') \ Collaborators(Stored(w))
  PROVE  AdmittedBy(w, a)
<1> DEFINE q == request[r]
           t == Stored(w)
           u == Stored(w)'
           i == q.invite
<1>1. /\ Asked(q) /\ q.op # "list" /\ q.workspace = w /\ t \in Team /\ TeamFits(w, t)
      /\ q.op = "create" => ~Exists(t)
      /\ IF q.op = "accept" THEN Tells(q, t, "accepted") ELSE Tells(q, t, "saved")
  BY SucceedsTells
<1>2. u = Bumped(Change(q, t)) /\ Follows(w, t, u)
  BY DEF Moves
<1>3. /\ a \in Account /\ u.role[a] \in Given /\ t.role[a] \notin Given
      /\ t.role \in [Account -> Role] /\ t.invite \in [Invite -> InviteState]
      /\ q.actor \in Account
  BY <1>1 DEF Collaborators, Given, Team, Asked
<1>4. u.role = Change(q, t).role
  BY <1>2, BumpedParts
<1>5. q.op \in {"create", "update", "invite", "role", "project", "accept"}
  BY <1>1 DEF Asked, Ask, Ops
<1>6. CASE q.op = "create"
  <2>1. Change(q, t).role = [t.role EXCEPT ![q.actor] = "owner"]
    BY <1>1, <1>6 DEF Change, Team
  <2> QED
    BY <2>1, <1>3, <1>4 DEF Given
<1>7. CASE q.op \in {"update", "project", "invite"}
  <2>1. Change(q, t).role = t.role
    BY <1>1, <1>7 DEF Change, Team
  <2> QED
    BY <2>1, <1>3, <1>4
<1>8. CASE q.op = "role"
  <2>1. Change(q, t).role = [t.role EXCEPT ![q.member] = q.role]
    BY <1>1, <1>8 DEF Change, Team
  <2>2. q.member \in Collaborators(t)
    BY <1>1, <1>8 DEF Tells
  <2>3. t.role[q.member] \in Given
    BY <2>2 DEF Collaborators, Given
  <2> QED
    BY <2>1, <2>3, <1>3, <1>4
<1>9. CASE q.op = "accept"
  <2>1. /\ u.role = [t.role EXCEPT ![q.actor] = IF @ = "none" THEN t.invite[i].role ELSE @]
        /\ u.invite[i].by = q.actor
    BY <1>1, <1>2, <1>9, AcceptedFacts, TeamAssumption
  <2>2. a = q.actor /\ t.role[a] = "none" /\ u.role[a] = t.invite[i].role
    BY <2>1, <1>3
  <2>3. /\ i \in Invite /\ t.invite[i].there /\ t.invite[i].by = NoOne
        /\ ~Full(q, t, t.invite[i])
    BY <1>1, <1>9 DEF Tells, Asked
  <2>4. /\ t.invite[i].limit \in Nat /\ q.limit \in Nat
    BY <2>3, <1>1, <1>3 DEF InviteState, Asked, Ask
  <2>5. ~(Cardinality(Collaborators(t)) >= Smaller(t.invite[i].limit, q.limit))
    BY <2>2, <2>3 DEF Full, MayRead
  <2>6. IsFiniteSet(Collaborators(t)) /\ Cardinality(Collaborators(t)) \in Nat
    BY <1>1, FS_CardinalityType DEF TeamFits
  <2>7. Cardinality(Collaborators(t)) + 1 <= t.invite[i].limit
    BY <2>4, <2>5, <2>6 DEF Smaller
  <2>8. Collaborators(u) = Collaborators(t) \cup {a} /\ a \notin Collaborators(t)
    BY <2>1, <2>2, <1>3 DEF Collaborators, Given
  <2>9. Cardinality(Collaborators(u)) <= t.invite[i].limit
    BY <2>6, <2>7, <2>8, FS_AddElement
  <2> QED
    BY <2>1, <2>2, <2>3, <2>9 DEF AdmittedBy
<1> QED
  BY <1>5, <1>6, <1>7, <1>8, <1>9

\* Nobody becomes a collaborator but by an invite of its own, and no more do than the
\* invite allows, however many acceptances run at once.
THEOREM AdmissionsAlwaysTakeInvites == Spec => AdmissionsTakeInvites
<1>1. ASSUME IInv, Next, NEW w \in Workspace,
             NEW a \in Collaborators(Stored(w)') \ Collaborators(Stored(w))
      PROVE  AdmittedBy(w, a)
  <2>1. Stored(w)' # Stored(w)
    OBVIOUS
  <2>2. PICK r \in Request : Puts(r) /\ Moves(r)
    BY <1>1, <2>1, NextPuts
  <2>3. Succeeds(r, w)
    BY <2>1, <2>2 DEF Moves
  <2> QED
    BY <1>1, <2>2, <2>3, SuccessAdmits
<1>2. IInv /\ [Next]_vars =>
        [\A w \in Workspace : \A a \in Collaborators(Stored(w)') \ Collaborators(Stored(w)) :
           AdmittedBy(w, a)]_vars
  BY <1>1
<1> QED
  BY <1>2, Invariant, PTL DEF Spec, AdmissionsTakeInvites

\* Every change of a workspace is made on the revision its request named, by an actor whose
\* role allows it at that moment: the check in memory holds for what is stored.
THEOREM ChangesStayAllowed == Spec => ChangesAreAllowed
<1>1. ASSUME IInv, Next, NEW w \in Workspace, Stored(w)' # Stored(w)
      PROVE  /\ Stored(w)'.revision = Stored(w).revision + 1
             /\ \E r \in Request : /\ step[r] = "write" /\ step[r]' # "write"
                                   /\ request[r].workspace = w
                                   /\ Allowed(request[r], Stored(w))
  <2>1. PICK r \in Request : Puts(r) /\ Moves(r) /\ step'[r] # "write"
    BY <1>1, NextPuts
  <2>2. Succeeds(r, w)
    BY <1>1, <2>1 DEF Moves
  <2>3. Stored(w)'.revision = Stored(w).revision + 1
    BY <2>1, <2>2 DEF Moves, Follows
  <2> DEFINE q == request[r]
             t == Stored(w)
  <2>4. /\ Asked(q) /\ q.op # "list" /\ q.workspace = w /\ TeamFits(w, t)
        /\ q.op = "create" => ~Exists(t)
        /\ IF q.op = "accept" THEN Tells(q, t, "accepted") ELSE Tells(q, t, "saved")
    BY <1>1, <2>2, SucceedsTells
  <2>5. q.op = "accept" => Exists(t)
    <3> SUFFICES ASSUME q.op = "accept", t = NoTeam
                 PROVE  FALSE
      BY <2>4 DEF TeamFits
    <3>1. q.invite \in Invite /\ t.invite[q.invite].there
      BY <2>4 DEF Tells, Asked
    <3> QED
      BY <3>1 DEF NoTeam, NoInvite
  <2>6. q.op \in {"create", "update", "invite", "role", "project", "accept"}
    BY <2>4 DEF Asked, Ask, Ops
  <2> HIDE DEF q, t
  <2>7. Allowed(q, t)
    BY <2>4, <2>5, <2>6 DEF Allowed, Tells
  <2> QED
    BY <2>1, <2>2, <2>3, <2>7 DEF Succeeds, q, t
<1>2. IInv /\ [Next]_vars =>
        [\A w \in Workspace : Stored(w)' # Stored(w) =>
           /\ Stored(w)'.revision = Stored(w).revision + 1
           /\ \E r \in Request : /\ step[r] = "write" /\ step[r]' # "write"
                                 /\ request[r].workspace = w
                                 /\ Allowed(request[r], Stored(w))]_vars
  BY <1>1
<1> QED
  BY <1>2, Invariant, PTL DEF Spec, ChangesAreAllowed
=============================================================================
