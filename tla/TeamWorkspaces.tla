---------------------------- MODULE TeamWorkspaces ----------------------------
(***************************************************************************)
(* Team workspaces (db/team-workspaces.ts).  Each account has one stored   *)
(* envelope with the workspaces it owns and pointers to those it joined.   *)
(* A request reads an envelope, changes it in memory and writes it back    *)
(* with a compare-and-swap, on the revision (D1) or on the etag (Blob);    *)
(* accepting an invite does so twice, on the owner's envelope and then on  *)
(* the member's.  Names, sizes and times are not modelled, ids are fresh.  *)
(***************************************************************************)
EXTENDS Naturals, FiniteSets

CONSTANTS Request, Account, Workspace, OwnerOf, Invite, WorkspaceOf, Project, NoOne,
          Limit,           \* collaborator entitlements a request may carry
          MaxWorkspaces, MaxPending, MaxProjects, MaxAttempts,
          MaxVersion       \* bounds the writes of an envelope

VARIABLES backend,    \* "d1" or "blob"
          envelope,   \* per account: what is stored under it
          version,    \* per account: how often it was written; 0 is no row and no blob
          issued,     \* the invites whose capability was handed out
          request,    \* per request slot: what it asks
          step,       \* per request slot: its next storage call
          held,       \* per request slot: the envelope it read, with its version
          attempt,    \* per request slot: the attempts its loop has spent
          confirmed   \* the <<account, workspace>> whose acceptance was answered

stored == <<envelope, version>>
vars == <<backend, envelope, version, issued, request, step, held, attempt, confirmed>>

ASSUME TeamAssumption ==
  /\ Account # {} /\ Workspace # {} /\ Invite # {} /\ Project # {} /\ Limit # {}
  /\ NoOne \notin Account \cup Invite \cup Project
  /\ OwnerOf \in [Workspace -> Account]
  /\ WorkspaceOf \in [Invite -> Workspace]
  /\ Limit \subseteq Nat
  /\ MaxWorkspaces \in Nat /\ MaxPending \in Nat /\ MaxProjects \in Nat
  /\ MaxAttempts \in Nat \ {0} /\ MaxVersion \in Nat

Role == {"none", "owner", "editor", "viewer"}
InviteState == [there : BOOLEAN, role : Role, limit : Nat, by : Account \cup {NoOne}]
NoInvite == [there |-> FALSE, role |-> "none", limit |-> 0, by |-> NoOne]

Team == [revision : Nat, role : [Account -> Role],
         invite : [Invite -> InviteState], project : [Project -> Nat]]
NoTeam == [revision |-> 0, role |-> [a \in Account |-> "none"],
           invite |-> [i \in Invite |-> NoInvite], project |-> [p \in Project |-> 0]]

Envelope == [revision : Nat, team : [Workspace -> Team], joined : SUBSET Workspace]
EmptyEnvelope == [revision |-> 0, team |-> [w \in Workspace |-> NoTeam], joined |-> {}]

\* The stored workspace, in its owner's envelope.
Stored(w) == envelope[OwnerOf[w]].team[w]

Exists(t) == t.revision # 0
Collaborators(t) == {a \in Account : t.role[a] \in {"editor", "viewer"}}

\* teamPermission: what each role may do.
MayRead(t, a) == t.role[a] # "none"
MayWrite(t, a) == t.role[a] \in {"owner", "editor"}
MayManage(t, a) == t.role[a] = "owner"

Ops == {"create", "update", "invite", "role", "project", "accept", "list"}
Ask == [op : Ops, actor : Account \cup {NoOne}, workspace : Workspace \cup {NoOne},
        expected : Nat, role : Role, invite : Invite \cup {NoOne}, limit : Nat,
        member : Account \cup {NoOne}, project : Project \cup {NoOne},
        expectedProject : Nat, expired : SUBSET Invite]
Held == [envelope : Envelope, version : Nat,
         known : SUBSET Workspace, shown : SUBSET Workspace]
Nothing == [envelope |-> EmptyEnvelope, version |-> 0, known |-> {}, shown |-> {}]

TypeOK ==
  /\ backend \in {"d1", "blob"}
  /\ envelope \in [Account -> Envelope]
  /\ version \in [Account -> Nat]
  /\ issued \subseteq Invite
  /\ request \in [Request -> Ask]
  /\ step \in [Request -> {"idle", "read", "write", "readOwn", "writeOwn", "readOwners"}]
  /\ held \in [Request -> Held]
  /\ attempt \in [Request -> 0..MaxAttempts]
  /\ confirmed \subseteq Account \X Workspace

Plain(op, a, w) ==
  [op |-> op, actor |-> a, workspace |-> w, expected |-> 0, role |-> "none",
   invite |-> NoOne, limit |-> 0, member |-> NoOne,
   project |-> NoOne, expectedProject |-> 0, expired |-> {}]
NoAsk == Plain("list", NoOne, NoOne)

Init ==
  /\ backend \in {"d1", "blob"}
  /\ envelope = [a \in Account |-> EmptyEnvelope]
  /\ version = [a \in Account |-> 0]
  /\ issued = {}
  /\ request = [r \in Request |-> NoAsk]
  /\ step = [r \in Request |-> "idle"]
  /\ held = [r \in Request |-> Nothing]
  /\ attempt = [r \in Request |-> 0]
  /\ confirmed = {}

-----------------------------------------------------------------------------
(* What a request makes of the envelope it read.                           *)

Expected(q, t) == t.revision = q.expected

\* The invites of t that a new one leaves: those not expired at the time of q.
Kept(q, t) == [i \in Invite |-> IF i \in q.expired THEN NoInvite ELSE t.invite[i]]
Pending(invites) == {i \in Invite : invites[i].there /\ invites[i].by = NoOne}
Shared(t) == {p \in Project : t.project[p] # 0}
Smaller(m, n) == IF m < n THEN m ELSE n

\* The checks every change of an existing workspace begins with.
Checked(q, t, may, otherwise) ==
  CASE ~Exists(t) -> "not-found"
    [] Exists(t) /\ ~may -> "forbidden"
    [] Exists(t) /\ may /\ ~Expected(q, t) -> "conflict"
    [] OTHER -> otherwise

\* Mutant: an invite is good for whoever presents it.
NeverTaken(q, i) == FALSE

\* The invite was accepted by somebody else.
Taken(q, i) == i.by \notin {NoOne, q.actor}

\* A new collaborator must fit into what the invite and the request allow.
Full(q, t, i) ==
  /\ ~MayRead(t, q.actor)
  /\ Cardinality(Collaborators(t)) >= Smaller(i.limit, q.limit)

AcceptOutcome(q, t) ==
  LET i == t.invite[q.invite] IN
  CASE ~i.there \/ Taken(q, i) -> "not-found"
    [] i.there /\ i.by = q.actor -> "already-accepted"
    [] OTHER -> IF Full(q, t, i) THEN "invalid" ELSE "accepted"

CreateOutcome(q, e) ==
  IF Cardinality({w \in Workspace : Exists(e.team[w])}) >= MaxWorkspaces
  THEN "invalid" ELSE "saved"

InviteOutcome(q, t) ==
  IF \/ Cardinality(Collaborators(t)) >= q.limit
     \/ Cardinality(Pending(Kept(q, t))) >= MaxPending
  THEN "invalid" ELSE "saved"

ProjectOutcome(q, t) ==
  IF t.project[q.project] # q.expectedProject THEN "conflict"
  ELSE IF t.project[q.project] = 0 /\ Cardinality(Shared(t)) >= MaxProjects THEN "invalid"
  ELSE "saved"

Outcome(q, e) ==
  LET t == e.team[q.workspace] IN
  CASE q.op = "create" -> CreateOutcome(q, e)
    [] q.op = "accept" -> AcceptOutcome(q, t)
    [] q.op = "update" -> Checked(q, t, MayWrite(t, q.actor), "saved")
    [] q.op = "project" -> Checked(q, t, MayWrite(t, q.actor), ProjectOutcome(q, t))
    [] q.op = "invite" -> Checked(q, t, MayManage(t, q.actor), InviteOutcome(q, t))
    [] OTHER -> Checked(q, t, MayManage(t, q.actor),
                  IF q.member \in Collaborators(t) THEN "saved" ELSE "not-found")

Inviting(q, t) ==
  [Kept(q, t) EXCEPT ![q.invite] =
     [there |-> TRUE, role |-> q.role, limit |-> q.limit, by |-> NoOne]]

Accepting(q, t) ==
  [t EXCEPT !.role[q.actor] = IF @ = "none" THEN t.invite[q.invite].role ELSE @,
            !.invite[q.invite].by = q.actor]

\* What a request that succeeds makes of the workspace, apart from its revision.
Change(q, t) ==
  CASE q.op = "create" -> [t EXCEPT !.role[q.actor] = "owner"]
    [] q.op = "accept" -> Accepting(q, t)
    [] q.op = "update" -> t
    [] q.op = "project" -> [t EXCEPT !.project[q.project] = @ + 1]
    [] q.op = "invite" -> [t EXCEPT !.invite = Inviting(q, t)]
    [] OTHER -> [t EXCEPT !.role[q.member] = q.role]

\* bump, after a success; any other outcome writes back what was read.
Mutated(q, e) ==
  IF Outcome(q, e) \in {"saved", "accepted"}
  THEN [e EXCEPT !.revision = @ + 1,
                 !.team[q.workspace] =
                   [Change(q, e.team[q.workspace]) EXCEPT !.revision = @ + 1]]
  ELSE e

\* The second mutation of an acceptance: the member's pointer, if it lacks it.
Joined(q, e) ==
  IF q.workspace \in e.joined THEN e
  ELSE [e EXCEPT !.revision = @ + 1, !.joined = @ \cup {q.workspace}]

-----------------------------------------------------------------------------
(* Requests.                                                               *)

Unused(w) == /\ ~Exists(Stored(w))
             /\ \A r \in Request : ~(step[r] # "idle" /\ request[r].op = "create"
                                     /\ request[r].workspace = w)
Unsent(i) == /\ i \notin issued
             /\ ~Stored(WorkspaceOf[i]).invite[i].there
             /\ \A r \in Request : ~(step[r] # "idle" /\ request[r].op = "invite"
                                     /\ request[r].invite = i)

\* A client names the revision it was shown: the present one, or an older one, for which
\* the update stands, as all requests refuse it in the same way.
Updating(a, w, n) == [Plain("update", a, w) EXCEPT !.expected = n]
Putting(a, w, n, p, m) ==
  [Plain("project", a, w) EXCEPT !.expected = n, !.project = p, !.expectedProject = m]
Edits(a, w) ==
  LET n == Stored(w).revision IN
  {Updating(a, w, k) : k \in {n, n - 1} \cap 1..n}
    \cup {Putting(a, w, n, p, m) : p \in Project, m \in 0..1}

Promoting(a, w, n, m, x) ==
  [Plain("role", a, w) EXCEPT !.expected = n, !.member = m, !.role = x]
Offering(a, w, n, i, x, l, late) ==
  [Plain("invite", a, w) EXCEPT !.expected = n, !.invite = i, !.role = x, !.limit = l,
                                !.expired = late]
Managements(a, w) ==
  LET n == Stored(w).revision IN
  {Promoting(a, w, n, m, x) : m \in Account, x \in {"editor", "viewer"}}
    \cup {Offering(a, w, n, i, x, l, late) :
            i \in {j \in Invite : WorkspaceOf[j] = w /\ Unsent(j)},
            x \in {"editor", "viewer"}, l \in Limit,
            late \in SUBSET {j \in Invite : Stored(w).invite[j].there}}

\* A capability verifies until its time has passed, which may be at any time.
Presenting(a, w, i, l) == [Plain("accept", a, w) EXCEPT !.invite = i, !.limit = l]
Acceptances(a, w) ==
  {Presenting(a, w, i, l) : i \in {j \in issued : WorkspaceOf[j] = w}, l \in Limit}

Creations(a, w) == IF OwnerOf[w] = a /\ Unused(w) THEN {Plain("create", a, w)} ELSE {}

Asks(a, w) == UNION {IF Exists(Stored(w)) THEN Edits(a, w) \cup Managements(a, w) ELSE {},
                     Acceptances(a, w), Creations(a, w), {Plain("list", a, w)}}

\* What a holds: its own workspaces and its pointers.
Own(a) == envelope[a].joined \cup {w \in Workspace : Exists(envelope[a].team[w])}

Holding(a) == [Nothing EXCEPT !.envelope = envelope[a], !.version = version[a]]

\* listTeamWorkspacesForMember reads the own envelope first.
Listing(a) ==
  [envelope |-> [EmptyEnvelope EXCEPT !.joined = envelope[a].joined], version |-> 0,
   known |-> Own(a), shown |-> {w \in Workspace : MayRead(envelope[a].team[w], a)}]

\* A request begins, up to its first read.
Begin(r, q) ==
  /\ step[r] = "idle"
  /\ version[OwnerOf[q.workspace]] < MaxVersion
  /\ request' = [request EXCEPT ![r] = q]
  /\ IF q.op = "list"
     THEN /\ held' = [held EXCEPT ![r] = Listing(q.actor)]
          /\ step' = [step EXCEPT ![r] = "readOwners"]
     ELSE /\ held' = [held EXCEPT ![r] = Holding(OwnerOf[q.workspace])]
          /\ step' = [step EXCEPT ![r] = "write"]
  /\ attempt' = [attempt EXCEPT ![r] = 1]
  /\ UNCHANGED <<backend, stored, issued, confirmed>>

\* The request is answered or throws.
End(r) ==
  /\ step' = [step EXCEPT ![r] = "idle"]
  /\ request' = [request EXCEPT ![r] = NoAsk]
  /\ held' = [held EXCEPT ![r] = Nothing]
  /\ attempt' = [attempt EXCEPT ![r] = 0]

\* The account whose envelope the loop of r is about.
Target(r) == IF step[r] \in {"read", "write"} THEN OwnerOf[request[r].workspace]
             ELSE request[r].actor

\* The loop's next attempt, or its first on the member's own envelope.
Read(r) ==
  /\ step[r] \in {"read", "readOwn"}
  /\ held' = [held EXCEPT ![r] = Holding(Target(r))]
  /\ step' = [step EXCEPT ![r] = IF @ = "read" THEN "write" ELSE "writeOwn"]
  /\ UNCHANGED <<backend, stored, issued, request, attempt, confirmed>>

ReadFails(r) ==
  /\ step[r] \in {"read", "readOwn", "readOwners"}
  /\ End(r)
  /\ UNCHANGED <<backend, stored, issued, confirmed>>

\* The mutation throws: an entitlement or a limit, or the envelope got too large.
Throws(r) ==
  /\ step[r] \in {"write", "writeOwn"}
  /\ \/ step[r] = "write" /\ Outcome(request[r], held[r].envelope) = "invalid"
     \/ (IF step[r] = "write" THEN Mutated(request[r], held[r].envelope)
         ELSE Joined(request[r], held[r].envelope)) # held[r].envelope
  /\ End(r)
  /\ UNCHANGED <<backend, stored, issued, confirmed>>

\* Mutant: the write does not name the version it read.
AnyVersion(r) == TRUE

\* The condition of the write: D1 compares the revision, or inserts when it read
\* revision 0; Blob compares the etag, or creates when there was none.
Unmoved(r) ==
  IF backend = "blob" THEN version[Target(r)] = held[r].version
  ELSE IF held[r].envelope.revision = 0 THEN version[Target(r)] = 0
  ELSE envelope[Target(r)].revision = held[r].envelope.revision

Put(r, e) ==
  /\ envelope' = [envelope EXCEPT ![Target(r)] = e]
  /\ version' = [version EXCEPT ![Target(r)] = @ + 1]

\* Mutant: the pointer is stored whatever the first mutation found.
JoinsAlways(q, answer) == q.op = "accept" /\ q.actor # OwnerOf[q.workspace]

\* Mutant: a repeated acceptance does not store the pointer again.
JoinsOnce(q, answer) == answer = "accepted" /\ q.actor # OwnerOf[q.workspace]

\* An acceptance goes on with the member's own envelope.
Joins(q, answer) == /\ answer \in {"accepted", "already-accepted"}
                    /\ q.actor # OwnerOf[q.workspace]

\* The member is told that its acceptance took effect.
Confirm(q, answer) ==
  confirmed' = IF answer \in {"accepted", "already-accepted"} /\ q.actor # OwnerOf[q.workspace]
               THEN confirmed \cup {<<q.actor, q.workspace>>} ELSE confirmed

Write(r) ==
  LET q == request[r]
      answer == Outcome(q, held[r].envelope) IN
  /\ step[r] = "write"
  /\ answer # "invalid"
  /\ Unmoved(r)
  /\ Put(r, Mutated(q, held[r].envelope))
  /\ IF Joins(q, answer)
     THEN /\ step' = [step EXCEPT ![r] = "readOwn"]
          /\ attempt' = [attempt EXCEPT ![r] = 1]
          /\ held' = [held EXCEPT ![r] = Nothing]
          /\ UNCHANGED <<request, confirmed>>
     ELSE /\ End(r)
          /\ Confirm(q, answer)
  /\ issued' = IF q.op = "invite" /\ answer = "saved" THEN issued \cup {q.invite} ELSE issued
  /\ UNCHANGED backend

WriteOwn(r) ==
  /\ step[r] = "writeOwn"
  /\ Unmoved(r)
  /\ Put(r, Joined(request[r], held[r].envelope))
  /\ End(r)
  /\ Confirm(request[r], "accepted")
  /\ UNCHANGED <<backend, issued>>

\* The write fails, or it is stored and its answer is lost.
WriteFails(r, lands) ==
  /\ step[r] \in {"write", "writeOwn"}
  /\ step[r] = "write" => Outcome(request[r], held[r].envelope) # "invalid"
  /\ IF lands
     THEN /\ Unmoved(r)
          /\ Put(r, IF step[r] = "write" THEN Mutated(request[r], held[r].envelope)
                    ELSE Joined(request[r], held[r].envelope))
     ELSE UNCHANGED stored
  /\ End(r)
  /\ UNCHANGED <<backend, issued, confirmed>>

Exhausted(r) == attempt[r] = MaxAttempts

\* The condition does not hold: begin again from the read, MaxAttempts times.
Retry(r) ==
  /\ step[r] \in {"write", "writeOwn"}
  /\ step[r] = "write" => Outcome(request[r], held[r].envelope) # "invalid"
  /\ ~Unmoved(r)
  /\ IF Exhausted(r)
     THEN End(r)
     ELSE /\ step' = [step EXCEPT ![r] = IF @ = "write" THEN "read" ELSE "readOwn"]
          /\ attempt' = [attempt EXCEPT ![r] = @ + 1]
          /\ held' = [held EXCEPT ![r] = Nothing]
          /\ UNCHANGED request
  /\ UNCHANGED <<backend, stored, issued, confirmed>>

\* Then it reads the envelopes of the owners its pointers name, each by itself.
PointersTo(r, a) == {w \in held[r].envelope.joined : OwnerOf[w] = a}

\* Mutant: only workspaces the member may write are listed.
WritableOf(r, a) == {w \in PointersTo(r, a) : MayWrite(Stored(w), request[r].actor)}

\* The workspaces of owner a that the member's pointers name and its role lets it read.
VisibleOf(r, a) == {w \in PointersTo(r, a) : MayRead(Stored(w), request[r].actor)}

Unread(r, a) == [held[r].envelope EXCEPT !.joined = @ \ PointersTo(r, a)]
Gathered(r, a) ==
  [held[r] EXCEPT !.envelope = Unread(r, a), !.shown = @ \cup VisibleOf(r, a)]

ListOwner(r, a) ==
  /\ step[r] = "readOwners"
  /\ PointersTo(r, a) # {}
  /\ held' = [held EXCEPT ![r] = Gathered(r, a)]
  /\ UNCHANGED <<backend, stored, issued, request, step, attempt, confirmed>>

ListEnd(r) ==
  /\ step[r] = "readOwners"
  /\ held[r].envelope.joined = {}
  /\ End(r)
  /\ UNCHANGED <<backend, stored, issued, confirmed>>

Step(r) ==
  \/ Read(r) \/ ReadFails(r) \/ Throws(r) \/ Write(r) \/ WriteOwn(r) \/ Retry(r)
  \/ \E lands \in BOOLEAN : WriteFails(r, lands)
  \/ ListEnd(r)
  \/ \E a \in Account : ListOwner(r, a)

Next ==
  \/ \E r \in Request, a \in Account, w \in Workspace : \E q \in Asks(a, w) : Begin(r, q)
  \/ \E r \in Request : Step(r)

Spec == Init /\ [][Next]_vars

-----------------------------------------------------------------------------
(* What the envelopes promise.                                             *)

\* A membership pointer is stored after the membership it points to, so it always
\* leads to a workspace that exists and lists the member (the order of the two
\* mutations of acceptTeamWorkspaceInvite).
PointersAreMemberships ==
  \A a \in Account : \A w \in envelope[a].joined :
    /\ OwnerOf[w] # a
    /\ MayRead(Stored(w), a)

\* A member who was told that its invite is accepted finds the workspace among its
\* own, also when an earlier acceptance stopped between the two envelopes.
ConfirmedIsListed ==
  \A c \in confirmed : c[2] \in envelope[c[1]].joined

\* A listing shows everything the member had when it began, and nothing that it is
\* not a member of, although it reads several envelopes one after the other.
ListingIsExact ==
  \A r \in Request :
    step[r] = "readOwners" /\ held[r].envelope.joined = {} =>
      /\ held[r].known \subseteq held[r].shown
      /\ \A w \in held[r].shown : MayRead(Stored(w), request[r].actor)

\* A step that admits a collaborator takes, for it alone, an invite of that role that
\* nobody had taken, and leaves no more collaborators than the invite allows: two
\* acceptances cannot share an invite or the last place.
AdmittedBy(w, a) ==
  \E i \in Invite :
    /\ Stored(w).invite[i].there /\ Stored(w).invite[i].by = NoOne
    /\ Stored(w)'.invite[i].by = a
    /\ Stored(w)'.role[a] = Stored(w).invite[i].role
    /\ Cardinality(Collaborators(Stored(w)')) <= Stored(w).invite[i].limit

AdmissionsTakeInvites ==
  [][\A w \in Workspace : \A a \in Collaborators(Stored(w)') \ Collaborators(Stored(w)) :
       AdmittedBy(w, a)]_vars

\* Every change of a workspace is one request's: it was made on the revision that the
\* request named and by an actor whose role allows it in the state it replaces, not
\* only in the one that was read; it moves the revision by one.
Allowed(q, t) ==
  CASE q.op \in {"update", "project"} -> MayWrite(t, q.actor) /\ Expected(q, t)
    [] q.op \in {"invite", "role"} -> MayManage(t, q.actor) /\ Expected(q, t)
    [] q.op = "create" -> ~Exists(t)
    [] OTHER -> Exists(t)

ChangesAreAllowed ==
  [][\A w \in Workspace : Stored(w)' # Stored(w) =>
       /\ Stored(w)'.revision = Stored(w).revision + 1
       /\ \E r \in Request : /\ step[r] = "write" /\ step[r]' # "write"
                             /\ request[r].workspace = w
                             /\ Allowed(request[r], Stored(w))]_vars
=============================================================================
