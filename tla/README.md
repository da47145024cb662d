# Drops Studio: formal models

TLA+ models of the parts of Drops Studio whose correctness depends on the order
in which things happen: the durable project data store, the collaboration
transport built on it, the team panel that follows it, the multi-agent
orchestrator, team workspaces, the Project V2 snapshots, billing, and the webhook
inbox. TLC checks them on small instances; TLAPS proves their safety results and
refinements for every value of the constants. Paths below are relative to `src/`.

## The system and its components

Drops Studio is a Next.js application. Browsers edit projects; routes under
`app/api` authenticate, parse, and call the libraries in `lib/` and the stores in
`db/`. Any number of server processes may serve one project, so nothing but the
storage services orders their work. Each component below names its state, its
operations and what must hold of it.

| component | state | operations | what makes it correct |
| --- | --- | --- | --- |
| project data backends (`lib/project-data/durable-backend.ts`) | one envelope per project: storeRevision, snapshot or tombstone | `read`, `compareAndSwap`, `deleteProject`, each a sequence of storage calls | the sequence acts like one atomic operation; a revision never names two snapshots |
| project data store (`lib/project-data/store.ts`) | one snapshot of all documents of a project | `get`, `list`, `create`, `update`, `delete`: read the snapshot, change it, swap it in | changing one document through a swap of all is atomic; quotas; optimistic revisions |
| collaboration transport (`lib/collaboration-transport.ts`, `-client.ts`) | a room per shared project: revision, a window of events, idempotency records; a cursor per client | `append` (idempotent, one retry), `read` | one log; no event lost or doubled within the window; gaps are reported |
| multi-agent orchestrator (`lib/agent/orchestrator`) | a run in an `AgentRunStore`, abort controllers by run id, the waves of running subagents | `run`, `resume`, `cancel`, and the callbacks of subagents | merged work is stored with its project; completed means reviewed; cancel works; calls end |
| team panel (`components/studio-account-team-panel.tsx`) | per member: workspace shown, room cursor, pending revision, state | refresh, poll, reload, apply, share and announce | what the cursor has passed is shown; a shown revision never goes back; each announcement is of a saved revision |
| team workspaces (`db/team-workspaces.ts`) | one envelope per account, in D1 or Blob: its workspaces with members, invites, shared projects, and pointers to workspaces it joined | create, update, invite, accept, change a role, share a project, list | an invite admits one account within its limit; pointers lead to memberships; changes are made on the revision they name, by who may make them |
| Project V2 snapshots (`db/project-v2-snapshots.ts`) | one snapshot per project, in a Postgres row with an older blob behind it, or in Blob alone | read, save, delete, import of the blob | history is linear, answers are true, nothing is replaced unnamed |
| studio account state (`db/studio-account-state.ts`) | one profile per account, stored in the same two places | read, change, delete | as above |
| member projects (`db/member-projects.ts`) and their sync clients | an envelope of projects per member | upsert, delete, CAS loop | a retry does not undo or repeat a write |
| billing (`db/billing.ts`) | accounts, receipts of events, in D1 or Blob | apply a webhook event, open a checkout | duplicates and disorder end in the newest state; a customer has one account |
| DropsBot webhooks (`db/dropsbot-webhooks.ts`) | a connection per project and its events, in D1 or Blob | create, rotate, revoke, list, accept an event | only the present URL stores events, once; evidence shown came over it; capacity |
| request rate limit (`lib/request-rate-limit.ts`), access tier | counter per identity and window | consume | never more than the limit passes |
| OIDC provider (`lib/enterprise-platform/oidc-provider-storage.ts`) | authorization codes | save, consume, clean up | a code is used once |
| managed platform (`lib/managed-platform/runtime-services.ts`) | in-memory jobs, subscriptions, functions | enqueue, run, cancel, publish, poll | retry bounds, idempotency |
| browser project store (`lib/project-store.ts`) | items and an index in web storage | save, delete, list | several tabs do not lose each other's work |
| builder session (`lib/builder-agent`), model circuit breaker (`lib/agent/models`) | project of a turn; failure counts | tool calls; record, isOpen | tool calls do not undo each other |
| compiler, validators, prompts, evaluation, sandboxes, provider clients, pages | little or none | functions and calls of services | - |

Interaction: the orchestrator keeps its runs behind an interface of its own. The
transport keeps a room as one document of a `ProjectDataStore`, which keeps all
documents of a project in one snapshot of a backend; the backend keeps that
snapshot in a Vercel Blob or in a Postgres row. The models follow these layers.

What is hard: every layer reads, decides and writes in separate steps; storage
answers get lost after the write landed; operations are retried; deleted things
come back; windows are trimmed; `await` lets a second call in between a check and
what the check was for. `PROJECT.json` lists these hazards line by line with the
properties that would catch each, and says of the five that have none why.

## Modules

    BackendCalls              the calls of a backend's clients
    SnapshotRegister          what a backend promises         (abstract)
      ^ BlobSnapshots         the Vercel Blob backend           } DurableBackendProofs
      ^ PostgresSnapshots     the Postgres backend              }
    DocumentTable             what the document store promises (abstract)
      ^ ProjectDataStore      the document store              + ProjectDataStoreProofs
    RoomLog                   what a room promises            (abstract)
      ^ CollaborationTransport  rooms and polling clients       } CollaborationProofs
    TeamPanel                 members who share and follow      }
    AgentOrchestrator         run, resume, cancel, waves      + AgentOrchestratorProofs
    TeamWorkspaces            envelopes of accounts           + TeamWorkspacesProofs
    ProjectV2Snapshots        one project, two stores         + ProjectV2SnapshotsProofs
    DropsBotWebhooks          one inbox and its provider      + DropsBotWebhooksProofs
    Billing                   Stripe's events and checkouts   + BillingProofs

`^` is refinement: the lower module instantiates the upper one with a mapping
(`INSTANCE ... WITH`) and has its `Spec` as a property. `ProjectDataStore` takes
each call of its backend as one step, which is what `SnapshotRegister` allows it
to; `CollaborationTransport` takes each call of its store as one step, which is
what `DocumentTable` allows it to; `TeamPanel` takes a room for the sequence of its
events, of which a read returns the end, which is what `RoomLog` allows it to. The
other five stand alone in the code too: each talks to its storage directly.
`BlobSnapshots` and `PostgresSnapshots` extend `BackendCalls`, which declares their
clients; their own names begin with `Blob` and `Row`, as one module proves both.
The `MC*` modules give constants their values.

### BlobSnapshots and PostgresSnapshots

`blob`/`row` is the stored envelope, `Missing` when there is none: revision, live
or tombstone, content. `call[c]` is a caller's request and reply, `step[c]` the
storage call it is about to make. A Blob operation is a `get` (actions `Get...`)
and then maybe a `put` conditional on the etag that was read (`Put`,
`PutPreconditionFailed`, `PutUnanswered`); a Postgres write is one conditional
statement (`Written`, `WriteMisses`) and, when it changed no row, a second one
that decides between "already gone" and a conflict. `PutUnanswered` and
`WriteUnanswered` are the writes that land and whose answer is lost;
`StorageFails`/`StatementFails` the ones that do not land. Callers only expect
revisions they can have read (`Requests`): none is ahead of the stored one.

Abstracted: content is an opaque value; an envelope is always well formed
(corrupt ones are refused with "unavailable", which `StorageFails` already
allows); the storage library's own retries are part of a put's failure;
`#ensureSchema` is part of invoking a call.

### ProjectDataStore

`snapshot.documents` maps each key (a namespace and an id) to its document.
`ReadForWrite` is the read and all checks of `create`, `update` or `delete`,
`Swap` the `compareAndSwap`. `createdAt` and `updatedAt` are the store revision
of the write that set them; `updatedAt` also stands for the data, since it tells
writes apart. The quotas on documents and namespaces are modelled; the byte quota
may refuse any create or update, since sizes are not modelled. `seen[c]` is what
the answers of a caller's calls showed it, and the revisions it expects come from
there.

`DocumentTable` says what callers may rely on: each call takes effect at one
instant, refusals are true then, and a "conflict" that is not about the document
means that some other call committed since the call began. That weakness is the
code's: a write of any other document of the project makes the swap fail.

### CollaborationTransport

A room has its revision, its window of events and its idempotency records; an
event is its revision, key and fingerprint (actor, type and payload). `append` is
`StartAppend`, one of the `Get...` actions with the checks in the code's order (known
key, then revision, then quota), and `Write`; a write that finds the room
changed starts over once (`WriteRetried`). `NextRoom` evicts the oldest events
and their records, as many as the count or the bytes require. `Poll` is the
client's read from its cursor, with `historyGap` and the limited slice. `log` is a
history variable: every event ever stored.

`RoomLog` is the same room as its callers may think of it: a sequence of events, the
first one retained, and for each client one append that takes effect at one instant.
It is added where the caller expected it, found to be there already, or refused for a
reason that is true of the log at that instant; "unavailable" alone promises nothing. A
poll returns all that is retained after its cursor. `LogSeen`, `FirstSeen` and
`CallsSeen` are the mapping: the get and the retry of an append are stutters, its write
or its refusal is the instant.

### TeamPanel

`saved` and `announced` are the servers' side: the project revision of the team API and
the room, the sequence of the revisions announced. The rest is one panel per member:
`shown` is the revision in its workspace, `roomRevision`, `scoped` and `pending` are the
refs of those names, `state` is what the member is told. Three threads run in a panel:
`establish` and `poll` (`reader`), and one `action` at a time, which `pendingAction`
guards. Every `await` of a request is two steps, `Serve...` where the server answers and
`Handle...` where the panel goes on, so answers may be late. `Restart` is what React
does when `replaceWorkspace` has put a new workspace in place: the effect's cleanup
aborts both reader threads and the effect starts again. `RoomReceipt` is the room's
answer as the client reads it, with `historyGap`. A panel's next step is a `ReaderStep`
of its two threads, or a `RefreshStep`, a `ShareStep` or an `AnnounceStep` of its
action; `PanelSpec` is all of that and `FairSpec` adds the readers' fairness.

Abstracted: one workspace with one project, its team revision only as conflicts
that may happen at any time (`RefusePut`); sources, consents and messages; timers,
in that a panel may poll whenever no poll is under way, and a hidden panel is one
that does not. Signing out is not modelled. `Following` bounds an instance: the
room reads of the other members' reader threads stay unanswered.

### AgentOrchestrator

One run id, any number of concurrent calls of `run` and `resume`. `stored` is the
`AgentRunStore`, `mine[e]` the state object of a call, `controller` the entry of
`#controllers`. Every `await` of the code ends an action: the saves (`Saved`,
`SaveThrows`, with the first save outside the `try` block), the planner, the
callbacks of subagents (`TaskSucceeds`, `TaskFails`), the merge gate
(`MergeWave`, `RerunRequired`, `MergeThrows`), the catch block (`Reload`,
`LastSave`) and the finally block (`Leave`). `StartWave` is the selection of a
wave; `StartBatch` the scheduler's batches within it. `Selections` allows any
maximal choice within the limits and write scopes, whatever the priorities. A
project is its revision and the set of tasks whose patches it holds. `judged` is a
history variable: `ReviewPasses` alone writes it, for the reviewers of the review that
passed. `Cancel` and `Crash` happen at any time; a crash keeps the store only.

`PlanAssumption` is what `validateTaskGraph` and `assertRunBudgets` check of a plan before
it is executed: some tasks, a topological order of them, builders that wait for builders
only. Assumed of the callers: `run` is called for an id that has no plan yet, and a
planner emits tasks with status "queued", as the one caller in the repository
does. Not modelled because no planned run reaches them: the errors thrown for a
blocked DAG (orchestrator 239), shown unreachable by `PlanNeverBlocks`, and
callbacks that go on after their timeout, whose results nobody reads.

### TeamWorkspaces

`envelope[a]` is what is stored for account `a`: the workspaces it owns (`team`) and
the pointers to those it joined (`joined`); `version[a]` is the blob's etag, or
whether there is a D1 row. A request runs in a slot: `request` is what it asks,
`held` the envelope it read, `step` its next storage call. `Begin` is the request up
to its first read. `Write` is the conditional write of what the mutation made of
`held` (`Outcome` and `Mutated` are the mutations, check by check); where the
condition fails `Retry` goes back to `Read`, `MaxAttempts` times in all. Accepting
goes on with `readOwn` and `WriteOwn`, the member's own envelope. `Throws` is a
mutation that throws before the write, `WriteFails` a write that fails, or that lands
and whose answer is lost. `Unmoved` keeps the two stores apart: D1 compares the
envelope's revision, Blob the etag. That difference matters, since a mutation that
changes nothing is written back too and moves the etag only. `ListOwner` and `ListEnd`
are the listing, which reads one owner's envelope after the other.

Abstracted: names, sizes and times (an envelope may be too large, an invite may expire,
at any time); ids and capabilities are fresh values; sharing stands for publishing and
restoring a shared project, whose contents are not modelled. Clients only name
workspaces they were shown, and `Edits` offers the present revision and, for `update`,
the one before it. The store in memory, for tests, is left out.

### ProjectV2Snapshots

`row` is the Postgres row, `blob` and `etag` the blob: with `backend` "postgres" the
blob is one from before the database, with "blob" it is the only store. A session sends
one request at a time; `known` is what it was last told, whose revision its next save
names, as the studio does (project-v2-studio-surface.tsx 437-467): it sends revision 0
only after it was told that there is no snapshot, and `ChangesAreNamed` says nothing of
a client that sends 0 without having asked. In Postgres a save is `Store` and, when it
matched no row, `Judge`; a read is `Select` and, when there is no row, `GetLegacy`,
`Import` and, when somebody was faster, `Reselect`. A save reads first unless it expects
revision 0, and a deletion reads first too. In Blob a save is `GetBlob` and `Put`;
`PutFails` goes back to the get whether or not the put landed. A deletion is
`DeleteRow`, then `DeleteBlob`. `retired`, `removals`, `history` and `met` are history
variables, read by properties and bounds only. `Current` is what sessions are to see.

Abstracted: the bodies (one value per save); release receipts and the sandbox's
cleanup, which come before the deletion and may make it fail; `Fails` is any storage
call that has no effect.

### DropsBotWebhooks

`inbox` is the connection of one project and owner, `events` its stored events. In D1
each statement or batch is a step: `FindOwned` and then `Insert`, `Rotate` or `Revoke`;
`ListRow` and `ListEvents`; a delivery is `FindDelivered`, `Seek`, and either
`RecordEvidence` or `CountEvents`, `Batch` and, when nothing was inserted, `Judge` and
`SeekAgain`, and `Answer`. In Blob an operation is `Get` and one of `PutAnswered`,
`PutUnanswered`, `PutRefused`, `PutFails`, and `Reread` where no blob had been read.
`urls` holds what was disclosed: deliveries come to these URLs only, also to old ones,
which is what a provider with a stale URL does. `clock` is `receivedAt`, and `made`
numbers secrets and ids. `accepted` and `delivered` are history variables; the former
counts, per event, how often the present connection has answered "accepted".

Abstracted: payloads and titles; digests of secrets, which are compared as the secrets
are. Not modelled: the claim of a connection for a new owner identity (424-486), since
no route passes a legacy owner, and the limit on all connections together.

### Billing

`accounts` is the table, or the blob's accounts; `receipts` the receipts in D1, `log`
those of the blob, which keeps the last `MaxEvents`. A delivery in D1 is `FindReceipt`,
three `LookUp` in any order (they run in parallel), then `Record` where the event
changes nothing or `Batch`, with the unique columns and the `WHERE` of the upsert; a
failed batch is judged by `Failed`, `LookUp` again, and `Record` or `GiveUp`. A checkout
is `ReadAccount` to `OpenSession`. Blob is `Get`, `Put` and `PutRefused`; `fresh` holds
the requests whose etag still matches. `judged` (the events receipted as processed or
stale, but for those that changed no account because it had another customer by then) and
`sessions` are history variables.

Abstracted: price, period end and cancellation mark, which are overwritten with the
status; whether an active account is refused a second checkout depends on the price and
is a choice; the limits of 10 000 accounts and 8 MB.

## What is checked

`tlc -config X.cfg M`. Most runs end within seconds; `project_data_store`,
`collaboration_transport`, `team_panel`, `team_workspaces`, `dropsbot_webhooks` and
`billing` take between half a minute and three minutes with two workers.

| run | instance | what it shows |
| --- | --- | --- |
| `blob_snapshots` | 2 clients, 2 contents, revisions to 3 | `BlobImplementsRegister`; `RevisionIdentifiesSnapshot`: tombstones keep revisions unique through deletions and revivals |
| `postgres_snapshots` | 3 clients, 1 content, revisions to 3 | `RowImplementsRegister`: a missed delete judged by its second statement still fits one instant. The third client lets the row change twice in between |
| `project_data_store` | 2 callers, 3 documents in 2 namespaces, 3 commits | `ImplementsTable`; `RevisionNamesContent`; `QuotasRespected`, with room for one document of a namespace, where every second create is at the limit |
| `stale_incarnation` | 1 document, 4 commits | violation of `ReplacesWhatWasSeen`, below |
| `collaboration_transport` | 2 clients, 1 reader, 2 keys, 2 fingerprints, 2 events retained, revisions to 3 | the room invariants, `PollMissesNothing` and `ImplementsLog`. With 3 revisions and 2 retained, events are evicted, keys reused after eviction, and cursors overtaken by the window |
| `team_panel` | 1 sharing member, 1 viewer who follows, 3 revisions, 1 event retained, 2 failures | `AnnouncedOnce`, through reconciled conflicts and lost answers; `ViewerIsCurrent`, `ViewerNeverRegresses` and `AnnouncedIsExposed`, through both reader threads racing, gaps in the window, aborted reloads |
| `agent_orchestrator` | 4 builders, 2 reviewers, 1 call at a time, 3 active, 2 parallel | the safety properties and `PlannedCallEnds`. The plan has a conflict, dependencies between builders and reviewers, more ready tasks than slots, and waves of more than one batch |
| `resume_race` | 1 builder, 2 calls | violation of `CancelReachesRun`, below |
| `team_workspaces` | 2 requests, an owner and 2 other accounts, 1 workspace, 2 invites, 1 project, a limit of 1 collaborator, 2 attempts, 4 writes of the owner's envelope | `PointersAreMemberships`, `ConfirmedIsListed`, `ListingIsExact`, `AdmissionsTakeInvites`, `ChangesAreAllowed` |
| `project_v2_snapshots` | 2 sessions, 4 saves, 3 attempts, 3 removals, a blob of revision 1 or none | `HistoryIsLinear`, `AnswersWereCurrent`, `ChangesAreNamed` |
| `dropsbot_webhooks` | 2 requests, 3 events for a connection that keeps 2, 3 changes of the owner, 3 deliveries, 2 attempts | `EvidenceIsPresent`, `AcceptedIsKept`, `AcceptedOnce`, `StoredUnderCapability` |
| `billing` | 2 requests, 2 accounts, 2 customers of one of them, 5 events, 1 receipt kept, 2 attempts | `AccountIsNewest`, `AccountsAreApart`, `SessionsAreOwn` |

`MaxRevision`, `MaxStamp` and `MaxVersion` bound counters: nothing begins at the bound,
what is under way finishes. Where that leaves a bounded system that stops,
`CHECK_DEADLOCK FALSE` is set; all other runs are checked for deadlock. Each property
has a mutant in `PROJECT.json`: a plausible bug of a mapped definition under which TLC
finds it violated. Each module has a type invariant, which its theorem `TypeCorrect`
proves (`PanelsTypeCorrect` for the panels, `BlobTypeCorrect` and `RowTypeCorrect` for
the backends) and no run repeats.

Why the newer instances are large enough. *Team workspaces*: four writes hold a creation,
an invitation and two more, so two acceptances can meet on one envelope, or an acceptance
and a change of role; a limit of 1 makes the second admission one too many; two invites
let one account hold the other's; with two attempts a loop retries and also gives up. A
listing reads at most one other owner here; more owners only repeat `ListOwner`, which
`ListingsStayExact` proves for any number. *Project V2*: with three removals the project
is deleted, imported again, deleted and created again; three attempts let a put land
unanswered and its retry meet both itself and another session. *Webhooks*: three changes
are a creation, a rotation and a revocation; the third event is over capacity and a third
delivery repeats an earlier event. *Billing*: one event activates a subscription of a
customer and one cancels another in the same second, one comes from before that and names
the customer only, one claims the first subscription for another account, and one is no
subscription event; a log of one has forgotten an event as soon as the next one comes.

`MaxSaved`, `Refreshes` and `MaxFailures` bound the panels: each of three kinds of
request (of the room, of the team, reloads) fails at most once, which is enough for
a failure to meet every other step. The run has one sharing member, whose lost
answers already lead to conflicts with its own events.

Fairness is used for two properties. For `AnnouncedIsExposed`, weak fairness of a
viewer's timers and of its answers: the panel is kept in view, and a browser's
request ends. It and `ViewerIsCurrent` hold as long as no read of the room and no
reload fails (`NothingFailed`); observation 3 below says why. For
`PlannedCallEnds`, weak fairness of each call's own steps. Storage promises settle, ready
continuations run, and a subagent's callback is raced with its timeout (scheduler
49-78), so each of these steps happens once it stays possible. A planner's callback has
neither timeout nor race, so nothing is assumed of it and the property starts after it.
Nothing is assumed of callers, of `Cancel` or of `Crash`. The storage-level modules state
no fairness: their requests may all be refused for ever, as each loop gives up.

### Disagreements found

Two runs show the code against what a test or a document says of it.

1. **Revisions of a recreated document** (`stale_incarnation`). `create` gives
   revision 1 (store.ts 106) and `delete` forgets the old document, so an update
   that expects revision 1 of a deleted document is accepted for its successor
   (store.ts 137). The backend avoids the same problem with tombstones.
2. **Two calls of one run** (`resume_race`). `resume` awaits the
   store between its check (169) and its registration (179). Two calls then
   execute the run, cancel reaches the second only, and a task that the first
   has merged is run again.

The following were met while modelling. The models have these behaviours; no run refutes
a promise with them, because the code, its documents and its tests promise nothing
definite there, and the properties are stated so as to allow them.

3. **A reload that fails.** `poll` and `establish` move the cursor before the reload it
   calls for has succeeded (panel 454, 494). After one failure the event is behind the
   cursor and the panel says "live" again. A second way to the same state needs no
   failed reload: the reload of one reader thread is aborted when the other's older
   answer replaces the workspace, and the read of the room that follows fails.
4. **A baseline that skips events.** The first share takes the room's revision as its
   cursor, with the events up to it unread (panel 889-891).
5. **A gap after an empty room.** `historyGap` requires `afterRevision > 0`
   (collaboration-transport-client.ts 225), so a client that polled the empty room is
   not told that events between are gone.
6. **A leaked controller.** The first save is awaited after the controller is registered
   and before the `try` (orchestrator 128, 190); when it throws, the run stays "already
   active" until the process ends.
7. **A conflict about nothing.** A save that lost against a deletion is a conflict
   answered with the caller's own project and revision 0 (project-v2-snapshots.ts
   296-300); `saveSnapshot` (project-v2-studio-surface.tsx 915) compares the projects and
   takes it as saved, while nothing is stored.
8. **A deleted project that returns.** When the blob behind a deleted row is not deleted
   (project-v2-snapshots.ts 516), the next read imports it. `ChangesAreNamed` allows this
   one return, of the blob from before the database, and no other.
9. **A duplicate at capacity.** When an event fills the last place between the lookup and
   the count of its own second delivery, that delivery is answered with the capacity error
   (dropsbot-webhooks.ts 985).
10. **A URL nobody knows.** A creation whose answer is lost has stored a connection; the
    retry answers "exists", so its URL is never disclosed and the owner must rotate.
11. **One second.** An activation in the same second as an "incomplete" of the same
    subscription is dropped as stale when it comes second (billing.ts 526), although it
    is the later one.
12. **Two customers, two sessions.** Two checkouts at once may open two sessions for one
    account, and the events of a second subscription overwrite the status of the first.
13. **Revision 0 in D1.** A mutation that finds nothing and changes nothing inserts a row
    with revision 0 (team-workspaces.ts 496); later writes of that envelope insert again,
    are ignored, and conflict until they give up. The models' clients name workspaces
    that exist.

## What is proved

`tlapm M.tla` checks the proofs. They hold for any sets of clients, keys, members, tasks,
accounts, invites, events and contents and for any bounds, under the named assumptions
`BackendAssumption`, `StoreAssumption`, `TransportAssumption`, `PanelAssumption`,
`PlanAssumption`, `TeamAssumption`, `SnapshotsAssumption`, `WebhooksAssumption` and
`BillingAssumption` (kinds of the constants; that the client reads at least as many
events as are retained; a plan as above). Every safety property and every refinement
that a passing run checks is the conclusion of a theorem.

- **DurableBackendProofs**: `BlobTypeCorrect`, `RevisionsIdentifySnapshots`,
  `BlobRefinesRegister`, `RowTypeCorrect`, `RowRefinesRegister`. In Blob, the refinement
  needs that a client about to put holds an envelope that its request was admitted on,
  and that an unchanged etag means an unchanged blob (`HeldByPut`); then a successful put
  is `Perform` and a failed precondition is `Reject`. For the latter the revision must
  have moved, which follows from `BlobIsLatest`: the blob has the highest revision of all
  that was stored. In Postgres the heart is `MissedForGood`: once a conditional statement
  has missed, the row never comes back to what the request expects, unless as the
  tombstone that `deleteProject` accepts; so the answer decided at the second statement
  is also true there.
- **ProjectDataStoreProofs**: `TypeCorrect`, `QuotasAreRespected`,
  `RevisionsNameContents`, `StoreImplementsTable`. `HeldBySwap` relates the
  snapshot a write holds to the current one; equal revisions mean equal
  snapshots. `SeenBehind` orders what callers have seen behind the current
  documents, which gives `RevisionNamesContent`. The quota lemma adds one
  document to a namespace that had room.
- **CollaborationProofs**, the room: `TypeCorrect`, `RoomStaysReadable`,
  `WindowIsEndOfLog`, `RetainedStaysRecognised`, `ConfirmedStaysLogged`,
  `RetriesNeverWrite`, `PollsMissNothing`, `RoomIsOneLog`. The invariant says that the
  log has one event of each revision (`LogIsComplete`), that the room is a bounded end
  of it (`RoomIsWindow`), and what an append between its get and its write knows
  (`HeldByWrite`), including that its key was not recorded. `SecondAttempt` says
  that a retry has been overtaken, so its get cannot lead to a write.
  `SliceIsComplete` shows that a poll's limit never cuts a window of `Retained`.
  `RoomIsOneLog` is the refinement of `RoomLog`. `LogFits` and `WindowFits` turn the
  invariant into a sequence with a retained end, `KeptIsRecorded` makes looking a key up
  in the idempotency records the same as looking it up among the retained events, and
  `StoreAppends` shows that a write extends the sequence by the one event asked for. The
  second reason of a key conflict, a record without its event, turns out to be
  unreachable.
- **CollaborationProofs**, the panels: `PanelsTypeCorrect`, `AnnouncementsStayOnce`,
  `ViewersNeverRegress`, `ViewersStayCurrent`, of `PanelSpec`, which is weaker than
  `FairSpec`. `Announces` keeps the shares under way apart: each that is past its save
  holds a saved revision of its own that is not in the room. `PanelInv` orders every
  revision in flight, in a refresh, a reload or a room receipt, behind what is saved, and
  what a thread has loaded above what is shown. `ViewersStayCurrent` also needs to know
  how far the announcements are out of the order of the saves. `FewOlder` counts: of the
  revisions older than an event, fewer than there are writers come after it, as each
  belongs to another writer's one share. A read's window then always holds an event as
  new as any it misses, so a panel that reloads for the newest event of a read has caught
  up with all before its cursor (`FollowInv`). Hence the theorem's hypothesis: no more
  writers than retained events. It is necessary: with two writers and one event retained,
  TLC lets the second writer announce revision 2 before the first announces 1, and a
  viewer that reads the room then sees 1 alone. With the code's 32 events this takes more
  than 32 members who share at once.
- **AgentOrchestratorProofs**: `TypeCorrect`, `MergedStaysInProject`, `PlansNeverBlock`,
  `CancelsStartNothing`, `OnlyResumesRace`, `CompletionsAreReviewed`,
  `SubagentsRunApart`, `MergedWorkIsNotRepeated`, `WorkIsNeverLost`,
  `SuccessiveCallsAreSafe`. `IInv`, which relates each run state to its project and each
  wave to its call, is inductive whatever calls overlap, so the first four need nothing of
  the callers; `PlansNeverBlock` takes the first task left in the topological order. The
  others are false of overlapping calls, as the finding on `resume` shows, and so they are
  stated under `ResumeReadsAlone`: while a resume awaits the store, no other call of the
  run is under way. This assumption is about that one await and about nothing else:
  `OnlyResumesRace` shows that it closes every way of losing a controller. `RunInv` then
  says what the one executing call knows of the stored run (`Knows`), of its review
  (`ReviewFits`) and what a save may replace (`Extends`).
  `SuccessiveCallsAreSafe` drops the assumption where calls follow one another, ended or
  cut off by crashes, which is the case TLC checks.
- **TeamWorkspacesProofs**: `TypeCorrect`, `PointersStayMemberships`,
  `ConfirmedStaysListed`, `ListingsStayExact`, `AdmissionsAlwaysTakeInvites`,
  `ChangesStayAllowed`. `HeldFits` says that what a slot has read is what is stored
  unless the stored one has moved on, so the condition of a write (`Unmoved`) makes
  them equal, in D1 as in Blob, and every check made on `held` is true of what it
  replaces. From there `Forward` shows that envelopes only move on: revisions
  never fall, pointers and members stay (the code has no operation that removes
  either). Pointers are stored after memberships, so they lead to memberships;
  `ListingFits` carries the same through a listing's reads.
  `CreatesApart` keeps two creations off one workspace.
- **ProjectV2SnapshotsProofs**: `TypeCorrect`, `HistoryStaysLinear`, `AnswersStayTrue`,
  `ChangesStayNamed`. `CurrentIsLatest` says that the current snapshot has the highest
  revision of those since the last removal and `EditsAreOwn` that an unsent save is in no
  history until it is stored as its own revision; a new one is then above all since the
  last removal. `HeldByPut` relates an etag to the
  blob that was read, and `BackendsFit` says that a blob behind Postgres is the one
  from before it.
- **DropsBotWebhooksProofs**: `TypeCorrect`, `EvidenceStaysPresent`,
  `AcceptedStaysKept`, `AnswersAcceptOnce`, `StoringStaysCapable`. `Numbered` keeps ids
  and secrets of different changes apart, `Fits` says what each step may still rely on
  of what it has read, `Apart` that requests under way carry different secrets. The
  evidence the batch writes is the newest event there is; `DeliveryFits` says that what
  was stored under an older URL arrived before every delivery to the present one, so
  that event came over the present URL. It also says that an event whose insertion is
  about to be answered has not been answered yet, and `Apart` that no two requests are
  about to answer for the same event.
- **BillingProofs**: `TypeCorrect`, `AccountsStayNewest`, `AccountsStayApart`,
  `SessionsStayOwn`. The three invariants carry each other, with `AskFits`, which says
  what a request under way was asked and has read: lookups may be stale in D1 and the
  upsert's own condition and the unique columns have to make up for it.

Only model-checked: `AnnouncedIsExposed` and `PlannedCallEnds`, as liveness is out of the
prover's reach, and the two violations.

## Not modelled

`PROJECT.json` lists every component with its status. Beside the abstractions named
above, these parts are left out:

- *Member projects* and *studio account state* repeat protocols that are modelled here:
  an envelope changed by a read and a conditional put in a loop (as in `TeamWorkspaces`),
  with retried puts (as in `ProjectV2Snapshots`), and the import of a blob (the same).
  The sync client of member projects, which merges in the browser, is not modelled.
- *Request rate limit*, *OIDC codes*, *Product Hunt* and *public projects*: each
  operation is one conditional put or one SQL batch, so there is no order to explore
  beyond what the storage service promises.
- *Managed platform*, *builder session*, *circuit breaker*: state in the memory of one
  process, changed synchronously or by one call at a time.
- *Browser project store*: its tabs are serialised by the browser's lock manager. Where a
  browser has none the code goes on without a lock (project-store.ts 290-296).
- *Sandboxes and workspace runs, providers, integrations*: calls of external services,
  whose behaviour the repository does not fix.
- *Compiler, validators, exports, prompts, skills, evaluation, pages*: functions of their
  input or markup. They are most of the repository's lines and hold no protocol.
- Of modelled components: the transport's HTTP route and health probe; signing out,
  several workspaces at once and the management forms of the team panel; the corrupt
  envelopes that every store refuses to read.
