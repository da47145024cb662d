-------------------------- MODULE ProjectV2Snapshots --------------------------
(***************************************************************************)
(* The snapshot of one Project V2 (db/project-v2-snapshots.ts) with the    *)
(* sessions that read, save and delete it through /api/projects/v2.  It is *)
(* a Postgres row or, without Postgres, a private blob; where both are     *)
(* configured a blob from before the database is imported by the first     *)
(* request that misses the row, and stays behind the row from then on.     *)
(* Every SQL statement and every call of the blob store is one step.       *)
(***************************************************************************)
EXTENDS Naturals

CONSTANTS Session,       \* browser tabs and builder requests of one account
          Edit,          \* the bodies of the saves: one per PUT request
          Legacy,        \* the body of the blob from before the database
          LegacyRevision,
          Unknown,       \* of a session that was told nothing yet
          MaxAttempts,   \* attempts of a save in the blob store
          MaxRemovals    \* bounds the removals of the project

VARIABLES backend,   \* "postgres" (with the blob store behind it) or "blob"
          row,       \* the row of drops_project_v2_snapshots
          blob,      \* the blob under the project's path
          etag,      \* how many blobs were put: the version of the present one
          known,     \* per session: the snapshot it was last told of
          call,      \* per session: its request
          step,      \* per session: its next storage call
          held,      \* per session: the blob it got, with its version
          attempt,   \* per session: the attempts its save has spent
          retired,   \* the row was deleted, so what is in the blob is no longer current
          removals,  \* how often the current snapshot was removed
          history,   \* every snapshot stored, by the number of removals before it
          met        \* per session: what was current at some time since its request began

store == <<row, blob, etag>>
observed == <<retired, removals, history>>
vars == <<backend, store, known, call, step, held, attempt, observed, met>>

ASSUME SnapshotsAssumption ==
  /\ Edit # {} /\ Legacy \notin Edit
  /\ LegacyRevision \in Nat \ {0} /\ MaxAttempts \in Nat \ {0} /\ MaxRemovals \in Nat

Body == Edit \cup {Legacy}
None == [revision |-> 0]
Snapshot == [revision : Nat \ {0}, body : Body]
Slot == Snapshot \cup {None}
LegacySnapshot == [revision |-> LegacyRevision, body |-> Legacy]

Call == [op : {"none", "read", "delete"}] \cup [op : {"save"}, expected : Nat, edit : Edit]
NoCall == [op |-> "none"]
NoBlob == [snapshot |-> None, etag |-> 0]

\* What the account's sessions are to see: the row, or the blob if no row was deleted.
Current == IF row # None THEN row ELSE IF retired THEN None ELSE blob

TypeOK ==
  /\ backend \in {"postgres", "blob"}
  /\ row \in Slot /\ blob \in Slot /\ etag \in Nat
  /\ known \in [Session -> Slot \cup {Unknown}]
  /\ call \in [Session -> Call]
  /\ step \in [Session -> {"idle", "select", "get", "import", "reselect", "store", "judge",
                           "put", "deleteRow", "deleteBlob"}]
  /\ held \in [Session -> [snapshot : Slot, etag : Nat]]
  /\ attempt \in [Session -> 0..MaxAttempts]
  /\ retired \in BOOLEAN /\ removals \in Nat
  /\ history \subseteq Nat \X Snapshot
  /\ met \in [Session -> SUBSET Slot]

Init ==
  /\ backend \in {"postgres", "blob"}
  /\ row = None
  /\ blob \in {None, LegacySnapshot}
  /\ etag = IF blob = None THEN 0 ELSE 1
  /\ known = [s \in Session |-> Unknown]
  /\ call = [s \in Session |-> NoCall]
  /\ step = [s \in Session |-> "idle"]
  /\ held = [s \in Session |-> NoBlob]
  /\ attempt = [s \in Session |-> 0]
  /\ retired = FALSE
  /\ removals = 0
  /\ history = IF blob = None THEN {} ELSE {<<0, blob>>}
  /\ met = [s \in Session |-> {}]

-----------------------------------------------------------------------------

Working(s) == step[s] # "idle"

\* Every step ends with what is current noted for the requests under way.
Note == met' = [s \in Session |-> IF step'[s] = "idle" THEN {}
                                  ELSE IF step[s] = "idle" THEN {Current}
                                  ELSE met[s] \cup {Current'}]

Goto(s, where) ==
  /\ step' = [step EXCEPT ![s] = where]
  /\ UNCHANGED <<call, attempt>>

End(s) ==
  /\ step' = [step EXCEPT ![s] = "idle"]
  /\ call' = [call EXCEPT ![s] = NoCall]
  /\ held' = [held EXCEPT ![s] = NoBlob]
  /\ attempt' = [attempt EXCEPT ![s] = 0]

\* The request is answered with a snapshot, or with there being none; a session whose
\* request fails forgets what it knew (setStorageRevision(null)).
Tell(s, snapshot) ==
  /\ known' = [known EXCEPT ![s] = snapshot]
  /\ End(s)

Begin(s, c, where) ==
  /\ ~Working(s)
  /\ call' = [call EXCEPT ![s] = c]
  /\ step' = [step EXCEPT ![s] = where]
  /\ attempt' = [attempt EXCEPT ![s] = 1]
  /\ UNCHANGED <<backend, store, held, known, observed>> /\ Note

FirstRead == IF backend = "postgres" THEN "select" ELSE "get"

BeginRead(s) == Begin(s, [op |-> "read"], FirstRead)

\* The handler of DELETE reads the snapshot first, to destroy its sandbox.
BeginDelete(s) == removals < MaxRemovals /\ Begin(s, [op |-> "delete"], FirstRead)

Unsent(e) == /\ \A h \in history : h[2].body # e
             /\ \A s \in Session : call[s].op = "save" => call[s].edit # e

\* A save names the revision its session was told; revision 0 goes straight to the insert.
BeginSave(s, e) ==
  /\ known[s] # Unknown
  /\ Unsent(e)
  /\ Begin(s, [op |-> "save", expected |-> known[s].revision, edit |-> e],
           IF backend = "postgres" /\ known[s].revision = 0 THEN "store" ELSE FirstRead)

\* A read ends with what it found; a save and a deletion go on.
Found(s, snapshot) ==
  IF call[s].op = "read" THEN Tell(s, snapshot)
  ELSE /\ Goto(s, IF call[s].op = "save" THEN "store"
                  ELSE IF backend = "postgres" THEN "deleteRow" ELSE "deleteBlob")
       /\ held' = [held EXCEPT ![s] = NoBlob]
       /\ UNCHANGED known

\* What is stored where nothing was, or in place of what is current.
Record(snapshot) == /\ history' = history \cup {<<removals, snapshot>>}
                    /\ UNCHANGED <<retired, removals>>

-----------------------------------------------------------------------------
(* Postgres, and the import of the blob behind it.                         *)

Select(s) ==
  /\ step[s] = "select"
  /\ IF row # None THEN Found(s, row)
     ELSE Goto(s, "get") /\ UNCHANGED <<known, held>>
  /\ UNCHANGED <<backend, store, observed>> /\ Note

\* Mutant: what is not in the database is not there.
GetNothing(s) ==
  /\ step[s] = "get" /\ backend = "postgres"
  /\ Found(s, None)
  /\ UNCHANGED <<backend, store, observed>> /\ Note

GetLegacy(s) ==
  /\ step[s] = "get" /\ backend = "postgres"
  /\ IF blob = None THEN Found(s, None)
     ELSE /\ held' = [held EXCEPT ![s] = [snapshot |-> blob, etag |-> etag]]
          /\ Goto(s, "import")
          /\ UNCHANGED known
  /\ UNCHANGED <<backend, store, observed>> /\ Note

\* INSERT ... ON CONFLICT DO NOTHING: the row of somebody faster stays.
Import(s) ==
  /\ step[s] = "import"
  /\ IF row = None
     THEN /\ row' = held[s].snapshot
          /\ Record(row')
          /\ Found(s, row')
     ELSE /\ Goto(s, "reselect")
          /\ UNCHANGED <<row, known, held, observed>>
  /\ UNCHANGED <<backend, blob, etag>> /\ Note

Reselect(s) ==
  /\ step[s] = "reselect"
  /\ Found(s, row)
  /\ UNCHANGED <<backend, store, observed>> /\ Note

Saved(s) == [revision |-> call[s].expected + 1, body |-> call[s].edit]

\* Mutant: the update does not name the revision.
AnyRevision(s) == row = None <=> call[s].expected = 0

\* INSERT for revision 0, UPDATE ... WHERE storage_revision = expected otherwise.
Matches(s) == row.revision = call[s].expected

Store(s) ==
  /\ step[s] = "store"
  /\ IF Matches(s)
     THEN /\ row' = Saved(s)
          /\ Record(row')
          /\ Tell(s, row')
     ELSE /\ Goto(s, "judge")
          /\ UNCHANGED <<row, known, held, observed>>
  /\ UNCHANGED <<backend, blob, etag>> /\ Note

\* The conflict is answered with what a second statement finds, be it nothing.
Judge(s) ==
  /\ step[s] = "judge"
  /\ Tell(s, row)
  /\ UNCHANGED <<backend, store, observed>> /\ Note

\* The statement that writes has run, and the request fails all the same.
WriteUnanswered(s) ==
  /\ \/ step[s] = "import" /\ row = None /\ row' = held[s].snapshot
     \/ step[s] = "store" /\ Matches(s) /\ row' = Saved(s)
  /\ Record(row')
  /\ Tell(s, Unknown)
  /\ UNCHANGED <<backend, blob, etag>> /\ Note

-----------------------------------------------------------------------------
(* The blob store alone.                                                   *)

\* Mutant: only the first attempt compares the revision.
ExpectedAtFirst(s) == attempt[s] > 1 \/ blob.revision = call[s].expected

Expected(s) == blob.revision = call[s].expected

GetBlob(s) ==
  /\ step[s] = "get" /\ backend = "blob"
  /\ CASE call[s].op # "save" -> Found(s, blob)
       [] call[s].op = "save" /\ Expected(s) ->
            /\ held' = [held EXCEPT ![s] = [snapshot |-> blob, etag |-> etag]]
            /\ Goto(s, "put")
            /\ UNCHANGED known
       [] OTHER -> Tell(s, blob)
  /\ UNCHANGED <<backend, store, observed>> /\ Note

\* allowOverwrite and ifMatch, for the blob that was got or for there being none.
Unmoved(s) == IF held[s].snapshot = None THEN blob = None
              ELSE blob # None /\ etag = held[s].etag

Land(s) ==
  /\ Unmoved(s)
  /\ blob' = Saved(s)
  /\ etag' = etag + 1
  /\ Record(blob')
  /\ UNCHANGED <<backend, row>>

Put(s) ==
  /\ step[s] = "put"
  /\ Land(s)
  /\ Tell(s, blob') /\ Note

Exhausted(s) == attempt[s] = MaxAttempts

\* Any failure of the put, also of one that landed, is tried again from the get.
PutFails(s, lands) ==
  /\ step[s] = "put"
  /\ IF lands THEN Land(s) ELSE UNCHANGED <<backend, store, observed>>
  /\ IF Exhausted(s) THEN Tell(s, Unknown)
     ELSE /\ attempt' = [attempt EXCEPT ![s] = @ + 1]
          /\ step' = [step EXCEPT ![s] = "get"]
          /\ held' = [held EXCEPT ![s] = NoBlob]
          /\ UNCHANGED <<call, known>>
  /\ Note

-----------------------------------------------------------------------------
(* Deletion: the row, then the blob that may be behind it.                 *)

Remove(was) == /\ removals' = IF was = None THEN removals ELSE removals + 1
               /\ UNCHANGED history

DeleteRow(s, answered) ==
  /\ step[s] = "deleteRow"
  /\ row' = None
  /\ retired' = TRUE
  /\ Remove(row)
  /\ IF answered THEN Goto(s, "deleteBlob") /\ UNCHANGED <<held, known>>
     ELSE Tell(s, Unknown)
  /\ UNCHANGED <<backend, blob, etag>> /\ Note

DeleteBlob(s) ==
  /\ step[s] = "deleteBlob"
  /\ blob' = None
  /\ Remove(IF backend = "blob" THEN blob ELSE None)
  /\ Tell(s, Unknown)
  /\ UNCHANGED <<backend, row, etag, retired>> /\ Note

\* A storage call fails without an effect, or the sandbox cannot be destroyed.
Fails(s) ==
  /\ Working(s) /\ step[s] # "put"
  /\ Tell(s, Unknown)
  /\ UNCHANGED <<backend, store, observed>> /\ Note

Next ==
  \E s \in Session :
    \/ BeginRead(s) \/ BeginDelete(s)
    \/ \E e \in Edit : BeginSave(s, e)
    \/ Select(s) \/ GetLegacy(s) \/ Import(s) \/ Reselect(s) \/ Store(s) \/ Judge(s)
    \/ WriteUnanswered(s)
    \/ GetBlob(s) \/ Put(s)
    \/ \E lands \in BOOLEAN : PutFails(s, lands)
    \/ (\E answered \in BOOLEAN : DeleteRow(s, answered)) \/ DeleteBlob(s)
    \/ Fails(s)

Spec == Init /\ [][Next]_vars

-----------------------------------------------------------------------------
(* What the sessions may rely on.                                          *)

\* Between two removals of the project each revision is stored once and each save is
\* stored once, however often its attempts failed after they had landed: the retried
\* attempt meets its own revision and is refused.
HistoryIsLinear ==
  \A g, h \in history :
    g[1] = h[1] => (g[2].revision = h[2].revision <=> g[2].body = h[2].body)

\* A session is only told of a snapshot, or of there being none, that was current at some
\* time while its request was under way: also by the statement after a lost race, and
\* also while the blob is imported or the two stores are emptied one after the other.
AnswersWereCurrent ==
  [][\A s \in Session : Working(s) /\ ~Working(s)' /\ known'[s] # Unknown
                          => known'[s] \in met[s] \cup {Current'}]_vars

\* What is current is only replaced by a save that named its revision (a first save
\* never covers a blob that was not imported yet) and only removed by a deletion.  The
\* one thing that comes back unasked is the blob from before the database, imported by
\* a request that missed the row while the project was deleted.
SavesOver(s, was, is) ==
  /\ call[s].op = "save"
  /\ was.revision = call[s].expected
  /\ is = Saved(s)

ChangesAreNamed ==
  [][Current' # Current =>
       \/ \E s \in Session : SavesOver(s, Current, Current')
       \/ Current' = None /\ \E s \in Session : call[s].op = "delete"
       \/ Current = None /\ retired /\ Current' = LegacySnapshot]_vars
=============================================================================
