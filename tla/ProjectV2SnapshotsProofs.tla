----------------------- MODULE ProjectV2SnapshotsProofs -----------------------
(***************************************************************************)
(* The snapshot of a Project V2 is type correct, its history is linear and *)
(* only a save that names the current revision replaces it, for any number *)
(* of sessions, saves, removals and attempts, in both backends.            *)
(***************************************************************************)
EXTENDS ProjectV2Snapshots, TLAPS

(***************************************************************************)
(* Which request is at which storage call, and what it holds there.  With  *)
(* Postgres the blob is the one from before the database or none, and an   *)
(* import that still holds it after it is gone meets a deleted row.        *)
(***************************************************************************)
StepsFit ==
  \A s \in Session :
    /\ step[s] # "idle" => call[s].op # "none"
    /\ step[s] \in {"store", "judge", "put"} => call[s].op = "save"
    /\ step[s] \in {"deleteRow", "deleteBlob"} => call[s].op = "delete"
    /\ step[s] = "import" =>
         held[s].snapshot = LegacySnapshot /\ (retired \/ blob = LegacySnapshot)

BackendsFit ==
  /\ backend = "postgres" =>
       /\ blob \in {None, LegacySnapshot}
       /\ \A s \in Session : step[s] # "put" /\ (step[s] = "deleteBlob" => retired)
  /\ backend = "blob" =>
       /\ row = None /\ ~retired
       /\ \A s \in Session : step[s] \in {"idle", "get", "put", "deleteBlob"}

(***************************************************************************)
(* While the blob from before the database is current, nobody was told     *)
(* anything and nobody is past the import.                                 *)
(***************************************************************************)
Unsettled == backend = "postgres" /\ row = None /\ ~retired /\ blob # None

NothingToldYet ==
  Unsettled =>
    /\ removals = 0 /\ history = {<<0, LegacySnapshot>>}
    /\ \A s \in Session : known[s] = Unknown /\ step[s] \in {"idle", "select", "get", "import"}

\* A put that is admitted replaces the blob that was got, of the expected revision.
HeldByPut ==
  \A s \in Session : step[s] = "put" =>
    /\ held[s].snapshot.revision = call[s].expected
    /\ held[s].etag <= etag
    /\ held[s].etag = etag /\ held[s].snapshot # None /\ blob # None => blob = held[s].snapshot

\* What is current is the latest of its lineage, and nothing is after a removal.
CurrentIsLatest ==
  \A h \in history :
    /\ h[1] <= removals
    /\ h[1] = removals => Current # None /\ h[2].revision <= Current.revision

\* An edit is of one save, and is only stored as that save's revision.
EditsAreOwn ==
  /\ \A s, t \in Session :
       call[s].op = "save" /\ call[t].op = "save" /\ call[s].edit = call[t].edit => s = t
  /\ \A s \in Session, h \in history :
       call[s].op = "save" /\ h[2].body = call[s].edit => h[2].revision = call[s].expected + 1

IInv ==
  /\ TypeOK /\ StepsFit /\ BackendsFit /\ NothingToldYet
  /\ HeldByPut /\ CurrentIsLatest /\ EditsAreOwn /\ HistoryIsLinear

-----------------------------------------------------------------------------
(* Lemmas about the values                                                 *)

LEMMA Values ==
  /\ LegacySnapshot \in Snapshot /\ NoBlob \in [snapshot : Slot, etag : Nat]
  /\ None.revision = 0 /\ None \in Slot /\ Snapshot \subseteq Slot
  /\ \A x \in Snapshot : x # None /\ x.revision \in Nat \ {0} /\ x.body \in Body
  /\ \A x \in Slot : x.revision \in Nat /\ (x.revision = 0 <=> x = None)
  /\ LegacySnapshot.body \notin Edit
<1>1. \A x \in Snapshot : x.revision \in Nat \ {0} /\ x.body \in Body
  BY DEF Snapshot
<1>2. None.revision = 0 BY DEF None
<1>3. \A x \in Snapshot : x # None BY <1>1, <1>2
<1>4. LegacySnapshot \in Snapshot /\ LegacySnapshot.body \notin Edit
  BY SnapshotsAssumption DEF LegacySnapshot, Snapshot, Body
<1>5. NoBlob \in [snapshot : Slot, etag : Nat] BY DEF NoBlob, Slot
<1> QED BY <1>1, <1>2, <1>3, <1>4, <1>5 DEF Slot

LEMMA Calls ==
  /\ NoCall \in Call /\ [op |-> "read"] \in Call /\ [op |-> "delete"] \in Call
  /\ NoCall.op = "none"
  /\ \A n \in Nat, e \in Edit : [op |-> "save", expected |-> n, edit |-> e] \in Call
  /\ \A c \in Call : c.op = "save" => c.expected \in Nat /\ c.edit \in Edit
  /\ \A c \in Call : c.op \in {"none", "read", "delete", "save"}
BY DEF Call, NoCall

\* What a save stores is a snapshot of the next revision.
LEMMA SavedTyped ==
  ASSUME TypeOK, NEW s \in Session, call[s].op = "save"
  PROVE  /\ Saved(s) \in Snapshot
         /\ Saved(s).revision = call[s].expected + 1 /\ Saved(s).body = call[s].edit
         /\ call[s].expected \in Nat /\ call[s].edit \in Edit
<1>1. call[s].expected \in Nat /\ call[s].edit \in Edit BY Calls DEF TypeOK
<1> QED BY <1>1 DEF Saved, Snapshot, Body

-----------------------------------------------------------------------------
(* The end of a step                                                       *)

\* The other sessions' requests are where they were.
Others(s) ==
  \A t \in Session \ {s} :
    step'[t] = step[t] /\ call'[t] = call[t] /\ held'[t] = held[t] /\ known'[t] = known[t]

AsTyped ==
  /\ known' \in [Session -> Slot \cup {Unknown}] /\ call' \in [Session -> Call]
  /\ step' \in [Session -> {"idle", "select", "get", "import", "reselect", "store", "judge",
                            "put", "deleteRow", "deleteBlob"}]
  /\ held' \in [Session -> [snapshot : Slot, etag : Nat]]
  /\ attempt' \in [Session -> 0..MaxAttempts]

LEMMA TellStep ==
  ASSUME TypeOK, NEW s \in Session, NEW x \in Slot \cup {Unknown}, Tell(s, x)
  PROVE  AsTyped /\ Others(s) /\ step'[s] = "idle" /\ call'[s] = NoCall /\ known'[s] = x
<1>1. 0 \in 0..MaxAttempts BY SnapshotsAssumption
<1> QED BY <1>1, Values, Calls DEF TypeOK, Tell, End, AsTyped, Others

\* A request goes on where it belongs, or ends with what was found.
LEMMA FoundStep ==
  ASSUME TypeOK, NEW s \in Session, NEW x \in Slot, Found(s, x)
  PROVE  /\ AsTyped /\ Others(s)
         /\ \/ step'[s] = "idle" /\ call'[s] = NoCall /\ known'[s] = x
            \/ /\ call'[s] = call[s] /\ known'[s] = known[s]
               /\ \/ step'[s] = "store" /\ call[s].op = "save"
                  \/ step'[s] = "deleteRow" /\ call[s].op # "save" /\ call[s].op # "read"
                       /\ backend = "postgres"
                  \/ step'[s] = "deleteBlob" /\ call[s].op # "save" /\ call[s].op # "read"
                       /\ backend # "postgres"
<1>1. CASE call[s].op = "read"
  BY <1>1, TellStep DEF Found
<1>2. CASE call[s].op # "read"
  <2> DEFINE where == IF call[s].op = "save" THEN "store"
                     ELSE IF backend = "postgres" THEN "deleteRow" ELSE "deleteBlob"
  <2>1. where \in {"store", "deleteRow", "deleteBlob"}
    OBVIOUS
  <2>2. /\ where = "store" => call[s].op = "save"
        /\ where = "deleteRow" => call[s].op # "save" /\ backend = "postgres"
        /\ where = "deleteBlob" => call[s].op # "save" /\ backend # "postgres"
    OBVIOUS
  <2>3. Goto(s, where) /\ held' = [held EXCEPT ![s] = NoBlob] /\ UNCHANGED known
    BY <1>2 DEF Found
  <2> HIDE DEF where
  <2>4. AsTyped /\ Others(s) /\ step'[s] = where /\ call'[s] = call[s] /\ known'[s] = known[s]
    BY <2>1, <2>3, Values DEF Goto, TypeOK, AsTyped, Others
  <2> QED BY <1>2, <2>1, <2>2, <2>4
<1> QED BY <1>1, <1>2

\* met is always a set of slots.
LEMMA MetTyped ==
  ASSUME TypeOK, Note, Current' \in Slot
  PROVE  met' \in [Session -> SUBSET Slot]
<1>1. Current \in Slot BY Values DEF TypeOK, Current
<1> QED BY <1>1 DEF Note, TypeOK

LEMMA CurrentTyped ==
  ASSUME row \in Slot, blob \in Slot
  PROVE  Current \in Slot
BY Values DEF Current

-----------------------------------------------------------------------------
(* Steps that store nothing                                                *)

\* What step s of a request may leave behind when it stores and removes nothing.
Quiet(s) ==
  /\ UNCHANGED <<backend, store, observed>> /\ Note
  /\ AsTyped /\ Others(s)
  /\ call'[s].op = "save" =>
       \/ call'[s] = call[s]
       \/ /\ \A t \in Session : call[t].op = "save" => call[t].edit # call'[s].edit
          /\ \A h \in history : h[2].body # call'[s].edit
  /\ Unsettled => known'[s] = Unknown

\* Such a step preserves the invariant when the request is where it belongs.
LEMMA QuietStep ==
  ASSUME IInv, NEW s \in Session, Quiet(s),
         step'[s] # "idle" => call'[s].op # "none",
         step'[s] \in {"store", "judge", "put"} => call'[s].op = "save",
         step'[s] \in {"deleteRow", "deleteBlob"} => call'[s].op = "delete",
         step'[s] = "import" =>
           held'[s].snapshot = LegacySnapshot /\ (retired \/ blob = LegacySnapshot),
         backend = "postgres" => step'[s] # "put" /\ (step'[s] = "deleteBlob" => retired),
         backend = "blob" => step'[s] \in {"idle", "get", "put", "deleteBlob"},
         Unsettled => step'[s] \in {"idle", "select", "get", "import"},
         step'[s] = "put" =>
           /\ held'[s].snapshot.revision = call'[s].expected
           /\ held'[s].etag <= etag
           /\ held'[s].etag = etag /\ held'[s].snapshot # None /\ blob # None
                => blob = held'[s].snapshot
  PROVE  IInv'
<1> USE DEF IInv
<1>1. TypeOK'
  <2>1. Current' \in Slot
    BY CurrentTyped DEF TypeOK, Current, Quiet, store, observed
  <2>2. met' \in [Session -> SUBSET Slot] BY <2>1, MetTyped DEF Quiet
  <2> QED BY <2>2 DEF TypeOK, Quiet, AsTyped, store, observed
<1>2. StepsFit' BY DEF StepsFit, Quiet, Others, store, observed
<1>3. BackendsFit' BY DEF BackendsFit, Quiet, Others, store, observed
<1>4. NothingToldYet'
  BY DEF NothingToldYet, Unsettled, Quiet, Others, store, observed
<1>5. HeldByPut' BY DEF HeldByPut, Quiet, Others, store
<1>6. CurrentIsLatest' /\ HistoryIsLinear'
  BY DEF CurrentIsLatest, HistoryIsLinear, Current, Quiet, store, observed
<1>7. EditsAreOwn'
  <2>1. \A t, u \in Session :
          call'[t].op = "save" /\ call'[u].op = "save" /\ call'[t].edit = call'[u].edit => t = u
    <3>1. \A t, u \in Session :
            call[t].op = "save" /\ call[u].op = "save" /\ call[t].edit = call[u].edit => t = u
      BY DEF EditsAreOwn
    <3>2. /\ \A t \in Session \ {s} : call'[t] = call[t]
          /\ call'[s].op = "save" =>
               \/ call'[s] = call[s]
               \/ \A t \in Session : call[t].op = "save" => call[t].edit # call'[s].edit
      BY DEF Quiet, Others
    <3> QED BY <3>1, <3>2
  <2>2. \A t \in Session, h \in history' :
          call'[t].op = "save" /\ h[2].body = call'[t].edit => h[2].revision = call'[t].expected + 1
    BY DEF EditsAreOwn, Quiet, Others, observed
  <2> QED BY <2>1, <2>2 DEF EditsAreOwn
<1> QED BY <1>1, <1>2, <1>3, <1>4, <1>5, <1>6, <1>7

\* A request that ends without storing anything.
LEMMA ToldStep ==
  ASSUME IInv, NEW s \in Session, NEW x \in Slot \cup {Unknown}, Tell(s, x),
         Unsettled => x = Unknown,
         UNCHANGED <<backend, store, observed>>, Note
  PROVE  IInv'
<1>1. AsTyped /\ Others(s) /\ step'[s] = "idle" /\ call'[s] = NoCall /\ known'[s] = x
  BY TellStep DEF IInv
<1>2. Quiet(s) BY <1>1, Calls DEF Quiet
<1> QED BY <1>1, <1>2, QuietStep

\* A request that found what it was looking for.
LEMMA FoundPreserves ==
  ASSUME IInv, NEW s \in Session, NEW x \in Slot, Found(s, x), step[s] # "idle",
         ~Unsettled,
         backend = "blob" => call[s].op # "save",
         UNCHANGED <<backend, store, observed>>, Note
  PROVE  IInv'
<1>1. call[s].op \in {"read", "delete", "save"}
  BY Calls DEF IInv, StepsFit, TypeOK
<1>2. backend \in {"postgres", "blob"} BY DEF IInv, TypeOK
<1>3. /\ AsTyped /\ Others(s)
      /\ \/ step'[s] = "idle" /\ call'[s] = NoCall /\ known'[s] = x
         \/ /\ call'[s] = call[s] /\ known'[s] = known[s]
            /\ \/ step'[s] = "store" /\ call[s].op = "save"
               \/ step'[s] = "deleteRow" /\ call[s].op # "save" /\ call[s].op # "read"
                    /\ backend = "postgres"
               \/ step'[s] = "deleteBlob" /\ call[s].op # "save" /\ call[s].op # "read"
                    /\ backend # "postgres"
  BY FoundStep DEF IInv
<1>4. Quiet(s) BY <1>3, Calls DEF Quiet
<1> QED BY <1>1, <1>2, <1>3, <1>4, QuietStep

-----------------------------------------------------------------------------
(* Every step preserves the invariant                                      *)

LEMMA InitIInv == ASSUME Init PROVE IInv
<1>1. TypeOK
  <2>1. blob \in Slot /\ (blob # None => blob = LegacySnapshot /\ blob \in Snapshot)
    BY Values DEF Init
  <2>2. history \subseteq Nat \X Snapshot BY <2>1 DEF Init
  <2>3. 0 \in 0..MaxAttempts BY SnapshotsAssumption
  <2> QED BY <2>1, <2>2, <2>3, Values, Calls DEF Init, TypeOK
<1>2. StepsFit /\ BackendsFit /\ NothingToldYet /\ HeldByPut
  BY DEF Init, StepsFit, BackendsFit, NothingToldYet, HeldByPut, Unsettled
<1>3. CurrentIsLatest
  BY Values DEF Init, CurrentIsLatest, Current
<1>4. EditsAreOwn /\ HistoryIsLinear
  BY Calls DEF Init, EditsAreOwn, HistoryIsLinear
<1> QED BY <1>1, <1>2, <1>3, <1>4 DEF IInv

\* A request begins: nothing is told and nothing is stored.
LEMMA BeginStep ==
  ASSUME IInv, NEW s \in Session, NEW c \in Call, NEW where, Begin(s, c, where),
         where \in {"select", "get", "store"},
         c.op # "none",
         where = "store" => c.op = "save",
         c.op = "save" => Unsent(c.edit),
         backend = "blob" => where = "get",
         Unsettled => where # "store"
  PROVE  IInv'
<1>1. 1 \in 0..MaxAttempts BY SnapshotsAssumption
<1>2. /\ step'[s] = where /\ call'[s] = c /\ known'[s] = known[s]
      /\ AsTyped /\ Others(s) /\ UNCHANGED <<backend, store, observed>> /\ Note
  BY <1>1 DEF Begin, IInv, TypeOK, AsTyped, Others
<1>3. Unsettled => known'[s] = Unknown
  BY <1>2 DEF IInv, NothingToldYet
<1>4. Quiet(s) BY <1>2, <1>3 DEF Quiet, Unsent
<1> QED BY <1>2, <1>4, QuietStep

LEMMA BeginPreserves ==
  ASSUME IInv, NEW s \in Session,
         \/ BeginRead(s) \/ BeginDelete(s)
         \/ \E e \in Edit : BeginSave(s, e)
  PROVE  IInv'
<1>0. /\ FirstRead \in {"select", "get"} /\ (backend = "blob" => FirstRead = "get")
      /\ known[s] # Unknown => known[s].revision \in Nat
      /\ Unsettled => known[s] = Unknown
  BY Values DEF FirstRead, IInv, TypeOK, NothingToldYet
<1>1. CASE BeginRead(s) BY <1>0, <1>1, BeginStep, Calls DEF BeginRead
<1>2. CASE BeginDelete(s) BY <1>0, <1>2, BeginStep, Calls DEF BeginDelete
<1>3. ASSUME NEW e \in Edit, BeginSave(s, e) PROVE IInv'
  <2> DEFINE c == [op |-> "save", expected |-> known[s].revision, edit |-> e]
             where == IF backend = "postgres" /\ known[s].revision = 0 THEN "store" ELSE FirstRead
  <2>1. c \in Call /\ c.op = "save" /\ c.edit = e BY <1>0, <1>3, Calls DEF BeginSave
  <2>2. Begin(s, c, where) /\ Unsent(c.edit) /\ ~Unsettled
    BY <1>0, <1>3, <2>1 DEF BeginSave
  <2>3. where \in {"select", "get", "store"} /\ (backend = "blob" => where = "get")
    BY <1>0
  <2> HIDE DEF c, where
  <2> QED BY <2>1, <2>2, <2>3, BeginStep
<1> QED BY <1>1, <1>2, <1>3

\* The steps that only read.
LEMMA ReadPreserves ==
  ASSUME IInv, NEW s \in Session,
         Select(s) \/ GetLegacy(s) \/ Reselect(s) \/ Judge(s) \/ GetBlob(s) \/ Fails(s)
  PROVE  IInv'
<1> USE DEF IInv
<1>0. row \in Slot /\ blob \in Slot /\ backend \in {"postgres", "blob"} /\ step[s] # "idle"
  BY DEF TypeOK, Select, GetLegacy, Reselect, Judge, GetBlob, Fails, Working
<1>1. CASE Select(s)
  <2>1. CASE row # None
    BY <1>0, <1>1, <2>1, FoundPreserves DEF Select, Unsettled, BackendsFit
  <2>2. CASE row = None
    <3>1. /\ AsTyped /\ Others(s) /\ step'[s] = "get" /\ call'[s] = call[s]
          /\ known'[s] = known[s] /\ UNCHANGED <<backend, store, observed>> /\ Note
      BY <1>1, <2>2 DEF Select, Goto, TypeOK, AsTyped, Others
    <3>2. Quiet(s) BY <3>1 DEF Quiet, NothingToldYet
    <3>3. call[s].op # "none" BY <1>0 DEF StepsFit
    <3> QED BY <3>1, <3>2, <3>3, QuietStep
  <2> QED BY <2>1, <2>2
<1>2. CASE GetLegacy(s)
  <2>1. CASE blob = None
    BY <1>0, <1>2, <2>1, Values, FoundPreserves DEF GetLegacy, Unsettled
  <2>2. CASE blob # None
    <3>1. blob = LegacySnapshot BY <1>2, <2>2 DEF GetLegacy, BackendsFit
    <3>2. [snapshot |-> blob, etag |-> etag] \in [snapshot : Slot, etag : Nat]
      BY DEF TypeOK
    <3>3. /\ AsTyped /\ Others(s) /\ step'[s] = "import" /\ call'[s] = call[s]
          /\ known'[s] = known[s] /\ UNCHANGED <<backend, store, observed>> /\ Note
          /\ held'[s].snapshot = LegacySnapshot
      BY <1>2, <2>2, <3>1, <3>2 DEF GetLegacy, Goto, TypeOK, AsTyped, Others
    <3>4. Quiet(s) BY <3>3 DEF Quiet, NothingToldYet
    <3>5. call[s].op # "none" BY <1>0 DEF StepsFit
    <3> QED BY <1>2, <3>1, <3>3, <3>4, <3>5, QuietStep DEF GetLegacy
  <2> QED BY <2>1, <2>2
<1>3. CASE Reselect(s)
  <2>1. ~Unsettled /\ backend # "blob"
    BY <1>3 DEF Reselect, NothingToldYet, BackendsFit
  <2> QED BY <1>0, <1>3, <2>1, FoundPreserves DEF Reselect
<1>4. CASE Judge(s)
  <2>1. ~Unsettled BY <1>4 DEF Judge, NothingToldYet
  <2> QED BY <1>0, <1>4, <2>1, ToldStep DEF Judge
<1>5. CASE GetBlob(s)
  <2>0. ~Unsettled /\ backend = "blob" BY <1>5 DEF GetBlob, Unsettled
  <2>1. CASE call[s].op # "save"
    BY <1>0, <1>5, <2>0, <2>1, FoundPreserves DEF GetBlob
  <2>2. CASE call[s].op = "save" /\ Expected(s)
    <3>1. [snapshot |-> blob, etag |-> etag] \in [snapshot : Slot, etag : Nat]
      BY DEF TypeOK
    <3>2. /\ AsTyped /\ Others(s) /\ step'[s] = "put" /\ call'[s] = call[s]
          /\ known'[s] = known[s] /\ UNCHANGED <<backend, store, observed>> /\ Note
          /\ held'[s] = [snapshot |-> blob, etag |-> etag]
      BY <1>5, <2>2, <3>1 DEF GetBlob, Goto, TypeOK, AsTyped, Others
    <3>3. Quiet(s) BY <2>0, <3>2 DEF Quiet
    <3>4. blob.revision = call[s].expected /\ etag <= etag
      BY <2>2 DEF Expected, TypeOK
    <3> QED BY <2>0, <2>2, <3>2, <3>3, <3>4, QuietStep
  <2>3. CASE call[s].op = "save" /\ ~Expected(s)
    BY <1>0, <1>5, <2>0, <2>3, ToldStep DEF GetBlob
  <2> QED BY <2>1, <2>2, <2>3
<1>6. CASE Fails(s)
  BY <1>6, ToldStep DEF Fails
<1> QED BY <1>1, <1>2, <1>3, <1>4, <1>5, <1>6

-----------------------------------------------------------------------------
(* Steps that store or remove                                              *)

\* Nothing but the requests of session s is begun or ended by its step.
EditsStay(s) == call'[s] \in {call[s], NoCall}

\* What is stored next is the latest of its lineage and no other snapshot of it.
LEMMA StoringStep ==
  ASSUME IInv, NEW s \in Session, NEW x \in Snapshot,
         AsTyped, Others(s), Note, EditsStay(s), Record(x), UNCHANGED backend,
         row' \in Slot, blob' \in Slot, etag' \in Nat, Current' = x,
         \/ call[s].op = "save" /\ x = Saved(s) /\ Current.revision = call[s].expected
         \/ x = LegacySnapshot /\ (Current = None \/ history = {<<0, x>>})
  PROVE  TypeOK' /\ CurrentIsLatest' /\ EditsAreOwn' /\ HistoryIsLinear'
<1> USE DEF IInv
<1>1. /\ history' = history \cup {<<removals, x>>} /\ removals' = removals /\ retired' = retired
      /\ removals \in Nat /\ history \subseteq Nat \X Snapshot
  BY DEF Record, TypeOK
<1>2. TypeOK'
  <2>1. met' \in [Session -> SUBSET Slot] BY MetTyped, Values
  <2> QED BY <1>1, <2>1 DEF TypeOK, AsTyped
<1>3. \A h \in history : h[1] \in Nat /\ h[2] \in Snapshot /\ h[2].revision \in Nat
  BY <1>1, Values
<1>4. \A h \in history : h[1] = removals =>
        \/ h[2] = x
        \/ h[2].revision < x.revision /\ h[2].body # x.body
  <2>1. CASE call[s].op = "save" /\ x = Saved(s) /\ Current.revision = call[s].expected
    <3>1. /\ x.revision = call[s].expected + 1 /\ x.body = call[s].edit
          /\ call[s].expected \in Nat
      BY <2>1, SavedTyped
    <3>2. ASSUME NEW h \in history, h[1] = removals
          PROVE  h[2].revision < x.revision /\ h[2].body # x.body
      <4>1. h[2].revision <= call[s].expected BY <2>1, <3>2 DEF CurrentIsLatest
      <4>2. h[2].revision < x.revision BY <1>3, <3>1, <4>1
      <4>3. h[2].body = call[s].edit => h[2].revision = call[s].expected + 1
        BY <2>1 DEF EditsAreOwn
      <4> QED BY <1>3, <3>1, <4>2, <4>3
    <3> QED BY <3>2
  <2>2. CASE x = LegacySnapshot /\ (Current = None \/ history = {<<0, x>>})
    BY <2>2 DEF CurrentIsLatest
  <2> QED BY <2>1, <2>2
<1>5. CurrentIsLatest'
  <2>1. ASSUME NEW h \in history'
        PROVE  h[1] <= removals' /\ (h[1] = removals' => x # None /\ h[2].revision <= x.revision)
    <3>0. x # None /\ x.revision \in Nat BY Values
    <3>1. CASE h \in history
      BY <1>1, <1>3, <1>4, <3>0, <3>1 DEF CurrentIsLatest
    <3>2. CASE h = <<removals, x>> BY <1>1, <3>0, <3>2
    <3> QED BY <1>1, <3>1, <3>2
  <2> QED BY <2>1 DEF CurrentIsLatest
<1>6. HistoryIsLinear'
  <2>1. ASSUME NEW g \in history', NEW h \in history', g[1] = h[1]
        PROVE  g[2].revision = h[2].revision <=> g[2].body = h[2].body
    <3>0. x.revision \in Nat BY Values
    <3>1. CASE g \in history /\ h \in history BY <2>1, <3>1 DEF HistoryIsLinear
    <3>2. CASE g = <<removals, x>> /\ h \in history
      BY <1>3, <1>4, <2>1, <3>0, <3>2
    <3>3. CASE g \in history /\ h = <<removals, x>>
      BY <1>3, <1>4, <2>1, <3>0, <3>3
    <3>4. CASE g = <<removals, x>> /\ h = <<removals, x>> BY <3>4
    <3> QED BY <1>1, <3>1, <3>2, <3>3, <3>4
  <2> QED BY <2>1 DEF HistoryIsLinear
<1>7. EditsAreOwn'
  <2>1. \A t, u \in Session :
          call'[t].op = "save" /\ call'[u].op = "save" /\ call'[t].edit = call'[u].edit => t = u
    BY Calls DEF EditsAreOwn, EditsStay, Others
  <2>2. \A t \in Session : call'[t].op = "save" => call'[t] = call[t]
    BY Calls DEF EditsStay, Others
  <2>3. ASSUME NEW t \in Session, NEW h \in history', call'[t].op = "save", h[2].body = call'[t].edit
        PROVE  h[2].revision = call'[t].expected + 1
    <3>1. CASE h \in history BY <2>2, <2>3, <3>1 DEF EditsAreOwn
    <3>2. CASE h = <<removals, x>>
      <4>1. call[t].op = "save" /\ x.body = call[t].edit /\ call'[t] = call[t]
        BY <2>2, <2>3, <3>2
      <4>2. call[t].edit \in Edit BY <4>1, Calls DEF TypeOK
      <4>3. call[s].op = "save" /\ x = Saved(s) BY <4>1, <4>2, Values
      <4>4. x.body = call[s].edit /\ x.revision = call[s].expected + 1 BY <4>3, SavedTyped
      <4>5. t = s BY <4>1, <4>3, <4>4 DEF EditsAreOwn
      <4> QED BY <3>2, <4>1, <4>4, <4>5
    <3> QED BY <1>1, <3>1, <3>2
  <2> QED BY <2>1, <2>3 DEF EditsAreOwn
<1> QED BY <1>2, <1>5, <1>6, <1>7

\* A removal begins a lineage of its own; removing what is not current changes nothing.
LEMMA RemovingStep ==
  ASSUME IInv, NEW s \in Session,
         AsTyped, Others(s), Note, EditsStay(s), UNCHANGED <<backend, history>>,
         row' \in Slot, blob' \in Slot, etag' \in Nat, retired' \in BOOLEAN,
         \/ removals' = removals + 1 /\ Current' = None
         \/ removals' = removals /\ Current' = Current
  PROVE  TypeOK' /\ CurrentIsLatest' /\ EditsAreOwn' /\ HistoryIsLinear'
<1> USE DEF IInv
<1>1. removals \in Nat /\ history \subseteq Nat \X Snapshot /\ row \in Slot /\ blob \in Slot
  BY DEF TypeOK
<1>2. TypeOK'
  <2>1. Current' \in Slot BY <1>1, CurrentTyped, Values
  <2>2. met' \in [Session -> SUBSET Slot] BY <2>1, MetTyped
  <2> QED BY <1>1, <2>2 DEF TypeOK, AsTyped
<1>3. CurrentIsLatest'
  <2>1. CASE removals' = removals + 1 BY <1>1, <2>1 DEF CurrentIsLatest
  <2>2. CASE removals' = removals /\ Current' = Current BY <2>2 DEF CurrentIsLatest
  <2> QED BY <2>1, <2>2
<1>4. EditsAreOwn'
  <2>1. \A t \in Session : call'[t].op = "save" => call'[t] = call[t]
    BY Calls DEF EditsStay, Others
  <2> QED BY <2>1 DEF EditsAreOwn
<1>5. HistoryIsLinear' BY DEF HistoryIsLinear
<1> QED BY <1>2, <1>3, <1>4, <1>5

\* The row is written: nothing of it was current, or what a save named.
LEMMA RowWritten ==
  ASSUME IInv, NEW s \in Session, NEW x \in Snapshot,
         AsTyped, Others(s), Note, EditsStay(s), Record(x), row' = x,
         UNCHANGED <<backend, blob, etag>>,
         \/ step[s] = "store" /\ Matches(s) /\ x = Saved(s)
         \/ step[s] = "import" /\ row = None /\ x = held[s].snapshot,
         step'[s] # "idle" => call'[s].op # "none",
         step'[s] \in {"idle", "store", "deleteRow"},
         step'[s] = "store" => call'[s].op = "save",
         step'[s] = "deleteRow" => call'[s].op = "delete"
  PROVE  IInv'
<1> USE DEF IInv
<1>0. row \in Slot /\ blob \in Slot /\ etag \in Nat /\ x # None /\ x \in Slot
  BY Values DEF TypeOK
<1>1. backend = "postgres" BY DEF BackendsFit, TypeOK
<1>2. Current' = x BY <1>0 DEF Current
<1>3. \/ call[s].op = "save" /\ x = Saved(s) /\ Current.revision = call[s].expected
      \/ x = LegacySnapshot /\ (Current = None \/ history = {<<0, x>>})
  <2>1. CASE step[s] = "store" /\ Matches(s) /\ x = Saved(s)
    <3>1. call[s].op = "save" /\ ~Unsettled BY <2>1 DEF StepsFit, NothingToldYet
    <3>2. Current = row BY <1>1, <3>1 DEF Unsettled, Current, TypeOK
    <3> QED BY <2>1, <3>1, <3>2 DEF Matches
  <2>2. CASE step[s] = "import" /\ row = None /\ x = held[s].snapshot
    <3>1. x = LegacySnapshot /\ (retired \/ blob = x) BY <2>2 DEF StepsFit
    <3> QED BY <1>0, <1>1, <2>2, <3>1 DEF NothingToldYet, Unsettled, Current
  <2> QED BY <2>1, <2>2
<1>4. TypeOK' /\ CurrentIsLatest' /\ EditsAreOwn' /\ HistoryIsLinear'
  BY <1>0, <1>2, <1>3, StoringStep
<1>5. retired' = retired BY DEF Record
<1>6. StepsFit' /\ BackendsFit'
  BY <1>1, <1>5 DEF StepsFit, BackendsFit, Others
<1>7. NothingToldYet' BY <1>0 DEF NothingToldYet, Unsettled
<1>8. HeldByPut' BY <1>1 DEF HeldByPut, BackendsFit, Others
<1> QED BY <1>4, <1>6, <1>7, <1>8

LEMMA RowWritePreserves ==
  ASSUME IInv, NEW s \in Session, Import(s) \/ Store(s) \/ WriteUnanswered(s)
  PROVE  IInv'
<1> USE DEF IInv
<1>0. /\ row \in Slot /\ backend \in {"postgres", "blob"} /\ step[s] # "idle"
      /\ call[s].op # "none" /\ call[s].op \in {"none", "read", "delete", "save"}
  BY Calls DEF TypeOK, StepsFit, Import, Store, WriteUnanswered
<1>1. step[s] = "store" => Saved(s) \in Snapshot /\ call[s].op = "save"
  BY SavedTyped DEF StepsFit
<1>2. step[s] = "import" => held[s].snapshot \in Snapshot
  BY Values DEF StepsFit
<1>3. backend = "postgres" BY <1>0 DEF BackendsFit, Import, Store, WriteUnanswered
<1>4. CASE Import(s) /\ row = None
  <2>1. row' = held[s].snapshot /\ Record(row') /\ Found(s, row') /\ row' \in Snapshot
    BY <1>2, <1>4 DEF Import
  <2>2. row' \in Slot BY <2>1, Values
  <2>3. /\ AsTyped /\ Others(s)
        /\ \/ step'[s] = "idle" /\ call'[s] = NoCall
           \/ /\ call'[s] = call[s]
              /\ \/ step'[s] = "store" /\ call[s].op = "save"
                 \/ step'[s] = "deleteRow" /\ call[s].op = "delete"
    BY <1>0, <1>3, <2>1, <2>2, FoundStep
  <2> QED BY <1>0, <1>4, <2>1, <2>3, RowWritten DEF Import, EditsStay
<1>5. CASE Import(s) /\ row # None
  <2>1. /\ AsTyped /\ Others(s) /\ step'[s] = "reselect" /\ call'[s] = call[s]
        /\ known'[s] = known[s] /\ UNCHANGED <<backend, store, observed>> /\ Note
    BY <1>5 DEF Import, Goto, TypeOK, AsTyped, Others, store
  <2>2. ~Unsettled BY <1>5 DEF Unsettled
  <2>3. Quiet(s) BY <2>1, <2>2 DEF Quiet
  <2> QED BY <1>0, <1>3, <2>1, <2>2, <2>3, QuietStep
<1>6. CASE Store(s) /\ Matches(s)
  <2>1. row' = Saved(s) /\ Record(row') /\ Tell(s, row') /\ row' \in Snapshot
    BY <1>1, <1>6 DEF Store
  <2>2. row' \in Slot \cup {Unknown} BY <2>1, Values
  <2>3. AsTyped /\ Others(s) /\ step'[s] = "idle" /\ call'[s] = NoCall
    BY <2>1, <2>2, TellStep
  <2> QED BY <1>6, <2>1, <2>3, RowWritten DEF Store, EditsStay
<1>7. CASE Store(s) /\ ~Matches(s)
  <2>1. /\ AsTyped /\ Others(s) /\ step'[s] = "judge" /\ call'[s] = call[s]
        /\ known'[s] = known[s] /\ UNCHANGED <<backend, store, observed>> /\ Note
    BY <1>7 DEF Store, Goto, TypeOK, AsTyped, Others, store
  <2>2. ~Unsettled BY <1>7 DEF Store, NothingToldYet
  <2>3. Quiet(s) BY <2>1, <2>2 DEF Quiet
  <2>4. call[s].op = "save" BY <1>1, <1>7 DEF Store
  <2> QED BY <1>3, <2>1, <2>2, <2>3, <2>4, QuietStep
<1>8. CASE WriteUnanswered(s)
  <2>1. /\ \/ step[s] = "import" /\ row = None /\ row' = held[s].snapshot
           \/ step[s] = "store" /\ Matches(s) /\ row' = Saved(s)
        /\ Record(row') /\ Tell(s, Unknown) /\ row' \in Snapshot
    BY <1>1, <1>2, <1>8 DEF WriteUnanswered
  <2>2. AsTyped /\ Others(s) /\ step'[s] = "idle" /\ call'[s] = NoCall
    BY <2>1, TellStep
  <2> QED BY <1>8, <2>1, <2>2, RowWritten DEF WriteUnanswered, EditsStay
<1> QED BY <1>4, <1>5, <1>6, <1>7, <1>8

\* A put lands on the blob of the expected revision, and outdates every other one held.
LEMMA LandPreserves ==
  ASSUME IInv, NEW s \in Session, step[s] = "put", Land(s),
         AsTyped, Others(s), Note, EditsStay(s),
         \/ step'[s] = "idle"
         \/ step'[s] = "get" /\ call'[s] = call[s]
  PROVE  IInv'
<1> USE DEF IInv
<1>0. row = None /\ ~retired /\ backend = "blob" /\ etag \in Nat /\ blob \in Slot
  BY DEF BackendsFit, TypeOK
<1>1. /\ call[s].op = "save" /\ Saved(s) \in Snapshot
      /\ call[s].expected \in Nat
  BY SavedTyped DEF StepsFit
<1>2. /\ Unmoved(s) /\ blob' = Saved(s) /\ etag' = etag + 1 /\ Record(Saved(s))
      /\ backend' = "blob" /\ row' = None /\ ~retired' /\ retired' \in BOOLEAN
  BY <1>0 DEF Land, Record, TypeOK
<1>3. Current = blob /\ Current' = Saved(s) BY <1>0, <1>2 DEF Current
<1>4. blob.revision = call[s].expected
  <2>1. CASE held[s].snapshot = None
    BY <1>2, <2>1 DEF Unmoved, HeldByPut
  <2>2. CASE held[s].snapshot # None
    BY <1>2, <2>2 DEF Unmoved, HeldByPut
  <2> QED BY <2>1, <2>2
<1>5. TypeOK' /\ CurrentIsLatest' /\ EditsAreOwn' /\ HistoryIsLinear'
  <2>1. /\ blob' \in Slot /\ row' \in Slot /\ etag' \in Nat /\ UNCHANGED backend
    BY <1>0, <1>1, <1>2, Values
  <2> QED BY <1>1, <1>2, <1>3, <1>4, <2>1, StoringStep
<1>6. StepsFit'
  <2>1. \A t \in Session : step[t] # "import" BY <1>0 DEF BackendsFit
  <2> QED BY <1>1, <2>1 DEF StepsFit, Others
<1>7. BackendsFit' BY <1>0, <1>2 DEF BackendsFit, Others
<1>8. NothingToldYet' BY <1>2 DEF NothingToldYet, Unsettled
<1>9. HeldByPut'
  <2>1. \A t \in Session : held[t].etag \in Nat BY DEF TypeOK
  <2> QED BY <1>0, <1>2, <2>1 DEF HeldByPut, Others
<1> QED BY <1>5, <1>6, <1>7, <1>8, <1>9

LEMMA PutPreserves ==
  ASSUME IInv, NEW s \in Session, Put(s) \/ \E lands \in BOOLEAN : PutFails(s, lands)
  PROVE  IInv'
<1> USE DEF IInv
<1>0. /\ step[s] = "put" /\ backend = "blob" /\ ~Unsettled
      /\ call[s].op = "save" /\ Saved(s) \in Snapshot
  BY SavedTyped DEF Put, PutFails, BackendsFit, StepsFit, TypeOK, Unsettled
<1>1. CASE Put(s)
  <2>1. Tell(s, Saved(s)) /\ Land(s) BY <1>1 DEF Put, Land
  <2>2. AsTyped /\ Others(s) /\ step'[s] = "idle" /\ call'[s] = NoCall
    BY <1>0, <2>1, Values, TellStep
  <2> QED BY <1>0, <1>1, <2>1, <2>2, LandPreserves DEF Put, EditsStay
<1>2. ASSUME NEW lands \in BOOLEAN, PutFails(s, lands), Exhausted(s) PROVE IInv'
  <2>1. Tell(s, Unknown) BY <1>2 DEF PutFails
  <2>2. AsTyped /\ Others(s) /\ step'[s] = "idle" /\ call'[s] = NoCall
    BY <2>1, TellStep
  <2>3. CASE lands
    BY <1>0, <1>2, <2>2, <2>3, LandPreserves DEF PutFails, EditsStay
  <2>4. CASE ~lands
    BY <1>2, <2>1, <2>4, ToldStep DEF PutFails
  <2> QED BY <2>3, <2>4
<1>3. ASSUME NEW lands \in BOOLEAN, PutFails(s, lands), ~Exhausted(s) PROVE IInv'
  <2>1. attempt[s] + 1 \in 0..MaxAttempts
    <3>1. attempt[s] \in 0..MaxAttempts BY DEF TypeOK
    <3> QED BY <1>3, <3>1, SnapshotsAssumption DEF Exhausted
  <2>2. /\ attempt' = [attempt EXCEPT ![s] = attempt[s] + 1]
        /\ step' = [step EXCEPT ![s] = "get"] /\ held' = [held EXCEPT ![s] = NoBlob]
        /\ UNCHANGED <<call, known>> /\ Note
    BY <1>3 DEF PutFails
  <2>3. /\ AsTyped /\ Others(s) /\ step'[s] = "get" /\ call'[s] = call[s]
        /\ known'[s] = known[s]
    BY <2>1, <2>2, Values DEF TypeOK, AsTyped, Others
  <2>4. CASE lands
    BY <1>0, <1>3, <2>2, <2>3, <2>4, LandPreserves DEF PutFails, EditsStay
  <2>5. CASE ~lands
    <3>1. Quiet(s) BY <1>0, <1>3, <2>2, <2>3, <2>5 DEF PutFails, Quiet
    <3> QED BY <1>0, <2>3, <3>1, QuietStep
  <2> QED BY <2>4, <2>5
<1> QED BY <1>1, <1>2, <1>3

LEMMA DeletePreserves ==
  ASSUME IInv, NEW s \in Session,
         (\E answered \in BOOLEAN : DeleteRow(s, answered)) \/ DeleteBlob(s)
  PROVE  IInv'
<1> USE DEF IInv
<1>0. /\ row \in Slot /\ blob \in Slot /\ etag \in Nat /\ removals \in Nat
      /\ retired \in BOOLEAN /\ None \in Slot
      /\ call[s].op = "delete" /\ ~Unsettled /\ backend \in {"postgres", "blob"}
  BY Values DEF TypeOK, StepsFit, NothingToldYet, DeleteRow, DeleteBlob
<1>1. ASSUME NEW answered \in BOOLEAN, DeleteRow(s, answered) PROVE IInv'
  <2>1. /\ row' = None /\ retired' = TRUE /\ backend = "postgres" /\ Note
        /\ UNCHANGED <<backend, blob, etag, history>>
        /\ removals' = IF row = None THEN removals ELSE removals + 1
    BY <1>0, <1>1 DEF DeleteRow, Remove, BackendsFit
  <2>2. /\ AsTyped /\ Others(s)
        /\ \/ step'[s] = "idle" /\ call'[s] = NoCall
           \/ step'[s] = "deleteBlob" /\ call'[s] = call[s]
    <3>1. CASE answered
      BY <1>1, <3>1 DEF DeleteRow, Goto, TypeOK, AsTyped, Others
    <3>2. CASE ~answered
      BY <1>1, <3>2, TellStep DEF DeleteRow
    <3> QED BY <3>1, <3>2
  <2>3. \/ removals' = removals + 1 /\ Current' = None
        \/ removals' = removals /\ Current' = Current
    BY <1>0, <2>1 DEF Current, Unsettled
  <2>4. TypeOK' /\ CurrentIsLatest' /\ EditsAreOwn' /\ HistoryIsLinear'
    BY <1>0, <2>1, <2>2, <2>3, RemovingStep DEF EditsStay
  <2>5. StepsFit' /\ BackendsFit'
    BY <1>0, <2>1, <2>2 DEF StepsFit, BackendsFit, Others
  <2>6. NothingToldYet' BY <2>1 DEF NothingToldYet, Unsettled
  <2>7. HeldByPut' BY <2>1, <2>2 DEF HeldByPut, BackendsFit, Others
  <2> QED BY <2>4, <2>5, <2>6, <2>7
<1>2. CASE DeleteBlob(s)
  <2>1. /\ blob' = None /\ Note /\ UNCHANGED <<backend, row, etag, retired, history>>
        /\ removals' = IF backend = "blob" /\ blob # None THEN removals + 1 ELSE removals
    BY <1>2 DEF DeleteBlob, Remove
  <2>2. AsTyped /\ Others(s) /\ step'[s] = "idle" /\ call'[s] = NoCall
    BY <1>2, TellStep DEF DeleteBlob
  <2>3. backend = "postgres" => retired BY <1>2 DEF DeleteBlob, BackendsFit
  <2>4. \/ removals' = removals + 1 /\ Current' = None
        \/ removals' = removals /\ Current' = Current
    BY <1>0, <2>1, <2>3 DEF Current, BackendsFit
  <2>5. TypeOK' /\ CurrentIsLatest' /\ EditsAreOwn' /\ HistoryIsLinear'
    BY <1>0, <2>1, <2>2, <2>4, RemovingStep DEF EditsStay
  <2>6. StepsFit' /\ BackendsFit'
    BY <1>0, <2>1, <2>2, <2>3 DEF StepsFit, BackendsFit, Others
  <2>7. NothingToldYet' BY <2>1 DEF NothingToldYet, Unsettled
  <2>8. HeldByPut' BY <2>1, <2>2 DEF HeldByPut, Others
  <2> QED BY <2>5, <2>6, <2>7, <2>8
<1> QED BY <1>1, <1>2

LEMMA NextPreserves == ASSUME IInv, Next PROVE IInv'
BY BeginPreserves, ReadPreserves, RowWritePreserves, PutPreserves, DeletePreserves DEF Next

LEMMA StutterPreserves == ASSUME IInv, UNCHANGED vars PROVE IInv'
BY DEF IInv, vars, store, observed, TypeOK, StepsFit, BackendsFit, NothingToldYet, Unsettled,
       HeldByPut, CurrentIsLatest, Current, EditsAreOwn, HistoryIsLinear

\* The types of the rows, blobs and requests of a project hold in every reachable state.
THEOREM TypeCorrect == Spec => []TypeOK
<1>1. IInv /\ [Next]_vars => IInv' BY NextPreserves, StutterPreserves
<1>2. IInv => TypeOK BY DEF IInv
<1> QED BY InitIInv, <1>1, <1>2, PTL DEF Spec

\* Between two removals each revision is stored once and each save is stored once, with
\* any number of attempts whose puts landed or not (writeBlob's and writePostgres' checks
\* of the expected revision).
THEOREM HistoryStaysLinear == Spec => []HistoryIsLinear
<1>1. IInv /\ [Next]_vars => IInv' BY NextPreserves, StutterPreserves
<1>2. IInv => HistoryIsLinear BY DEF IInv
<1> QED BY InitIInv, <1>1, <1>2, PTL DEF Spec

-----------------------------------------------------------------------------
(* What replaces the current snapshot                                      *)

Step(s) ==
  \/ BeginRead(s) \/ BeginDelete(s)
  \/ \E e \in Edit : BeginSave(s, e)
  \/ Select(s) \/ GetLegacy(s) \/ Import(s) \/ Reselect(s) \/ Store(s) \/ Judge(s)
  \/ WriteUnanswered(s)
  \/ GetBlob(s) \/ Put(s)
  \/ \E lands \in BOOLEAN : PutFails(s, lands)
  \/ (\E answered \in BOOLEAN : DeleteRow(s, answered)) \/ DeleteBlob(s)
  \/ Fails(s)

NamedChange ==
  Current' # Current =>
    \/ \E s \in Session : SavesOver(s, Current, Current')
    \/ Current' = None /\ \E s \in Session : call[s].op = "delete"
    \/ Current = None /\ retired /\ Current' = LegacySnapshot

\* A written row replaces what its save named, or is the imported blob.
LEMMA RowChangeNamed ==
  ASSUME IInv, NEW s \in Session, Import(s) \/ Store(s) \/ WriteUnanswered(s)
  PROVE  NamedChange
<1> USE DEF IInv
<1>0. /\ row \in Slot /\ backend = "postgres" /\ retired' = retired /\ blob' = blob
  BY DEF TypeOK, BackendsFit, Import, Store, WriteUnanswered, Record, observed
<1>1. CASE row' = row BY <1>0, <1>1 DEF NamedChange, Current
<1>2. CASE row' # row /\ step[s] = "store"
  <2>1. row' = Saved(s) /\ Matches(s)
    BY <1>2 DEF Import, Store, WriteUnanswered
  <2>2. call[s].op = "save" /\ ~Unsettled /\ row' \in Snapshot
    BY <1>2, <2>1, SavedTyped DEF StepsFit, NothingToldYet
  <2>3. Current = row BY <1>0, <2>2 DEF Unsettled, Current
  <2>4. Current' = row' BY <2>2, Values DEF Current
  <2> QED BY <2>1, <2>2, <2>3, <2>4 DEF NamedChange, SavesOver, Matches
<1>3. CASE row' # row /\ step[s] = "import"
  <2>1. row' = held[s].snapshot /\ row = None
    BY <1>3 DEF Import, Store, WriteUnanswered
  <2>2. row' = LegacySnapshot /\ (retired \/ blob = LegacySnapshot)
    BY <1>3, <2>1 DEF StepsFit
  <2>3. Current' = LegacySnapshot BY <2>2, Values DEF Current
  <2> QED BY <2>1, <2>2, <2>3 DEF NamedChange, Current
<1> QED BY <1>1, <1>2, <1>3 DEF Import, Store, WriteUnanswered

LEMMA BlobChangeNamed ==
  ASSUME IInv, NEW s \in Session, Put(s) \/ \E lands \in BOOLEAN : PutFails(s, lands)
  PROVE  NamedChange
<1> USE DEF IInv
<1>1. /\ step[s] = "put" /\ backend = "blob" /\ row = None /\ ~retired
      /\ call[s].op = "save"
  BY DEF Put, PutFails, BackendsFit, StepsFit, TypeOK
<1>2. CASE Land(s)
  <2>1. blob.revision = call[s].expected
    BY <1>1, <1>2 DEF Land, Unmoved, HeldByPut
  <2>2. Current = blob BY <1>1 DEF Current
  <2>3. Current' = Saved(s) BY <1>1, <1>2 DEF Current, Land, Record
  <2> QED BY <1>1, <2>1, <2>2, <2>3 DEF NamedChange, SavesOver
<1>3. CASE UNCHANGED <<backend, store, observed>>
  BY <1>3 DEF NamedChange, Current, store, observed
<1> QED BY <1>2, <1>3 DEF Put, PutFails

LEMMA ChangeNamed == ASSUME IInv, Next PROVE NamedChange
<1> SUFFICES ASSUME NEW s \in Session, Step(s) PROVE NamedChange
  BY DEF Next, Step
<1>1. CASE \/ BeginRead(s) \/ BeginDelete(s) \/ \E e \in Edit : BeginSave(s, e)
           \/ Select(s) \/ GetLegacy(s) \/ Reselect(s) \/ Judge(s) \/ GetBlob(s) \/ Fails(s)
  <2>1. UNCHANGED <<backend, store, observed>>
    BY <1>1 DEF BeginRead, BeginDelete, BeginSave, Begin, Select, GetLegacy, Reselect, Judge,
                GetBlob, Fails
  <2> QED BY <2>1 DEF NamedChange, Current, store, observed
<1>2. CASE Import(s) \/ Store(s) \/ WriteUnanswered(s) BY <1>2, RowChangeNamed
<1>3. CASE Put(s) \/ \E lands \in BOOLEAN : PutFails(s, lands) BY <1>3, BlobChangeNamed
<1>4. CASE \E answered \in BOOLEAN : DeleteRow(s, answered)
  <2>1. row' = None /\ retired' = TRUE /\ call[s].op = "delete"
    BY <1>4 DEF DeleteRow, IInv, StepsFit
  <2> QED BY <2>1 DEF NamedChange, Current
<1>5. CASE DeleteBlob(s)
  <2>1. /\ blob' = None /\ row' = row /\ retired' = retired /\ call[s].op = "delete"
    BY <1>5 DEF DeleteBlob, IInv, StepsFit
  <2> QED BY <2>1 DEF NamedChange, Current
<1> QED BY <1>1, <1>2, <1>3, <1>4, <1>5 DEF Step

\* What is current is only replaced by a save that named its revision, only removed by a
\* deletion, and only the blob from before the database returns after one.
THEOREM ChangesStayNamed == Spec => ChangesAreNamed
<1>1. IInv /\ [Next]_vars => IInv' BY NextPreserves, StutterPreserves
<1>2. IInv /\ [Next]_vars => [NamedChange]_vars BY ChangeNamed
<1> QED BY InitIInv, <1>1, <1>2, PTL DEF Spec, ChangesAreNamed, NamedChange

-----------------------------------------------------------------------------
(* What the sessions are told                                              *)

\* A request that missed the row and is at the blob behind it saw nothing, or the blob
\* was what was current and still is there.
MissedRow ==
  backend = "postgres" =>
    \A s \in Session : step[s] = "get" => None \in met[s] \/ (~retired /\ blob # None)

\* The row of another session's deletion was missed while this request was under way.
LEMMA MissedRowNext == ASSUME IInv, MissedRow, Next PROVE MissedRow'
<1> USE DEF IInv
<1> SUFFICES ASSUME backend' = "postgres", NEW t \in Session, step'[t] = "get",
                    retired' \/ blob' = None
             PROVE  None \in met'[t]
  BY DEF MissedRow
<1>1. PICK s \in Session : Step(s) BY DEF Next, Step
<1>2. backend = "postgres" /\ Note
  BY <1>1 DEF Step, BeginRead, BeginDelete, BeginSave, Begin, Select, GetLegacy, Import, Reselect,
              Store, Judge, WriteUnanswered, GetBlob, Put, PutFails, Land, DeleteRow,
              DeleteBlob, Fails, store, observed
<1>3. retired \/ blob = None \/ Current' = None
  <2>1. CASE (\E answered \in BOOLEAN : DeleteRow(s, answered)) \/ DeleteBlob(s)
    BY <1>2, <2>1 DEF DeleteRow, DeleteBlob, BackendsFit, Current
  <2>2. CASE ~((\E answered \in BOOLEAN : DeleteRow(s, answered)) \/ DeleteBlob(s))
    <3>1. step[s] # "put" BY <1>2 DEF BackendsFit
    <3>2. retired' = retired /\ blob' = blob
      BY <1>1, <2>2, <3>1 DEF Step, BeginRead, BeginDelete, BeginSave, Begin, Select, GetLegacy,
         Import, Reselect, Store, Judge, WriteUnanswered, GetBlob, Put, PutFails, Fails, Record,
         store, observed
    <3> QED BY <3>2
  <2> QED BY <2>1, <2>2
<1>4. \/ step[t] = "get"
      \/ step[t] = "select" /\ row' = None /\ retired' = retired /\ blob' = blob
  <2>1. CASE step'[t] = step[t] BY <2>1
  <2>2. CASE Select(t) /\ row = None BY <2>2 DEF Select, store, observed
  <2>3. CASE step'[t] # step[t] /\ ~(Select(t) /\ row = None)
    <3>1. step \in [Session -> {"idle", "select", "get", "import", "reselect", "store", "judge",
                                "put", "deleteRow", "deleteBlob"}]
      BY DEF TypeOK
    <3>2. step[s] # "put" /\ FirstRead = "select" BY <1>2 DEF BackendsFit, FirstRead
    <3>3. \A x : Found(s, x) => step'[t] # "get" \/ step'[t] = step[t]
      BY <3>1 DEF Found, Tell, End, Goto
    <3>4. \A x : Tell(s, x) => step'[t] # "get" \/ step'[t] = step[t]
      BY <3>1 DEF Tell, End
    <3>5. \A where : Goto(s, where) => step' = [step EXCEPT ![s] = where]
      BY DEF Goto
    <3> QED
      BY <1>1, <1>2, <2>3, <3>1, <3>2, <3>3, <3>4, <3>5
      DEF Step, BeginRead, BeginDelete, BeginSave, Begin, Select, GetLegacy, Import, Reselect,
          Store, Judge, WriteUnanswered, GetBlob, Put, PutFails, DeleteRow, DeleteBlob, Fails
  <2> QED BY <2>1, <2>2, <2>3
<1>5. met'[t] = met[t] \cup {Current'} BY <1>2, <1>4 DEF Note
<1>6. CASE step[t] = "get" BY <1>2, <1>3, <1>5, <1>6 DEF MissedRow
<1>7. CASE step[t] = "select" /\ row' = None /\ retired' = retired /\ blob' = blob
  BY <1>5, <1>7 DEF Current
<1> QED BY <1>4, <1>6, <1>7

TrueAnswer(s) ==
  Working(s) /\ ~Working(s)' /\ known'[s] # Unknown => known'[s] \in met[s] \cup {Current'}

LEMMA AnswersTrue ==
  ASSUME IInv, MissedRow, Next, NEW t \in Session
  PROVE  TrueAnswer(t)
<1> USE DEF IInv
<1> SUFFICES ASSUME Working(t), step'[t] = "idle", known'[t] # Unknown
             PROVE  known'[t] \in met[t] \cup {Current'}
  BY DEF TrueAnswer, Working
<1>0. /\ row \in Slot /\ blob \in Slot /\ backend \in {"postgres", "blob"}
      /\ step[t] # "idle" /\ known \in [Session -> Slot \cup {Unknown}]
      /\ step \in [Session -> {"idle", "select", "get", "import", "reselect", "store", "judge",
                               "put", "deleteRow", "deleteBlob"}]
  BY DEF TypeOK, Working
<1>1. PICK s \in Session : Step(s) BY DEF Next, Step
<1>2. s = t
  BY <1>0, <1>1 DEF Step, BeginRead, BeginDelete, BeginSave, Begin, Select, GetLegacy, Import,
     Reselect, Store, Judge, WriteUnanswered, GetBlob, Put, PutFails, DeleteRow, DeleteBlob,
     Fails, Found, Tell, End, Goto
<1>3. \A x : Found(t, x) => known'[t] = x
  BY <1>0 DEF Found, Tell, Goto
<1>4. \A x : Tell(t, x) => known'[t] = x
  BY <1>0 DEF Tell
<1>5. \A where : Goto(t, where) => step'[t] = where
  BY <1>0 DEF Goto
<1>6. CASE Select(t)
  BY <1>3, <1>5, <1>6 DEF Select, Current, store, observed
<1>7. CASE GetLegacy(t)
  <2>1. blob = None /\ known'[t] = None BY <1>3, <1>5, <1>7 DEF GetLegacy
  <2> QED BY <1>7, <2>1 DEF GetLegacy, MissedRow
<1>8. CASE Import(t) /\ row = None
  <2>1. known'[t] = row' /\ row' = held[t].snapshot BY <1>3, <1>8 DEF Import
  <2>2. row' # None BY <1>8, <2>1, Values DEF Import, StepsFit
  <2> QED BY <2>1, <2>2 DEF Current
<1>9. CASE Reselect(t)
  <2>1. ~Unsettled /\ backend = "postgres"
    BY <1>0, <1>9 DEF Reselect, NothingToldYet, BackendsFit
  <2>2. Current' = row
    BY <1>9, <2>1 DEF Reselect, Unsettled, Current, store, observed
  <2> QED BY <1>3, <1>9, <2>2 DEF Reselect
<1>10. CASE Store(t) /\ Matches(t)
  <2>1. known'[t] = row' /\ row' = Saved(t) BY <1>4, <1>10 DEF Store
  <2>2. row' # None BY <1>10, <2>1, SavedTyped, Values DEF Store, StepsFit
  <2> QED BY <2>1, <2>2 DEF Current
<1>11. CASE Judge(t)
  <2>1. ~Unsettled /\ backend = "postgres"
    BY <1>0, <1>11 DEF Judge, NothingToldYet, BackendsFit
  <2>2. Current' = row
    BY <1>11, <2>1 DEF Judge, Unsettled, Current, store, observed
  <2> QED BY <1>4, <1>11, <2>2 DEF Judge
<1>12. CASE GetBlob(t)
  <2>1. Current' = blob
    BY <1>12 DEF GetBlob, BackendsFit, Current, store, observed
  <2>2. known'[t] = blob BY <1>3, <1>4, <1>5, <1>12 DEF GetBlob
  <2> QED BY <2>1, <2>2
<1>13. CASE Put(t)
  <2>1. known'[t] = blob' BY <1>4, <1>13 DEF Put
  <2>2. Current' = blob' BY <1>13 DEF Put, Land, Record, BackendsFit, TypeOK, Current
  <2> QED BY <2>1, <2>2
<1>14. CASE \/ BeginRead(t) \/ BeginDelete(t) \/ \E e \in Edit : BeginSave(t, e)
            \/ (Import(t) /\ row # None) \/ (Store(t) /\ ~Matches(t)) \/ WriteUnanswered(t)
            \/ \E lands \in BOOLEAN : PutFails(t, lands)
            \/ (\E answered \in BOOLEAN : DeleteRow(t, answered)) \/ DeleteBlob(t)
            \/ Fails(t)
  BY <1>0, <1>4, <1>5, <1>14 DEF BeginRead, BeginDelete, BeginSave, Begin, Working, Import,
     Store, WriteUnanswered, PutFails, DeleteRow, DeleteBlob, Fails
<1>15. Step(t) BY <1>1, <1>2
<1> QED
  BY <1>15, <1>6, <1>7, <1>8, <1>9, <1>10, <1>11, <1>12, <1>13, <1>14 DEF Step

\* A session is only told of a snapshot, or of there being none, that was current at some
\* time while its request was under way.
THEOREM AnswersStayTrue == Spec => AnswersWereCurrent
<1>1. Init => MissedRow BY DEF Init, MissedRow
<1>2. IInv /\ [Next]_vars => IInv' BY NextPreserves, StutterPreserves
<1>3. IInv /\ MissedRow /\ [Next]_vars => MissedRow'
  <2>1. UNCHANGED vars /\ MissedRow => MissedRow' BY DEF MissedRow, vars, store, observed
  <2> QED BY <2>1, MissedRowNext
<1>4. IInv /\ MissedRow /\ [Next]_vars => [\A s \in Session : TrueAnswer(s)]_vars
  BY AnswersTrue
<1> QED BY InitIInv, <1>1, <1>2, <1>3, <1>4, PTL DEF Spec, AnswersWereCurrent, TrueAnswer
=============================================================================
