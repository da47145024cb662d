------------------------ MODULE ProjectDataStoreProofs ------------------------
(***************************************************************************)
(* The document store is type correct, respects its quotas, gives no two   *)
(* contents of a document's life one revision, and implements the atomic   *)
(* table of documents, for any number of callers, keys (infinitely many    *)
(* included), namespaces and quotas.                                       *)
(***************************************************************************)
EXTENDS ProjectDataStore, FiniteSetTheorems, TLAPS

(***************************************************************************)
(* What a write knows between its read and its swap: the snapshot it read  *)
(* admits it, is no newer than the stored one, and is the stored one when  *)
(* the revisions are equal.                                                *)
(***************************************************************************)
HeldBySwap(c) ==
  step[c] = "swap" =>
    /\ call[c].request.op \in Table!Writes
    /\ Table!Refusal(held[c].documents, call[c].request) = "none"
    /\ call[c].since <= held[c].revision
    /\ held[c].revision <= snapshot.revision
    /\ held[c].revision = snapshot.revision => held[c] = snapshot

PendingCall(c) ==
  step[c] # "idle" => call[c].status = "pending" /\ call[c].since <= snapshot.revision

\* Documents were created at the stamps of past writes.
CreatedBy(documents, stamp) ==
  \A k \in Key : documents[k] # NoDocument => documents[k].createdAt <= stamp

\* Of two documents of one life the one known is no newer, and the same if it has
\* the same revision.
Behind(known, now) ==
  known # NoDocument /\ now # NoDocument /\ known.createdAt = now.createdAt =>
    /\ known.revision <= now.revision
    /\ known.revision = now.revision => known = now

SeenBehind(c) ==
  /\ CreatedBy(seen[c], snapshot.revision)
  /\ \A k \in Key : Behind(seen[c][k], snapshot.documents[k])

\* The quotas, and what counting needs: finitely many documents are present.
WithinQuotas(documents) ==
  /\ IsFiniteSet(Table!Present(documents))
  /\ IsFiniteSet(Table!NamespacesUsed(documents))
  /\ \A k \in Key :
       Cardinality(Table!Present(documents) \cap Table!Namespace(k)) <= MaxDocuments
  /\ Cardinality(Table!NamespacesUsed(documents)) <= MaxNamespaces

IInv ==
  /\ TypeOK
  /\ \A c \in Client : PendingCall(c) /\ HeldBySwap(c) /\ SeenBehind(c)
  /\ CreatedBy(snapshot.documents, snapshot.revision)
  /\ WithinQuotas(snapshot.documents)

-----------------------------------------------------------------------------
(* Lemmas about the operators of the table *)

\* An update keeps a document's life and raises its revision (store.ts 142-147).
LEMMA UpdatedDocument ==
  ASSUME NEW document \in Table!Document, NEW at \in Nat
  PROVE  LET new == [document EXCEPT !.revision = @ + 1, !.updatedAt = at] IN
         /\ new \in Table!Document
         /\ new.createdAt = document.createdAt
         /\ new.revision = document.revision + 1
<1> DEFINE new == [document EXCEPT !.revision = @ + 1, !.updatedAt = at]
<1>1. document.revision + 1 \in Nat \ {0}
  BY DEF Table!Document
<1>2. new.revision = document.revision + 1 /\ new.createdAt = document.createdAt
  BY DEF Table!Document
<1>3. new \in Table!Document
  BY <1>1 DEF Table!Document
<1> QED BY <1>2, <1>3

\* What a write that was not refused found and leaves under its key.
LEMMA WrittenCases ==
  ASSUME NEW documents \in Table!Documents, NEW request \in Table!Request,
         request.op \in Table!Writes, NEW at \in Nat,
         Table!Refusal(documents, request) = "none"
  PROVE  LET old == documents[request.key]
             new == Table!Written(documents, request, at) IN
         \/ /\ request.op = "create"
            /\ old = NoDocument
            /\ new \in Table!Document
            /\ new.createdAt = at
            /\ ~Table!NamespaceFull(documents, request.key)
            /\ ~Table!ProjectFull(documents, request.key)
         \/ /\ request.op = "update"
            /\ old \in Table!Document
            /\ new \in Table!Document
            /\ new.createdAt = old.createdAt
            /\ new.revision = old.revision + 1
         \/ request.op = "delete" /\ new = NoDocument
<1>1. CASE request.op = "create"
  BY <1>1 DEF Table!Refusal, Table!Written, Table!Document
<1>2. CASE request.op = "update"
  <2>1. documents[request.key] # NoDocument
    BY <1>2 DEF Table!Refusal
  <2>2. documents[request.key] \in Table!Document
    BY <2>1 DEF Table!Documents, Table!Request
  <2> QED BY <1>2, <2>2, UpdatedDocument DEF Table!Written
<1>3. CASE request.op = "delete"
  BY <1>3 DEF Table!Written
<1> QED BY <1>1, <1>2, <1>3 DEF Table!Writes

\* A write that was not refused leaves a table of documents (store.ts 101-183),
\* changed under its key only.
LEMMA AfterTyped ==
  ASSUME NEW documents \in Table!Documents, NEW request \in Table!Request,
         request.op \in Table!Writes, NEW at \in Nat,
         Table!Refusal(documents, request) = "none"
  PROVE  /\ Table!After(documents, request, at) \in Table!Documents
         /\ Table!After(documents, request, at)[request.key]
              = Table!Written(documents, request, at)
         /\ \A k \in Key \ {request.key} :
              Table!After(documents, request, at)[k] = documents[k]
<1>1. Table!Written(documents, request, at) \in Table!Document \cup {NoDocument}
  BY WrittenCases
<1> QED BY <1>1 DEF Table!After, Table!Documents, Table!Request

\* What a caller can ask next is a typed request.
LEMMA RequestsTyped ==
  ASSUME TypeOK, NEW c \in Client, NEW request \in Table!Requests(c)
  PROVE  request \in Table!Request
<1>1. CASE request \in [op : {"get", "list", "create"}, key : Key, expected : {0}]
  BY <1>1 DEF Table!Request, Table!Op
<1>2. CASE request \in {[op |-> op, key |-> k, expected |-> seen[c][k].revision] :
                          op \in {"update", "delete"}, k \in Table!Present(seen[c])}
  <2>1. PICK op \in {"update", "delete"}, k \in Table!Present(seen[c]) :
          request = [op |-> op, key |-> k, expected |-> seen[c][k].revision]
    BY <1>2
  <2>2. k \in Key /\ seen[c][k] \in Table!Document
    BY DEF TypeOK, Table!Present, Table!Documents
  <2>3. seen[c][k].revision \in Nat
    BY <2>2 DEF Table!Document
  <2>4. op \in Table!Op
    BY DEF Table!Op
  <2>5. [op |-> op, key |-> k, expected |-> seen[c][k].revision] \in Table!Request
    BY <2>2, <2>3, <2>4 DEF Table!Request
  <2> QED BY <2>1, <2>5
<1> QED BY <1>1, <1>2 DEF Table!Requests

\* An admitted write keeps every document created no later than its stamp.
LEMMA AfterCreatedBy ==
  ASSUME NEW documents \in Table!Documents, NEW request \in Table!Request,
         request.op \in Table!Writes, NEW stamp \in Nat,
         Table!Refusal(documents, request) = "none",
         CreatedBy(documents, stamp)
  PROVE  CreatedBy(Table!After(documents, request, stamp + 1), stamp + 1)
<1> DEFINE new == Table!After(documents, request, stamp + 1)
<1> SUFFICES ASSUME NEW k \in Key, new[k] # NoDocument PROVE new[k].createdAt <= stamp + 1
  BY DEF CreatedBy
<1>1. documents[k] # NoDocument =>
        documents[k].createdAt \in Nat /\ documents[k].createdAt <= stamp
  BY DEF CreatedBy, Table!Documents, Table!Document
<1>2. CASE k # request.key
  <2>1. new[k] = documents[k] BY <1>2, AfterTyped
  <2> QED BY <1>1, <2>1
<1>3. CASE k = request.key
  <2>1. new[k] = Table!Written(documents, request, stamp + 1) BY <1>3, AfterTyped
  <2>2. request.op = "update" => documents[k] # NoDocument
    BY <1>3, StoreAssumption, WrittenCases
  <2> HIDE DEF new
  <2> QED BY <1>1, <1>3, <2>1, <2>2, WrittenCases
<1> QED BY <1>2, <1>3

\* A document known before an admitted write is behind after it: an update raises
\* the revision, a new life begins at a stamp no known document has.
LEMMA AfterBehind ==
  ASSUME NEW documents \in Table!Documents, NEW request \in Table!Request,
         request.op \in Table!Writes, NEW stamp \in Nat,
         Table!Refusal(documents, request) = "none",
         NEW known \in Table!Documents, CreatedBy(known, stamp),
         NEW k \in Key, Behind(known[k], documents[k])
  PROVE  Behind(known[k], Table!After(documents, request, stamp + 1)[k])
<1> DEFINE new == Table!After(documents, request, stamp + 1)
<1>1. CASE k # request.key
  BY <1>1, AfterTyped
<1>2. CASE k = request.key
  <2>1. new[k] = Table!Written(documents, request, stamp + 1) BY <1>2, AfterTyped
  <2> SUFFICES ASSUME known[k] # NoDocument, new[k] # NoDocument,
                      known[k].createdAt = new[k].createdAt
               PROVE  known[k].revision < new[k].revision
    <3>1. \/ known[k].revision \in Nat /\ new[k].revision \in Nat
          \/ known[k] = NoDocument
          \/ new[k] = NoDocument
      BY AfterTyped DEF Table!Documents, Table!Document
    <3> QED BY <3>1 DEF Behind
  <2>2. known[k] \in Table!Document /\ known[k].createdAt <= stamp
    BY DEF CreatedBy, Table!Documents
  <2>3. request.op # "create"
    BY <1>2, <2>1, <2>2, WrittenCases DEF Table!Document
  <2>4. /\ documents[k] \in Table!Document
        /\ new[k].createdAt = documents[k].createdAt
        /\ new[k].revision = documents[k].revision + 1
    BY <1>2, <2>1, <2>3, WrittenCases
  <2>5. known[k].revision <= documents[k].revision
    BY <2>2, <2>4, StoreAssumption DEF Behind
  <2> QED BY <2>2, <2>4, <2>5 DEF Table!Document
<1> QED BY <1>1, <1>2

\* The table counts with the same operator.
LEMMA SameCardinality == \A S : Table!Cardinality(S) = Cardinality(S)
BY DEF Table!Cardinality, Cardinality

\* An admitted write keeps the quotas (store.ts 93-100).
LEMMA AfterWithinQuotas ==
  ASSUME NEW documents \in Table!Documents, NEW request \in Table!Request,
         request.op \in Table!Writes, NEW at \in Nat,
         Table!Refusal(documents, request) = "none",
         WithinQuotas(documents)
  PROVE  WithinQuotas(Table!After(documents, request, at))
<1> DEFINE new == Table!After(documents, request, at)
           key == request.key
<1>1. key \in Key BY DEF Table!Request
<1>2. new[key] = Table!Written(documents, request, at)
      /\ \A k \in Key \ {key} : new[k] = documents[k]
  BY AfterTyped
<1>3. CASE request.op = "create"
  <2>1. documents[key] = NoDocument /\ new[key] # NoDocument
        /\ ~Table!NamespaceFull(documents, key) /\ ~Table!ProjectFull(documents, key)
    BY <1>2, <1>3, StoreAssumption, WrittenCases
  <2> HIDE DEF new
  <2>2. Table!Present(new) = Table!Present(documents) \cup {key}
        /\ key \notin Table!Present(documents)
    BY <1>1, <1>2, <2>1 DEF Table!Present
  <2>3. Table!NamespacesUsed(new) = Table!NamespacesUsed(documents) \cup {NamespaceOf[key]}
    BY <2>2 DEF Table!NamespacesUsed
  <2>4. IsFiniteSet(Table!Present(new)) /\ IsFiniteSet(Table!NamespacesUsed(new))
    BY <2>2, <2>3, FS_AddElement DEF WithinQuotas
  <2>5. ASSUME NEW k \in Key
        PROVE  Cardinality(Table!Present(new) \cap Table!Namespace(k)) <= MaxDocuments
    <3> DEFINE old == Table!Present(documents) \cap Table!Namespace(k)
    <3>1. IsFiniteSet(old) /\ Cardinality(old) \in Nat /\ Cardinality(old) <= MaxDocuments
      BY FS_Subset, FS_CardinalityType DEF WithinQuotas
    <3>2. CASE key \in Table!Namespace(k)
      <4>1. Table!Namespace(k) = Table!Namespace(key)
        BY <3>2 DEF Table!Namespace
      <4>2. ~(Cardinality(old) >= MaxDocuments)
        BY <2>1, <4>1, SameCardinality, Zenon DEF Table!NamespaceFull
      <4>3. Table!Present(new) \cap Table!Namespace(k) = old \cup {key} /\ key \notin old
        BY <2>2, <3>2
      <4> HIDE DEF old
      <4>4. Cardinality(old \cup {key}) = Cardinality(old) + 1
        BY <3>1, <4>3, FS_AddElement
      <4> QED BY <3>1, <4>2, <4>3, <4>4, StoreAssumption
    <3>3. CASE key \notin Table!Namespace(k)
      <4>1. Table!Present(new) \cap Table!Namespace(k) = old
        BY <2>2, <3>3
      <4> QED BY <3>1, <4>1
    <3> QED BY <3>2, <3>3
  <2>6. Cardinality(Table!NamespacesUsed(new)) <= MaxNamespaces
    <3> DEFINE used == Table!NamespacesUsed(documents)
    <3>1. IsFiniteSet(used) /\ Cardinality(used) \in Nat /\ Cardinality(used) <= MaxNamespaces
      BY FS_CardinalityType DEF WithinQuotas
    <3>2. NamespaceOf[key] \in used \/ ~(Cardinality(used) >= MaxNamespaces)
      BY <2>1, SameCardinality, Zenon DEF Table!ProjectFull
    <3>3. Cardinality(used \cup {NamespaceOf[key]})
            = IF NamespaceOf[key] \in used THEN Cardinality(used) ELSE Cardinality(used) + 1
      BY <3>1, FS_AddElement
    <3> HIDE DEF used
    <3> QED BY <2>3, <3>1, <3>2, <3>3, StoreAssumption DEF used
  <2> QED BY <2>4, <2>5, <2>6 DEF WithinQuotas, new
<1>4. CASE request.op \in {"update", "delete"}
  <2>1. documents[key] # NoDocument
    BY <1>4 DEF Table!Refusal
  <2> HIDE DEF new
  <2>2. Table!Present(new) \subseteq Table!Present(documents)
    BY <1>1, <1>2, <2>1 DEF Table!Present
  <2>3. Table!NamespacesUsed(new) \subseteq Table!NamespacesUsed(documents)
    BY <2>2 DEF Table!NamespacesUsed
  <2>4. /\ IsFiniteSet(Table!Present(new))
        /\ IsFiniteSet(Table!NamespacesUsed(new))
        /\ Cardinality(Table!NamespacesUsed(new)) <= MaxNamespaces
    <3>1. /\ IsFiniteSet(Table!NamespacesUsed(new))
          /\ Cardinality(Table!NamespacesUsed(new))
               <= Cardinality(Table!NamespacesUsed(documents))
      BY <2>3, FS_Subset DEF WithinQuotas
    <3>2. /\ Cardinality(Table!NamespacesUsed(new)) \in Nat
          /\ Cardinality(Table!NamespacesUsed(documents)) \in Nat
      BY <3>1, FS_CardinalityType DEF WithinQuotas
    <3>3. IsFiniteSet(Table!Present(new))
      BY <2>2, FS_Subset DEF WithinQuotas
    <3> QED BY <3>1, <3>2, <3>3, StoreAssumption DEF WithinQuotas
  <2>5. ASSUME NEW k \in Key
        PROVE  Cardinality(Table!Present(new) \cap Table!Namespace(k)) <= MaxDocuments
    <3> DEFINE old == Table!Present(documents) \cap Table!Namespace(k)
               now == Table!Present(new) \cap Table!Namespace(k)
    <3>1. IsFiniteSet(old) /\ Cardinality(old) <= MaxDocuments
      BY FS_Subset DEF WithinQuotas
    <3>2. now \subseteq old BY <2>2
    <3> HIDE DEF old, now
    <3>3. IsFiniteSet(now) /\ Cardinality(now) <= Cardinality(old)
      BY <3>1, <3>2, FS_Subset
    <3>4. Cardinality(now) \in Nat /\ Cardinality(old) \in Nat
      BY <3>1, <3>3, FS_CardinalityType
    <3> QED BY <3>1, <3>3, <3>4, StoreAssumption DEF now
  <2> QED BY <2>4, <2>5 DEF WithinQuotas, new
<1> QED BY <1>3, <1>4 DEF Table!Writes

-----------------------------------------------------------------------------
(* Lemmas about the steps of an operation *)

\* An answer leaves the client idle and every other client where it was.
LEMMA AnsweredStep ==
  ASSUME TypeOK, NEW c \in Client, NEW status \in Table!Status, Answered(c, status)
  PROVE  /\ call' \in [Client -> Table!Call]
         /\ step' \in [Client -> {"idle", "read", "swap"}]
         /\ held' \in [Client -> Snapshot]
         /\ step'[c] = "idle"
         /\ \A d \in Client \ {c} :
              step'[d] = step[d] /\ held'[d] = held[d] /\ call'[d] = call[d]
<1>1. EmptySnapshot \in Snapshot
  BY DEF EmptySnapshot, Snapshot, Table!NoDocuments, Table!Documents
<1>2. call' \in [Client -> Table!Call] /\ \A d \in Client \ {c} : call'[d] = call[d]
  BY DEF TypeOK, Answered, Table!Answer, Table!Call
<1>3. /\ step' \in [Client -> {"idle", "read", "swap"}]
      /\ held' \in [Client -> Snapshot]
      /\ step'[c] = "idle"
      /\ \A d \in Client \ {c} : step'[d] = step[d] /\ held'[d] = held[d]
  BY <1>1 DEF TypeOK, Answered
<1> QED BY <1>2, <1>3

\* What a caller is shown replaces what it knew of the shown keys.
LEMMA LearnStep ==
  ASSUME TypeOK, NEW c \in Client, NEW documents \in Table!Documents,
         Table!Learn(c, documents)
  PROVE  /\ seen' \in [Client -> Table!Documents]
         /\ \A d \in Client \ {c} : seen'[d] = seen[d]
         /\ \A k \in Key : seen'[c][k] = documents[k] \/ seen'[c][k] = seen[c][k]
<1> DEFINE new == [k \in Key |-> IF k \in Table!Shown(documents, call[c].request)
                                THEN documents[k] ELSE seen[c][k]]
<1>1. new \in Table!Documents
  BY DEF TypeOK, Table!Documents
<1>2. seen' = [seen EXCEPT ![c] = new]
  BY DEF Table!Learn
<1>3. seen \in [Client -> Table!Documents]
  BY DEF TypeOK
<1>4. \A k \in Key : new[k] = documents[k] \/ new[k] = seen[c][k]
  OBVIOUS
<1> HIDE DEF new
<1> QED BY <1>1, <1>2, <1>3, <1>4

\* An answer that leaves the snapshot alone preserves the invariant, when what it
\* shows its caller is in the snapshot.
LEMMA AnswerPreserves ==
  ASSUME IInv, NEW c \in Client, NEW status \in Table!Status, Answered(c, status),
         UNCHANGED snapshot,
         UNCHANGED seen \/ Table!Learn(c, snapshot.documents)
  PROVE  IInv'
<1>1. TypeOK /\ snapshot \in Snapshot /\ snapshot.documents \in Table!Documents
  BY DEF IInv, TypeOK, Snapshot
<1>2. TypeOK'
  BY <1>1, AnsweredStep, LearnStep DEF TypeOK
<1>3. \A d \in Client : PendingCall(d)' /\ HeldBySwap(d)'
  BY <1>1, AnsweredStep DEF IInv, PendingCall, HeldBySwap
<1>4. \A d \in Client : SeenBehind(d)'
  <2>1. CASE UNCHANGED seen
    BY <2>1 DEF IInv, SeenBehind, CreatedBy, Behind
  <2>2. CASE Table!Learn(c, snapshot.documents)
    <3>1. \A d \in Client \ {c} : SeenBehind(d)'
      BY <1>1, <2>2, LearnStep DEF IInv, SeenBehind, CreatedBy, Behind
    <3>2. SeenBehind(c)'
      <4> SUFFICES ASSUME NEW k \in Key
                   PROVE  /\ seen'[c][k] # NoDocument =>
                               seen'[c][k].createdAt <= snapshot.revision
                          /\ Behind(seen'[c][k], snapshot.documents[k])
        BY DEF SeenBehind, CreatedBy, Behind
      <4>1. CASE seen'[c][k] = seen[c][k]
        BY <4>1 DEF IInv, SeenBehind, CreatedBy
      <4>2. CASE seen'[c][k] = snapshot.documents[k]
        <5>1. snapshot.documents[k] # NoDocument => snapshot.documents[k].revision \in Nat
          BY <1>1 DEF Table!Documents, Table!Document
        <5> QED BY <4>2, <5>1 DEF IInv, CreatedBy, Behind
      <4> QED BY <1>1, <2>2, <4>1, <4>2, LearnStep
    <3> QED BY <3>1, <3>2
  <2> QED BY <2>1, <2>2
<1>5. CreatedBy(snapshot.documents, snapshot.revision)' /\ WithinQuotas(snapshot.documents)'
  BY DEF IInv, CreatedBy, WithinQuotas, Table!Present, Table!NamespacesUsed, Table!Namespace
<1> QED BY <1>2, <1>3, <1>4, <1>5 DEF IInv

\* A swap whose expected revision is the stored one applies an admitted write to
\* the stored documents.
LEMMA SwapApplies ==
  ASSUME IInv, NEW c \in Client, step[c] = "swap", Expected(c)
  PROVE  /\ call[c].request \in Table!Request
         /\ call[c].request.op \in Table!Writes
         /\ snapshot.revision \in Nat
         /\ snapshot.documents \in Table!Documents
         /\ Table!Refusal(snapshot.documents, call[c].request) = "none"
         /\ NextSnapshot(c).revision = snapshot.revision + 1
         /\ NextSnapshot(c).documents =
              Table!After(snapshot.documents, call[c].request, snapshot.revision + 1)
         /\ NextSnapshot(c).documents \in Table!Documents
         /\ NextSnapshot(c) \in Snapshot
<1>1. call[c].request \in Table!Request
  BY DEF IInv, TypeOK, Table!Call
<1>2. snapshot.revision \in Nat /\ snapshot.documents \in Table!Documents
  BY DEF IInv, TypeOK, Snapshot
<1>3. /\ held[c] = snapshot
      /\ call[c].request.op \in Table!Writes
      /\ Table!Refusal(snapshot.documents, call[c].request) = "none"
  BY DEF IInv, HeldBySwap, Expected
<1>4. /\ NextSnapshot(c).revision = snapshot.revision + 1
      /\ NextSnapshot(c).documents =
           Table!After(snapshot.documents, call[c].request, snapshot.revision + 1)
  BY <1>3 DEF NextSnapshot
<1>5. snapshot.revision + 1 \in Nat BY <1>2
<1>6. NextSnapshot(c).documents \in Table!Documents
  BY <1>1, <1>2, <1>3, <1>4, <1>5, AfterTyped
<1>7. NextSnapshot(c) \in Snapshot
  BY <1>4, <1>5, <1>6 DEF NextSnapshot, Snapshot
<1> QED BY <1>1, <1>2, <1>3, <1>4, <1>6, <1>7

\* A swap preserves the invariant, answered or not.
LEMMA SwapPreserves ==
  ASSUME IInv, NEW c \in Client, step[c] = "swap", Expected(c),
         snapshot' = NextSnapshot(c),
         NEW status \in Table!Status, Answered(c, status),
         UNCHANGED seen \/ Table!Learn(c, NextSnapshot(c).documents)
  PROVE  IInv'
<1> DEFINE now == NextSnapshot(c).documents
<1>1. /\ snapshot.revision \in Nat /\ snapshot'.revision = snapshot.revision + 1
      /\ snapshot'.documents = now /\ now \in Table!Documents
      /\ snapshot' \in Snapshot
      /\ TypeOK
  BY SwapApplies DEF IInv
<1>2. TypeOK'
  BY <1>1, AnsweredStep, LearnStep DEF TypeOK
<1>3. \A d \in Client : PendingCall(d)' /\ HeldBySwap(d)'
  <2> SUFFICES ASSUME NEW d \in Client \ {c}
               PROVE  PendingCall(d)' /\ HeldBySwap(d)'
    BY <1>1, AnsweredStep DEF PendingCall, HeldBySwap
  <2>1. call[d].since \in Nat /\ held[d].revision \in Nat
    BY <1>1 DEF TypeOK, Table!Call, Snapshot
  <2> QED BY <1>1, <2>1, AnsweredStep DEF IInv, PendingCall, HeldBySwap
<1>4. CreatedBy(now, snapshot.revision + 1)
  BY <1>1, SwapApplies, AfterCreatedBy DEF IInv
<1>5. \A d \in Client, k \in Key :
        /\ seen[d][k] # NoDocument => seen[d][k].createdAt <= snapshot.revision + 1
        /\ Behind(seen[d][k], now[k])
  <2> SUFFICES ASSUME NEW d \in Client, NEW k \in Key
               PROVE  /\ seen[d][k] # NoDocument =>
                           seen[d][k].createdAt <= snapshot.revision + 1
                      /\ Behind(seen[d][k], now[k])
    OBVIOUS
  <2>1. seen[d] \in Table!Documents /\ CreatedBy(seen[d], snapshot.revision)
        /\ Behind(seen[d][k], snapshot.documents[k])
    BY <1>1 DEF IInv, TypeOK, SeenBehind
  <2>2. seen[d][k] # NoDocument =>
          seen[d][k].createdAt \in Nat /\ seen[d][k].createdAt <= snapshot.revision
    BY <2>1 DEF CreatedBy, Table!Documents, Table!Document
  <2>3. Behind(seen[d][k], now[k])
    BY <1>1, <2>1, SwapApplies, AfterBehind
  <2> QED BY <1>1, <2>2, <2>3
<1>6. \A d \in Client : SeenBehind(d)'
  <2> SUFFICES ASSUME NEW d \in Client, NEW k \in Key
               PROVE  /\ seen'[d][k] # NoDocument =>
                           seen'[d][k].createdAt <= snapshot.revision + 1
                      /\ Behind(seen'[d][k], now[k])
    BY <1>1 DEF SeenBehind, CreatedBy, Behind
  <2>1. CASE seen'[d][k] = seen[d][k]
    BY <1>5, <2>1
  <2>2. CASE seen'[d][k] = now[k]
    <3>1. now[k] # NoDocument => now[k].revision \in Nat
      BY <1>1 DEF Table!Documents, Table!Document
    <3> QED BY <1>4, <2>2, <3>1 DEF CreatedBy, Behind
  <2> QED BY <1>1, <2>1, <2>2, LearnStep
<1>7. WithinQuotas(now)
  BY <1>1, SwapApplies, AfterWithinQuotas DEF IInv
<1>8. CreatedBy(snapshot.documents, snapshot.revision)'
  BY <1>1, <1>4 DEF CreatedBy
<1>9. WithinQuotas(snapshot.documents)'
  BY <1>1, <1>7 DEF WithinQuotas, Table!Present, Table!NamespacesUsed, Table!Namespace
<1> QED BY <1>2, <1>3, <1>6, <1>8, <1>9 DEF IInv

-----------------------------------------------------------------------------
(* The inductive invariant *)

\* The invariant holds of a project without documents and idle callers.
LEMMA InitEstablishes == Init => IInv
<1> SUFFICES ASSUME Init PROVE IInv
  OBVIOUS
<1>1. (CHOOSE k \in Key : TRUE) \in Key
  BY StoreAssumption
<1>2. Table!NoDocuments \in Table!Documents
      /\ \A k \in Key : Table!NoDocuments[k] = NoDocument
  BY DEF Table!NoDocuments, Table!Documents
<1>3. EmptySnapshot \in Snapshot
  BY <1>2 DEF EmptySnapshot, Snapshot
<1>4. TypeOK
  BY <1>1, <1>2, <1>3 DEF Init, TypeOK, Table!Call, Table!Request, Table!Op, Table!Status
<1>5. snapshot.revision = 0 /\ snapshot.documents = Table!NoDocuments
  BY DEF Init, EmptySnapshot
<1>6. \A c \in Client : PendingCall(c) /\ HeldBySwap(c) /\ SeenBehind(c)
  BY <1>2, <1>5 DEF Init, PendingCall, HeldBySwap, SeenBehind, CreatedBy, Behind
<1>7. CreatedBy(snapshot.documents, snapshot.revision)
  BY <1>2, <1>5 DEF CreatedBy
<1>8. WithinQuotas(snapshot.documents)
  <2>1. Table!Present(snapshot.documents) = {}
    BY <1>2, <1>5 DEF Table!Present
  <2>2. Table!NamespacesUsed(snapshot.documents) = {}
    BY <2>1 DEF Table!NamespacesUsed
  <2> QED BY <2>1, <2>2, FS_EmptySet, StoreAssumption DEF WithinQuotas
<1> QED BY <1>4, <1>6, <1>7, <1>8 DEF IInv

\* Every step of every operation preserves it.
LEMMA NextPreserves == IInv /\ [Next]_vars => IInv'
<1> SUFFICES ASSUME IInv, [Next]_vars PROVE IInv'
  OBVIOUS
<1>1. "ok" \in Table!Status /\ "conflict" \in Table!Status
      /\ "quota_exceeded" \in Table!Status /\ "unavailable" \in Table!Status
  BY DEF Table!Status, Table!Refusals
<1>2. ASSUME NEW c \in Client, NEW request \in Table!Requests(c), Invoke(c, request)
      PROVE  IInv'
  <2>1. request \in Table!Request
    BY RequestsTyped DEF IInv
  <2>2. snapshot.revision \in Nat
    BY DEF IInv, TypeOK, Snapshot
  <2>3. call' \in [Client -> Table!Call]
    <3>1. [request |-> request, status |-> "pending", since |-> snapshot.revision]
            \in Table!Call
      BY <2>1, <2>2 DEF Table!Call, Table!Status
    <3> QED BY <1>2, <3>1 DEF Invoke, IInv, TypeOK
  <2>4. TypeOK'
    BY <1>2, <2>3 DEF Invoke, IInv, TypeOK
  <2>5. \A d \in Client : PendingCall(d)' /\ HeldBySwap(d)'
    BY <1>2, <2>2 DEF Invoke, IInv, TypeOK, PendingCall, HeldBySwap
  <2>6. \A d \in Client : SeenBehind(d)'
    BY <1>2 DEF Invoke, IInv, SeenBehind, CreatedBy, Behind
  <2>7. CreatedBy(snapshot.documents, snapshot.revision)'
        /\ WithinQuotas(snapshot.documents)'
    BY <1>2 DEF Invoke, IInv, CreatedBy, WithinQuotas, Table!Present,
                Table!NamespacesUsed, Table!Namespace
  <2> QED BY <2>4, <2>5, <2>6, <2>7 DEF IInv
<1>3. ASSUME NEW c \in Client, Read(c) PROVE IInv'
  BY <1>1, <1>3, AnswerPreserves DEF Read
<1>4. ASSUME NEW c \in Client, ReadRefused(c) PROVE IInv'
  <2>1. Table!Refusal(snapshot.documents, call[c].request) \in Table!Status
    BY DEF Table!Refusal, Table!Status, Table!Refusals
  <2> QED BY <1>4, <2>1, AnswerPreserves DEF ReadRefused
<1>5. ASSUME NEW c \in Client, ReadTooLarge(c) PROVE IInv'
  BY <1>1, <1>5, AnswerPreserves DEF ReadTooLarge
<1>6. ASSUME NEW c \in Client, ReadForWrite(c) PROVE IInv'
  <2>1. snapshot \in Snapshot /\ snapshot.revision \in Nat
    BY DEF IInv, TypeOK, Snapshot
  <2>2. TypeOK'
    BY <1>6, <2>1 DEF ReadForWrite, Reads, IInv, TypeOK
  <2>3. \A d \in Client : PendingCall(d)' /\ HeldBySwap(d)'
    BY <1>6, <2>1 DEF ReadForWrite, Reads, IInv, TypeOK, PendingCall, HeldBySwap
  <2>4. \A d \in Client : SeenBehind(d)'
    BY <1>6 DEF ReadForWrite, IInv, SeenBehind, CreatedBy, Behind
  <2>5. CreatedBy(snapshot.documents, snapshot.revision)'
        /\ WithinQuotas(snapshot.documents)'
    BY <1>6 DEF ReadForWrite, IInv, CreatedBy, WithinQuotas, Table!Present,
                Table!NamespacesUsed, Table!Namespace
  <2> QED BY <2>2, <2>3, <2>4, <2>5 DEF IInv
<1>7. ASSUME NEW c \in Client, Swap(c) PROVE IInv'
  BY <1>1, <1>7, SwapPreserves DEF Swap
<1>8. ASSUME NEW c \in Client, SwapUnanswered(c) PROVE IInv'
  BY <1>1, <1>8, SwapPreserves DEF SwapUnanswered
<1>9. ASSUME NEW c \in Client, SwapConflict(c) PROVE IInv'
  BY <1>1, <1>9, AnswerPreserves DEF SwapConflict
<1>10. ASSUME NEW c \in Client, BackendFails(c) PROVE IInv'
  BY <1>1, <1>10, AnswerPreserves DEF BackendFails
<1>11. CASE UNCHANGED vars
  BY <1>11 DEF vars, IInv, TypeOK, PendingCall, HeldBySwap, SeenBehind, CreatedBy, Behind,
               WithinQuotas, Table!Present, Table!NamespacesUsed, Table!Namespace
<1> QED
  BY <1>2, <1>3, <1>4, <1>5, <1>6, <1>7, <1>8, <1>9, <1>10, <1>11 DEF Next

\* The variables keep their types through every operation of every caller.
THEOREM TypeCorrect == Spec => []TypeOK
<1>1. IInv => TypeOK BY DEF IInv
<1> QED BY <1>1, InitEstablishes, NextPreserves, PTL DEF Spec

\* However many creates were admitted on snapshots that are no longer stored, what
\* is stored never exceeds a quota (store.ts 93-100, 117).
THEOREM QuotasAreRespected == Spec => []QuotasRespected
<1>1. IInv => QuotasRespected BY DEF IInv, WithinQuotas, QuotasRespected
<1> QED BY <1>1, InitEstablishes, NextPreserves, PTL DEF Spec

\* Within the life of a document one revision names one content (store.ts 137-147).
THEOREM RevisionsNameContents == Spec => []RevisionNamesContent
<1>1. IInv => RevisionNamesContent
  BY DEF IInv, SeenBehind, Behind, RevisionNamesContent
<1> QED BY <1>1, InitEstablishes, NextPreserves, PTL DEF Spec

-----------------------------------------------------------------------------
(* The refinement *)

\* An operation takes effect or is refused at the step that answers it.
LEMMA StepRefines ==
  ASSUME IInv, NEW c \in Client
  PROVE  /\ Read(c) => Table!Read(c)
         /\ ReadRefused(c) => Table!Refuse(c)
         /\ ReadTooLarge(c) => Table!TooLarge(c)
         /\ ReadForWrite(c) => UNCHANGED Table!tableVars
         /\ Swap(c) => Table!Commit(c)
         /\ SwapUnanswered(c) => Table!CommitUnanswered(c)
         /\ SwapConflict(c) => Table!Contend(c)
         /\ BackendFails(c) => Table!Fail(c)
<1>1. step[c] # "idle" => call[c].status = "pending"
  BY DEF IInv, PendingCall
<1>2. Read(c) => Table!Read(c)
  BY <1>1 DEF Read, Answered, Table!Read
<1>3. ReadRefused(c) => Table!Refuse(c)
  BY <1>1 DEF ReadRefused, Reads, Answered, Table!Refuse
<1>4. ReadTooLarge(c) => Table!TooLarge(c)
  BY <1>1 DEF ReadTooLarge, Reads, Answered, Table!TooLarge, Table!Writes
<1>5. ReadForWrite(c) => UNCHANGED Table!tableVars
  BY DEF ReadForWrite, Table!tableVars
<1>6. Swap(c) => Table!Commit(c)
  BY <1>1, SwapApplies DEF Swap, Answered, Table!Commit, Table!Apply
<1>7. SwapUnanswered(c) => Table!CommitUnanswered(c)
  BY <1>1, SwapApplies DEF SwapUnanswered, Answered, Table!CommitUnanswered, Table!Apply
<1>8. SwapConflict(c) => Table!Contend(c)
  <2> SUFFICES ASSUME SwapConflict(c) PROVE Table!Contend(c)
    OBVIOUS
  <2>1. call[c].since \in Nat /\ held[c].revision \in Nat /\ snapshot.revision \in Nat
    BY DEF IInv, TypeOK, Table!Call, Snapshot
  <2>2. call[c].request.op \in Table!Writes /\ snapshot.revision > call[c].since
    BY <2>1 DEF IInv, HeldBySwap, SwapConflict, Expected
  <2> QED BY <1>1, <2>2 DEF SwapConflict, Answered, Table!Contend
<1>9. BackendFails(c) => Table!Fail(c)
  BY <1>1 DEF BackendFails, Answered, Table!Fail
<1> QED BY <1>2, <1>3, <1>4, <1>5, <1>6, <1>7, <1>8, <1>9

\* Reading the snapshot, changing it in memory and swapping it in is one atomic
\* operation on the table of documents (store.ts 57-185).
THEOREM StoreImplementsTable == Spec => ImplementsTable
<1>1. Init => Table!Init
  BY DEF Init, EmptySnapshot, Table!Init
<1>2. IInv /\ [Next]_vars => [Table!Next]_(Table!tableVars)
  <2> SUFFICES ASSUME IInv, Next PROVE [Table!Next]_(Table!tableVars)
    BY DEF vars, Table!tableVars
  <2>1. ASSUME NEW c \in Client, NEW request \in Table!Requests(c), Invoke(c, request)
        PROVE  Table!Next
    BY <2>1 DEF Invoke, Table!Invoke, Table!Next
  <2> QED BY <2>1, StepRefines DEF Next, Table!Next
<1> QED
  BY <1>1, <1>2, InitEstablishes, NextPreserves, PTL DEF Spec, ImplementsTable, Table!Spec

=============================================================================
