----------------------- MODULE DurableBackendProofs -----------------------
(***************************************************************************)
(* Both durable backends are type correct and implement the same atomic    *)
(* register, and the Blob backend never gives one storeRevision to two     *)
(* snapshots: for any number of clients, any contents and any bound on the *)
(* revisions.                                                              *)
(***************************************************************************)
EXTENDS BlobSnapshots, PostgresSnapshots, TLAPS

(***************************************************************************)
(*                           The Blob backend                              *)
(***************************************************************************)

(***************************************************************************)
(* What one client knows between its two storage calls: its put, if it is  *)
(* admitted, replaces exactly what it read; and if it is refused, the blob *)
(* has left the revision its request expects.                              *)
(***************************************************************************)
HeldByPut(c) ==
  step[c] = "put" =>
    /\ call[c].request.op # "read"
    /\ call[c].request.op = "deleteProject" => held[c].envelope.live
    /\ held[c].envelope.revision = call[c].request.expected
    /\ held[c].etag = etag => held[c].envelope = blob
    /\ held[c].etag # etag =>
         held[c].etag < etag /\ held[c].envelope.revision < blob.revision

\* Only a pending call is between storage calls.
PendingSteps == \A c \in Client : step[c] # "idle" => call[c].phase = "pending"

\* The blob is the latest of all envelopes ever stored.
BlobIsLatest == blob \in history /\ \A x \in history : x.revision <= blob.revision

BlobIInv ==
  /\ BlobTypeOK
  /\ PendingSteps
  /\ \A c \in Client : HeldByPut(c)
  /\ BlobIsLatest
  /\ RevisionIdentifiesSnapshot

-----------------------------------------------------------------------------
(* Lemmas about the register's operators *)

\* Every request a caller can make (backend arguments, types.ts 85-98) is typed.
LEMMA BlobRequestsTyped ==
  ASSUME NEW current \in Nat, NEW request \in BlobRegister!Requests(current)
  PROVE  request \in BlobRegister!Request
BY DEF BlobRegister!Requests, BlobRegister!Request, BlobRegister!NoRequest

\* What nextEnvelope (durable-backend.ts 147-160) builds of a typed envelope and
\* request is a typed envelope.
LEMMA AfterTyped ==
  ASSUME NEW envelope \in BlobRegister!Envelope, NEW request \in BlobRegister!Request
  PROVE  BlobRegister!After(envelope, request) \in BlobRegister!Envelope
BY DEF BlobRegister!After, BlobRegister!Envelope, BlobRegister!Request

\* A write that changes the envelope raises its revision by one.
LEMMA AfterRaises ==
  ASSUME NEW envelope \in BlobRegister!Envelope, NEW request \in BlobRegister!Request,
         request.op # "read",
         request.op = "deleteProject" => envelope.live,
         envelope.revision = request.expected
  PROVE  BlobRegister!After(envelope, request).revision = envelope.revision + 1
BY DEF BlobRegister!After, BlobRegister!Envelope, BlobRegister!Request

\* Every answer is a typed reply.
LEMMA BlobRepliesTyped ==
  /\ \A status \in {"none", "ok", "conflict", "unavailable"} :
       BlobRegister!Answer(status) \in BlobRegister!Reply
  /\ \A envelope \in BlobRegister!Envelope, request \in BlobRegister!Request :
       BlobRegister!Success(envelope, request) \in BlobRegister!Reply
BY DEF BlobRegister!Answer, BlobRegister!Reply, BlobRegister!Success, BlobRegister!Envelope, BlobRegister!Request

-----------------------------------------------------------------------------
(* Lemmas about the steps of an operation *)

\* A typed answer leaves the client idle and everyone else where they were.
LEMMA BlobAnsweredStep ==
  ASSUME BlobTypeOK, NEW c \in Client, NEW reply \in BlobRegister!Reply, BlobAnswered(c, reply)
  PROVE  /\ call' \in [Client -> [phase : {"idle", "pending", "done"},
                                  request : BlobRegister!Request,
                                  reply : BlobRegister!Reply]]
         /\ step' \in [Client -> {"idle", "get", "put"}]
         /\ held' \in [Client -> [envelope : BlobRegister!Envelope, etag : Nat]]
         /\ step'[c] = "idle"
         /\ \A d \in Client \ {c} :
              step'[d] = step[d] /\ held'[d] = held[d] /\ call'[d] = call[d]
<1>1. Nothing \in [envelope : BlobRegister!Envelope, etag : Nat]
  BY BackendAssumption DEF Nothing, BlobRegister!Missing, BlobRegister!Envelope
<1> QED
  BY <1>1 DEF BlobTypeOK, BlobAnswered, BlobRegister!Finish

\* An answer that leaves the blob alone preserves the invariant.
LEMMA BlobAnswerPreserves ==
  ASSUME BlobIInv, NEW c \in Client, NEW reply \in BlobRegister!Reply, BlobAnswered(c, reply),
         UNCHANGED <<blob, etag, history>>
  PROVE  BlobIInv'
<1>1. BlobTypeOK' BY BlobAnsweredStep DEF BlobIInv, BlobTypeOK
<1>2. PendingSteps' BY BlobAnsweredStep DEF BlobIInv, PendingSteps
<1>3. \A d \in Client : HeldByPut(d)' BY BlobAnsweredStep DEF BlobIInv, HeldByPut
<1>4. BlobIsLatest' /\ RevisionIdentifiesSnapshot'
  BY DEF BlobIInv, BlobIsLatest, RevisionIdentifiesSnapshot
<1> QED BY <1>1, <1>2, <1>3, <1>4 DEF BlobIInv

\* A put whose precondition holds replaces the envelope that was read.
LEMMA PutReplacesHeld ==
  ASSUME BlobIInv, NEW c \in Client, step[c] = "put", Precondition(c)
  PROVE  /\ NextEnvelope(c) = BlobRegister!After(blob, call[c].request)
         /\ NextEnvelope(c) \in BlobRegister!Envelope
         /\ NextEnvelope(c).revision = blob.revision + 1
         /\ call[c].request \in BlobRegister!Request
         /\ call[c].request.op # "read"
         /\ BlobRegister!Admits(blob, call[c].request)
<1>1. call[c].request \in BlobRegister!Request /\ blob \in BlobRegister!Envelope
  BY DEF BlobIInv, BlobTypeOK
<1>2. /\ call[c].request.op # "read"
      /\ call[c].request.op = "deleteProject" => blob.live
      /\ blob.revision = call[c].request.expected
      /\ held[c].envelope = blob
  BY DEF BlobIInv, HeldByPut, Precondition
<1>3. NextEnvelope(c) = BlobRegister!After(blob, call[c].request)
  BY <1>2 DEF NextEnvelope
<1> QED
  BY <1>1, <1>2, <1>3, AfterTyped, AfterRaises DEF BlobRegister!Admits

\* A put preserves the invariant, answered or not: it stores a revision that no
\* envelope had, and outdates what every other client holds.
LEMMA StorePreserves ==
  ASSUME BlobIInv, NEW c \in Client, step[c] = "put", Precondition(c), Store(c),
         NEW reply \in BlobRegister!Reply, BlobAnswered(c, reply)
  PROVE  BlobIInv'
<1> DEFINE next == NextEnvelope(c)
<1>1. next \in BlobRegister!Envelope /\ next.revision = blob.revision + 1
  BY PutReplacesHeld
<1>2. blob' = next /\ etag' = etag + 1 /\ history' = history \cup {next}
  BY DEF Store
<1>3. etag \in Nat /\ blob.revision \in Nat /\ history \subseteq BlobRegister!Envelope
  BY DEF BlobIInv, BlobTypeOK, BlobRegister!Envelope
<1> HIDE DEF next
<1>4. BlobTypeOK'
  BY <1>1, <1>2, <1>3, BlobAnsweredStep DEF BlobIInv, BlobTypeOK
<1>5. PendingSteps' BY BlobAnsweredStep DEF BlobIInv, PendingSteps
<1>6. \A d \in Client : HeldByPut(d)'
  <2> SUFFICES ASSUME NEW d \in Client \ {c}, step[d] = "put"
               PROVE  /\ held[d].etag < etag + 1
                      /\ held[d].envelope.revision < blob.revision + 1
    BY <1>1, <1>2, BlobAnsweredStep DEF BlobIInv, HeldByPut
  <2>1. held[d].etag \in Nat /\ held[d].envelope.revision \in Nat
    BY DEF BlobIInv, BlobTypeOK, BlobRegister!Envelope
  <2>2. CASE held[d].etag = etag
    BY <2>1, <2>2, <1>3 DEF BlobIInv, HeldByPut
  <2>3. CASE held[d].etag # etag
    BY <2>1, <2>3, <1>3 DEF BlobIInv, HeldByPut
  <2> QED BY <2>2, <2>3
<1>7. \A x \in history : x.revision \in Nat /\ x.revision < next.revision
  BY <1>1, <1>3 DEF BlobIInv, BlobIsLatest, BlobRegister!Envelope
<1>8. BlobIsLatest' BY <1>1, <1>2, <1>3, <1>7 DEF BlobIsLatest
<1>9. RevisionIdentifiesSnapshot'
  BY <1>1, <1>2, <1>3, <1>7 DEF BlobIInv, RevisionIdentifiesSnapshot
<1> QED BY <1>4, <1>5, <1>6, <1>8, <1>9 DEF BlobIInv

-----------------------------------------------------------------------------
(* The inductive invariant *)

\* The invariant holds of an empty blob store with idle clients.
LEMMA BlobInitEstablishes == BlobInit => BlobIInv
<1> SUFFICES ASSUME BlobInit PROVE BlobIInv
  OBVIOUS
<1>1. BlobRegister!Missing \in BlobRegister!Envelope
  BY DEF BlobRegister!Missing, BlobRegister!Envelope
<1>2. BlobRegister!Idle \in [phase : {"idle", "pending", "done"},
                        request : BlobRegister!Request, reply : BlobRegister!Reply]
  BY BlobRepliesTyped DEF BlobRegister!Idle, BlobRegister!NoRequest, BlobRegister!NoReply, BlobRegister!Request
<1>3. BlobTypeOK
  BY <1>1, <1>2 DEF BlobInit, BlobTypeOK, Nothing
<1>4. BlobIsLatest
  BY <1>1 DEF BlobInit, BlobIsLatest, BlobRegister!Missing
<1> QED
  BY <1>3, <1>4 DEF BlobInit, BlobIInv, PendingSteps, HeldByPut, RevisionIdentifiesSnapshot

\* Every step of every operation preserves it.
LEMMA BlobNextPreserves == BlobIInv /\ [BlobNext]_blobVars => BlobIInv'
<1> SUFFICES ASSUME BlobIInv, [BlobNext]_blobVars PROVE BlobIInv'
  OBVIOUS
<1> USE DEF BlobIInv
<1>1. ASSUME NEW c \in Client, NEW request \in BlobRegister!Requests(blob.revision),
             BlobInvoke(c, request)
      PROVE  BlobIInv'
  <2>1. blob.revision \in Nat
    BY DEF BlobTypeOK, BlobRegister!Envelope
  <2>2. request \in BlobRegister!Request
    BY <2>1, BlobRequestsTyped
  <2>3. BlobRegister!NoReply \in BlobRegister!Reply
    BY BlobRepliesTyped DEF BlobRegister!NoReply
  <2>4. BlobTypeOK'
    BY <1>1, <2>2, <2>3 DEF BlobTypeOK, BlobInvoke, BlobRegister!Invoke
  <2>5. PendingSteps'
    BY <1>1 DEF BlobTypeOK, PendingSteps, BlobInvoke, BlobRegister!Invoke
  <2>6. \A d \in Client : HeldByPut(d)'
    BY <1>1 DEF BlobTypeOK, HeldByPut, BlobInvoke, BlobRegister!Invoke
  <2>7. BlobIsLatest' /\ RevisionIdentifiesSnapshot'
    BY <1>1 DEF BlobIsLatest, RevisionIdentifiesSnapshot, BlobInvoke, BlobRegister!Invoke
  <2> QED BY <2>4, <2>5, <2>6, <2>7
<1>2. ASSUME NEW c \in Client, GetForRead(c) PROVE BlobIInv'
  <2>1. BlobRegister!Success(blob, call[c].request) \in BlobRegister!Reply
    BY BlobRepliesTyped DEF BlobTypeOK
  <2> QED BY <1>2, <2>1, BlobAnswerPreserves DEF GetForRead
<1>3. ASSUME NEW c \in Client, GetStale(c) PROVE BlobIInv'
  BY <1>3, BlobRepliesTyped, BlobAnswerPreserves DEF GetStale
<1>4. ASSUME NEW c \in Client, GetDeleted(c) PROVE BlobIInv'
  BY <1>4, BlobRepliesTyped, BlobAnswerPreserves DEF GetDeleted
<1>5. ASSUME NEW c \in Client, GetForWrite(c) PROVE BlobIInv'
  <2>1. BlobTypeOK' /\ PendingSteps'
    BY <1>5 DEF BlobTypeOK, PendingSteps, GetForWrite
  <2>2. \A d \in Client : HeldByPut(d)'
    BY <1>5 DEF BlobTypeOK, HeldByPut, GetForWrite
  <2>3. BlobIsLatest' /\ RevisionIdentifiesSnapshot'
    BY <1>5 DEF BlobIsLatest, RevisionIdentifiesSnapshot, GetForWrite
  <2> QED BY <2>1, <2>2, <2>3
<1>6. ASSUME NEW c \in Client, Put(c) PROVE BlobIInv'
  BY <1>6, BlobRepliesTyped, StorePreserves DEF Put
<1>7. ASSUME NEW c \in Client, PutPreconditionFailed(c) PROVE BlobIInv'
  BY <1>7, BlobRepliesTyped, BlobAnswerPreserves DEF PutPreconditionFailed
<1>8. ASSUME NEW c \in Client, PutUnanswered(c) PROVE BlobIInv'
  BY <1>8, BlobRepliesTyped, StorePreserves DEF PutUnanswered
<1>9. ASSUME NEW c \in Client, StorageFails(c) PROVE BlobIInv'
  BY <1>9, BlobRepliesTyped, BlobAnswerPreserves DEF StorageFails
<1>10. ASSUME NEW c \in Client, BlobReturn(c) PROVE BlobIInv'
  <2>1. BlobRegister!Idle \in [phase : {"idle", "pending", "done"},
                          request : BlobRegister!Request, reply : BlobRegister!Reply]
    BY BlobRepliesTyped DEF BlobRegister!Idle, BlobRegister!NoRequest, BlobRegister!NoReply, BlobRegister!Request
  <2>2. step[c] = "idle"
    BY <1>10 DEF PendingSteps, BlobReturn, BlobRegister!Return
  <2>3. BlobTypeOK' /\ PendingSteps'
    BY <1>10, <2>1, <2>2 DEF BlobTypeOK, PendingSteps, BlobReturn, BlobRegister!Return
  <2>4. \A d \in Client : HeldByPut(d)'
    BY <1>10, <2>2 DEF BlobTypeOK, HeldByPut, BlobReturn, BlobRegister!Return
  <2>5. BlobIsLatest' /\ RevisionIdentifiesSnapshot'
    BY <1>10 DEF BlobIsLatest, RevisionIdentifiesSnapshot, BlobReturn, BlobRegister!Return
  <2> QED BY <2>3, <2>4, <2>5
<1>11. CASE UNCHANGED blobVars
  BY <1>11 DEF blobVars, BlobTypeOK, PendingSteps, HeldByPut, BlobIsLatest, RevisionIdentifiesSnapshot
<1> QED
  BY <1>1, <1>2, <1>3, <1>4, <1>5, <1>6, <1>7, <1>8, <1>9, <1>10, <1>11 DEF BlobNext

\* The variables keep their types through every operation of every client.
THEOREM BlobTypeCorrect == BlobSpec => []BlobTypeOK
<1>1. BlobIInv => BlobTypeOK BY DEF BlobIInv
<1> QED BY <1>1, BlobInitEstablishes, BlobNextPreserves, PTL DEF BlobSpec

\* One storeRevision names one snapshot for ever, with any number of clients
\* whose gets and puts interleave (durable-backend.ts 249-311).
THEOREM RevisionsIdentifySnapshots == BlobSpec => []RevisionIdentifiesSnapshot
<1>1. BlobIInv => RevisionIdentifiesSnapshot BY DEF BlobIInv
<1> QED BY <1>1, BlobInitEstablishes, BlobNextPreserves, PTL DEF BlobSpec

-----------------------------------------------------------------------------
(* The refinement *)

\* A call answered without a put takes effect, is rejected or fails at the step
\* that answers it; the others leave the register and the calls alone.
LEMMA BlobStepRefines ==
  ASSUME BlobIInv, NEW c \in Client
  PROVE  /\ GetForRead(c) => BlobRegister!Perform(c)
         /\ GetStale(c) => BlobRegister!Reject(c)
         /\ GetDeleted(c) => BlobRegister!Perform(c)
         /\ GetForWrite(c) => UNCHANGED BlobRegister!registerVars
         /\ Put(c) => BlobRegister!Perform(c)
         /\ PutPreconditionFailed(c) => BlobRegister!Reject(c)
         /\ PutUnanswered(c) => BlobRegister!PerformUnanswered(c)
         /\ StorageFails(c) => BlobRegister!Fail(c)
         /\ BlobReturn(c) => BlobRegister!Return(c)
<1> DEFINE request == call[c].request
<1>1. step[c] # "idle" => call[c].phase = "pending"
  BY DEF BlobIInv, PendingSteps
<1>2. GetForRead(c) => BlobRegister!Perform(c)
  BY <1>1 DEF GetForRead, BlobAnswered, BlobRegister!Perform, BlobRegister!Admits, BlobRegister!After
<1>3. GetStale(c) => BlobRegister!Reject(c)
  BY <1>1 DEF GetStale, BlobAnswered, BlobRegister!Reject, BlobRegister!Admits
<1>4. GetDeleted(c) => BlobRegister!Perform(c)
  BY <1>1 DEF GetDeleted, BlobAnswered, BlobRegister!Perform, BlobRegister!Admits, BlobRegister!After,
              BlobRegister!Success
<1>5. GetForWrite(c) => UNCHANGED BlobRegister!registerVars
  BY DEF GetForWrite, BlobRegister!registerVars
<1>6. Put(c) => BlobRegister!Perform(c)
  BY <1>1, PutReplacesHeld DEF Put, Store, BlobAnswered, BlobRegister!Perform, BlobRegister!Success
<1>7. PutPreconditionFailed(c) => BlobRegister!Reject(c)
  <2> SUFFICES ASSUME PutPreconditionFailed(c) PROVE BlobRegister!Reject(c)
    OBVIOUS
  <2>1. request.op # "read" /\ blob.revision # request.expected
    <3>1. held[c].envelope.revision \in Nat /\ blob.revision \in Nat
      BY DEF BlobIInv, BlobTypeOK, BlobRegister!Envelope
    <3> QED BY <3>1 DEF BlobIInv, HeldByPut, PutPreconditionFailed, Precondition
  <2> QED
    BY <1>1, <2>1 DEF PutPreconditionFailed, BlobAnswered, BlobRegister!Reject, BlobRegister!Admits
<1>8. PutUnanswered(c) => BlobRegister!PerformUnanswered(c)
  BY <1>1, PutReplacesHeld DEF PutUnanswered, Store, BlobAnswered, BlobRegister!PerformUnanswered
<1>9. StorageFails(c) => BlobRegister!Fail(c)
  BY <1>1 DEF StorageFails, BlobAnswered, BlobRegister!Fail
<1>10. BlobReturn(c) => BlobRegister!Return(c)
  BY DEF BlobReturn
<1> QED BY <1>2, <1>3, <1>4, <1>5, <1>6, <1>7, <1>8, <1>9, <1>10

\* The get and the put of every operation, interleaved with other clients' and
\* with lost answers, implement the atomic register that ProjectDataStore needs.
THEOREM BlobRefinesRegister == BlobSpec => BlobImplementsRegister
<1>1. BlobInit => BlobRegister!Init
  BY DEF BlobInit, BlobRegister!Init
<1>2. BlobIInv /\ [BlobNext]_blobVars => [BlobRegister!Next]_(BlobRegister!registerVars)
  <2> SUFFICES ASSUME BlobIInv, BlobNext PROVE [BlobRegister!Next]_(BlobRegister!registerVars)
    BY DEF blobVars, BlobRegister!registerVars
  <2>1. ASSUME NEW c \in Client, NEW request \in BlobRegister!Requests(blob.revision),
               BlobInvoke(c, request)
        PROVE  BlobRegister!Next
    BY <2>1 DEF BlobInvoke, BlobRegister!Next
  <2> QED BY <2>1, BlobStepRefines DEF BlobNext, BlobRegister!Next
<1> QED
  BY <1>1, <1>2, BlobInitEstablishes, BlobNextPreserves, PTL DEF BlobSpec, BlobImplementsRegister, BlobRegister!Spec

-----------------------------------------------------------------------------
(***************************************************************************)
(*                         The Postgres backend                            *)
(***************************************************************************)

\* A caller's expected revision comes from an earlier read, so no pending
\* request is ahead of the row; and a removal carries no content.
PendingRequest(c) ==
  /\ step[c] # "idle" =>
       call[c].phase = "pending" /\ call[c].request.expected <= row.revision
  /\ call[c].request.op = "deleteProject" => call[c].request.content = NoContent

(***************************************************************************)
(* Between the two statements of a missed write the row cannot come back   *)
(* to what the write would have changed: it has left the expected revision *)
(* for ever, or it is the tombstone of that revision.                      *)
(***************************************************************************)
MissedForGood(c) ==
  step[c] = "select" =>
    /\ call[c].request.op # "read"
    /\ \/ call[c].request.expected < row.revision
       \/ call[c].request.op = "deleteProject" /\ ~row.live

RowIInv ==
  /\ RowTypeOK
  /\ \A c \in Client : PendingRequest(c) /\ MissedForGood(c)

-----------------------------------------------------------------------------
(* Lemmas *)

\* Every request a caller can make is typed, and none is ahead of the row.
LEMMA RowRequestsTyped ==
  ASSUME NEW current \in Nat, NEW request \in RowRegister!Requests(current)
  PROVE  /\ request \in RowRegister!Request
         /\ request.expected <= current
         /\ request.op = "deleteProject" => request.content = NoContent
BY DEF RowRegister!Requests, RowRegister!Request, RowRegister!NoRequest

\* Every answer is a typed reply.
LEMMA RowRepliesTyped ==
  /\ \A status \in {"none", "ok", "conflict", "unavailable"} :
       RowRegister!Answer(status) \in RowRegister!Reply
  /\ \A envelope \in RowRegister!Envelope, request \in RowRegister!Request :
       RowRegister!Success(envelope, request) \in RowRegister!Reply
BY DEF RowRegister!Answer, RowRegister!Reply, RowRegister!Success, RowRegister!Envelope, RowRegister!Request

\* A typed answer leaves the client idle, with its request, and everyone else
\* where they were.
LEMMA RowAnsweredStep ==
  ASSUME RowTypeOK, NEW c \in Client, NEW reply \in RowRegister!Reply, RowAnswered(c, reply)
  PROVE  /\ call' \in [Client -> [phase : {"idle", "pending", "done"},
                                  request : RowRegister!Request,
                                  reply : RowRegister!Reply]]
         /\ step' \in [Client -> {"idle", "statement", "select"}]
         /\ step'[c] = "idle"
         /\ call'[c].request = call[c].request
         /\ \A d \in Client \ {c} : step'[d] = step[d] /\ call'[d] = call[d]
BY DEF RowTypeOK, RowAnswered, RowRegister!Finish

\* An answer that leaves the row alone preserves the invariant.
LEMMA RowAnswerPreserves ==
  ASSUME RowIInv, NEW c \in Client, NEW reply \in RowRegister!Reply, RowAnswered(c, reply),
         UNCHANGED row
  PROVE  RowIInv'
<1>1. RowTypeOK' BY RowAnsweredStep DEF RowIInv, RowTypeOK
<1>2. \A d \in Client : PendingRequest(d)' BY RowAnsweredStep DEF RowIInv, PendingRequest
<1>3. \A d \in Client : MissedForGood(d)' BY RowAnsweredStep DEF RowIInv, MissedForGood
<1> QED BY <1>1, <1>2, <1>3 DEF RowIInv

\* A write whose row matches does to it what the register's operation does.
LEMMA WriteApplies ==
  ASSUME RowIInv, NEW c \in Client, Write(c)
  PROVE  /\ row' = RowRegister!After(row, call[c].request)
         /\ row' \in RowRegister!Envelope
         /\ row'.revision = row.revision + 1
         /\ RowRegister!Admits(row, call[c].request)
<1>1. call[c].request \in RowRegister!Request /\ row \in RowRegister!Envelope
  BY DEF RowIInv, RowTypeOK
<1>2. row' = NextRow(call[c].request) /\ row.revision = call[c].request.expected
  BY DEF Write, Matches
<1>3. NextRow(call[c].request) = RowRegister!After(row, call[c].request)
  <2>1. CASE call[c].request.op = "compareAndSwap"
    <3>1. (call[c].request.op = "compareAndSwap") = TRUE
      BY <2>1, Zenon
    <3> QED BY <2>1, <3>1, Zenon DEF NextRow, RowRegister!After
  <2>2. CASE call[c].request.op = "deleteProject"
    <3>1. (call[c].request.op = "compareAndSwap") = FALSE
      BY <2>2
    <3>2. call[c].request.content = NoContent /\ row.live
      BY <2>2, Zenon DEF RowIInv, PendingRequest, Write, Matches
    <3> QED BY <2>2, <3>1, <3>2, Zenon DEF NextRow, RowRegister!After
  <2> QED BY <1>1, <2>1, <2>2 DEF Write, RowRegister!Request
<1>4. NextRow(call[c].request).revision = row.revision + 1
  BY <1>2 DEF NextRow
<1>5. NextRow(call[c].request) \in RowRegister!Envelope
  BY <1>1 DEF NextRow, RowRegister!Envelope, RowRegister!Request
<1>6. RowRegister!Admits(row, call[c].request)
  BY <1>2 DEF RowRegister!Admits
<1> QED
  BY <1>2, <1>3, <1>4, <1>5, <1>6

\* A write preserves the invariant, answered or not.
LEMMA WritePreserves ==
  ASSUME RowIInv, NEW c \in Client, Write(c), NEW reply \in RowRegister!Reply, RowAnswered(c, reply)
  PROVE  RowIInv'
<1>1. row' \in RowRegister!Envelope /\ row'.revision = row.revision + 1 /\ row.revision \in Nat
  BY WriteApplies DEF RowIInv, RowTypeOK, RowRegister!Envelope
<1>2. RowTypeOK' BY <1>1, RowAnsweredStep DEF RowIInv, RowTypeOK
<1>3. \A d \in Client : call[d].request.expected \in Nat
  BY DEF RowIInv, RowTypeOK, RowRegister!Request
<1>4. \A d \in Client : PendingRequest(d)'
  BY <1>1, <1>3, RowAnsweredStep DEF RowIInv, PendingRequest
<1>5. \A d \in Client : MissedForGood(d)'
  BY <1>1, <1>3, RowAnsweredStep DEF RowIInv, PendingRequest, MissedForGood
<1> QED BY <1>2, <1>4, <1>5 DEF RowIInv

-----------------------------------------------------------------------------
(* The inductive invariant *)

\* The invariant holds of an empty table with idle clients.
LEMMA RowInitEstablishes == RowInit => RowIInv
<1>1. RowRegister!Missing \in RowRegister!Envelope
  BY DEF RowRegister!Missing, RowRegister!Envelope
<1>2. RowRegister!Idle \in [phase : {"idle", "pending", "done"},
                        request : RowRegister!Request, reply : RowRegister!Reply]
  BY RowRepliesTyped DEF RowRegister!Idle, RowRegister!NoRequest, RowRegister!NoReply, RowRegister!Request
<1> QED
  BY <1>1, <1>2 DEF RowInit, RowIInv, RowTypeOK, PendingRequest, MissedForGood, RowRegister!Idle,
                    RowRegister!NoRequest

\* Every statement of every operation preserves it.
LEMMA RowNextPreserves == RowIInv /\ [RowNext]_rowVars => RowIInv'
<1> SUFFICES ASSUME RowIInv, [RowNext]_rowVars PROVE RowIInv'
  OBVIOUS
<1> USE DEF RowIInv
<1>1. ASSUME NEW c \in Client, NEW request \in RowRegister!Requests(row.revision),
             RowInvoke(c, request)
      PROVE  RowIInv'
  <2>1. row.revision \in Nat
    BY DEF RowTypeOK, RowRegister!Envelope
  <2>2. /\ request \in RowRegister!Request
        /\ request.expected <= row.revision
        /\ request.op = "deleteProject" => request.content = NoContent
    BY <2>1, RowRequestsTyped
  <2>3. RowRegister!NoReply \in RowRegister!Reply
    BY RowRepliesTyped DEF RowRegister!NoReply
  <2>4. RowTypeOK'
    BY <1>1, <2>2, <2>3 DEF RowTypeOK, RowInvoke, RowRegister!Invoke
  <2>5. \A d \in Client : PendingRequest(d)'
    BY <1>1, <2>2 DEF RowTypeOK, PendingRequest, RowInvoke, RowRegister!Invoke
  <2>6. \A d \in Client : MissedForGood(d)'
    BY <1>1 DEF RowTypeOK, MissedForGood, RowInvoke, RowRegister!Invoke
  <2> QED BY <2>4, <2>5, <2>6
<1>2. ASSUME NEW c \in Client, Select(c) PROVE RowIInv'
  <2>1. RowRegister!Success(row, call[c].request) \in RowRegister!Reply
    BY RowRepliesTyped DEF RowTypeOK
  <2> QED BY <1>2, <2>1, RowAnswerPreserves DEF Select
<1>3. ASSUME NEW c \in Client, Written(c) PROVE RowIInv'
  BY <1>3, RowRepliesTyped, WritePreserves DEF Written
<1>4. ASSUME NEW c \in Client, WriteUnanswered(c) PROVE RowIInv'
  BY <1>4, RowRepliesTyped, WritePreserves DEF WriteUnanswered
<1>5. ASSUME NEW c \in Client, WriteMisses(c) PROVE RowIInv'
  <2>1. RowTypeOK' BY <1>5 DEF RowTypeOK, WriteMisses
  <2>2. \A d \in Client : PendingRequest(d)'
    BY <1>5 DEF RowTypeOK, PendingRequest, WriteMisses
  <2>3. MissedForGood(c)'
    <3>1. row.revision \in Nat /\ call[c].request.expected \in Nat
      BY DEF RowTypeOK, RowRegister!Envelope, RowRegister!Request
    <3>2. /\ call[c].request.op # "read"
          /\ \/ row.revision # call[c].request.expected
             \/ call[c].request.op = "deleteProject" /\ ~row.live
      BY <1>5, Zenon DEF WriteMisses, Matches
    <3>3. call[c].request.expected <= row.revision
      BY <1>5 DEF PendingRequest, WriteMisses
    <3>4. \/ call[c].request.expected < row.revision
          \/ call[c].request.op = "deleteProject" /\ ~row.live
      <4>1. CASE row.revision # call[c].request.expected
        BY <3>1, <3>3, <4>1
      <4> QED BY <3>2, <4>1, Zenon
    <3>5. row' = row /\ call' = call
      BY <1>5 DEF WriteMisses
    <3> QED BY <3>2, <3>4, <3>5, Zenon DEF MissedForGood
  <2>4. \A d \in Client \ {c} : MissedForGood(d)'
    BY <1>5 DEF RowTypeOK, MissedForGood, WriteMisses
  <2> QED BY <2>1, <2>2, <2>3, <2>4
<1>6. ASSUME NEW c \in Client, MissedAlreadyGone(c) PROVE RowIInv'
  BY <1>6, RowRepliesTyped, RowAnswerPreserves DEF MissedAlreadyGone
<1>7. ASSUME NEW c \in Client, MissedConflict(c) PROVE RowIInv'
  BY <1>7, RowRepliesTyped, RowAnswerPreserves DEF MissedConflict
<1>8. ASSUME NEW c \in Client, StatementFails(c) PROVE RowIInv'
  BY <1>8, RowRepliesTyped, RowAnswerPreserves DEF StatementFails
<1>9. ASSUME NEW c \in Client, RowReturn(c) PROVE RowIInv'
  <2>1. RowRegister!Idle \in [phase : {"idle", "pending", "done"},
                          request : RowRegister!Request, reply : RowRegister!Reply]
    BY RowRepliesTyped DEF RowRegister!Idle, RowRegister!NoRequest, RowRegister!NoReply, RowRegister!Request
  <2>2. step[c] = "idle"
    BY <1>9 DEF PendingRequest, RowReturn, RowRegister!Return
  <2>3. RowTypeOK' BY <1>9, <2>1 DEF RowTypeOK, RowReturn, RowRegister!Return
  <2>4. \A d \in Client : PendingRequest(d)' /\ MissedForGood(d)'
    BY <1>9, <2>2 DEF RowTypeOK, PendingRequest, MissedForGood, RowReturn, RowRegister!Return,
                      RowRegister!Idle, RowRegister!NoRequest
  <2> QED BY <2>3, <2>4
<1>10. CASE UNCHANGED rowVars
  BY <1>10 DEF rowVars, RowTypeOK, PendingRequest, MissedForGood
<1> QED
  BY <1>1, <1>2, <1>3, <1>4, <1>5, <1>6, <1>7, <1>8, <1>9, <1>10 DEF RowNext

\* The variables keep their types through every statement of every client.
THEOREM RowTypeCorrect == RowSpec => []RowTypeOK
<1>1. RowIInv => RowTypeOK BY DEF RowIInv
<1> QED BY <1>1, RowInitEstablishes, RowNextPreserves, PTL DEF RowSpec

-----------------------------------------------------------------------------
(* The refinement *)

\* A call takes effect, is rejected or fails at the step that answers it.
LEMMA RowStepRefines ==
  ASSUME RowIInv, NEW c \in Client
  PROVE  /\ Select(c) => RowRegister!Perform(c)
         /\ Written(c) => RowRegister!Perform(c)
         /\ WriteUnanswered(c) => RowRegister!PerformUnanswered(c)
         /\ WriteMisses(c) => UNCHANGED RowRegister!registerVars
         /\ MissedAlreadyGone(c) => RowRegister!Perform(c)
         /\ MissedConflict(c) => RowRegister!Reject(c)
         /\ StatementFails(c) => RowRegister!Fail(c)
         /\ RowReturn(c) => RowRegister!Return(c)
<1>1. step[c] # "idle" => call[c].phase = "pending"
  BY DEF RowIInv, PendingRequest
<1>2. Select(c) => RowRegister!Perform(c)
  BY <1>1 DEF Select, RowAnswered, RowRegister!Perform, RowRegister!Admits, RowRegister!After
<1>3. Written(c) => RowRegister!Perform(c)
  BY <1>1, WriteApplies DEF Written, Write, RowAnswered, RowRegister!Perform, RowRegister!Success
<1>4. WriteUnanswered(c) => RowRegister!PerformUnanswered(c)
  BY <1>1, WriteApplies DEF WriteUnanswered, Write, RowAnswered, RowRegister!PerformUnanswered
<1>5. WriteMisses(c) => UNCHANGED RowRegister!registerVars
  BY DEF WriteMisses, RowRegister!registerVars
<1>6. MissedAlreadyGone(c) => RowRegister!Perform(c)
  BY <1>1 DEF MissedAlreadyGone, AlreadyGone, RowAnswered, RowRegister!Perform, RowRegister!Admits,
              RowRegister!After, RowRegister!Success
<1>7. MissedConflict(c) => RowRegister!Reject(c)
  <2> SUFFICES ASSUME MissedConflict(c) PROVE RowRegister!Reject(c)
    OBVIOUS
  <2>1. call[c].request.expected \in Nat /\ row.revision \in Nat
    BY DEF RowIInv, RowTypeOK, RowRegister!Envelope, RowRegister!Request
  <2>2. call[c].request.op # "read" /\ row.revision # call[c].request.expected
    BY <2>1 DEF RowIInv, MissedForGood, MissedConflict, AlreadyGone
  <2> QED
    BY <1>1, <2>2 DEF MissedConflict, RowAnswered, RowRegister!Reject, RowRegister!Admits
<1>8. StatementFails(c) => RowRegister!Fail(c)
  BY <1>1 DEF StatementFails, RowAnswered, RowRegister!Fail
<1>9. RowReturn(c) => RowRegister!Return(c)
  BY DEF RowReturn
<1> QED BY <1>2, <1>3, <1>4, <1>5, <1>6, <1>7, <1>8, <1>9

\* The conditional statement of a write and the one that judges its miss, with
\* other clients' statements and lost answers between them, implement the atomic
\* register (durable-backend.ts 372-440).
THEOREM RowRefinesRegister == RowSpec => RowImplementsRegister
<1>1. RowInit => RowRegister!Init
  BY DEF RowInit, RowRegister!Init
<1>2. RowIInv /\ [RowNext]_rowVars => [RowRegister!Next]_(RowRegister!registerVars)
  <2> SUFFICES ASSUME RowIInv, RowNext PROVE [RowRegister!Next]_(RowRegister!registerVars)
    BY DEF rowVars, RowRegister!registerVars
  <2>1. ASSUME NEW c \in Client, NEW request \in RowRegister!Requests(row.revision),
               RowInvoke(c, request)
        PROVE  RowRegister!Next
    BY <2>1 DEF RowInvoke, RowRegister!Next
  <2> QED BY <2>1, RowStepRefines DEF RowNext, RowRegister!Next
<1> QED
  BY <1>1, <1>2, RowInitEstablishes, RowNextPreserves, PTL DEF RowSpec, RowImplementsRegister, RowRegister!Spec

=============================================================================
