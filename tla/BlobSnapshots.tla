---------------------------- MODULE BlobSnapshots ----------------------------
(***************************************************************************)
(* VercelBlobProjectDataBackend (lib/project-data/durable-backend.ts       *)
(* 206-312).  Every operation reads the envelope with its etag; a write    *)
(* then puts the next envelope on the condition that the blob still has    *)
(* that etag, or, when there was no blob, that there still is none.  Any   *)
(* other client may run between the two storage calls.                     *)
(*                                                                         *)
(* `etag` numbers the versions of the blob: 0 is no blob.                  *)
(***************************************************************************)
EXTENDS BackendCalls

VARIABLES blob,       \* the stored envelope
          etag,       \* its version in the blob store
          held,       \* per client: the envelope and etag it read
          history     \* history variable: every envelope ever stored

blobVars == <<blob, etag, call, step, held, history>>

BlobRegister == INSTANCE SnapshotRegister WITH register <- blob

BlobTypeOK ==
  /\ blob \in BlobRegister!Envelope
  /\ etag \in Nat
  /\ call \in [Client -> [phase : {"idle", "pending", "done"},
                          request : BlobRegister!Request,
                          reply : BlobRegister!Reply]]
  /\ step \in [Client -> {"idle", "get", "put"}]
  /\ held \in [Client -> [envelope : BlobRegister!Envelope, etag : Nat]]
  /\ history \subseteq BlobRegister!Envelope

Nothing == [envelope |-> BlobRegister!Missing, etag |-> 0]

BlobInit ==
  /\ blob = BlobRegister!Missing
  /\ etag = 0
  /\ call = [c \in Client |-> BlobRegister!Idle]
  /\ step = [c \in Client |-> "idle"]
  /\ held = [c \in Client |-> Nothing]
  /\ history = {BlobRegister!Missing}

\* The operation of c ends with this reply.
BlobAnswered(c, reply) ==
  /\ BlobRegister!Finish(c, reply)
  /\ step' = [step EXCEPT ![c] = "idle"]
  /\ held' = [held EXCEPT ![c] = Nothing]

BlobInvoke(c, request) ==
  /\ BlobRegister!Invoke(c, request)
  /\ step' = [step EXCEPT ![c] = "get"]
  /\ UNCHANGED <<etag, held, history>>

GetForRead(c) ==
  /\ step[c] = "get"
  /\ call[c].request.op = "read"
  /\ BlobAnswered(c, BlobRegister!Success(blob, call[c].request))
  /\ UNCHANGED <<blob, etag, history>>

\* The revision read is not the expected one: conflict before any put.
GetStale(c) ==
  /\ step[c] = "get"
  /\ call[c].request.op # "read"
  /\ blob.revision # call[c].request.expected
  /\ BlobAnswered(c, BlobRegister!Answer("conflict"))
  /\ UNCHANGED <<blob, etag, history>>

\* deleteProject of a missing or already deleted snapshot writes nothing.
GetDeleted(c) ==
  /\ step[c] = "get"
  /\ call[c].request.op = "deleteProject"
  /\ blob.revision = call[c].request.expected
  /\ ~blob.live
  /\ BlobAnswered(c, BlobRegister!Answer("ok"))
  /\ UNCHANGED <<blob, etag, history>>

GetForWrite(c) ==
  /\ step[c] = "get"
  /\ call[c].request.op # "read"
  /\ blob.revision = call[c].request.expected
  /\ call[c].request.op = "deleteProject" => blob.live
  /\ held' = [held EXCEPT ![c] = [envelope |-> blob, etag |-> etag]]
  /\ step' = [step EXCEPT ![c] = "put"]
  /\ UNCHANGED <<blob, etag, call, history>>

\* Mutant: the put has neither ifMatch nor allowOverwrite = false.
Unconditional(c) == TRUE

\* ifMatch: the etag read; with no etag, allowOverwrite = false.
Precondition(c) == etag = held[c].etag

\* Mutant: deleteProject forgets the revision, as a deleted blob would.
ForgottenRevision(c) ==
  IF call[c].request.op = "deleteProject"
  THEN BlobRegister!Missing
  ELSE BlobRegister!After(held[c].envelope, call[c].request)

NextEnvelope(c) == BlobRegister!After(held[c].envelope, call[c].request)

Store(c) ==
  /\ blob' = NextEnvelope(c)
  /\ etag' = etag + 1
  /\ history' = history \cup {NextEnvelope(c)}

Put(c) ==
  /\ step[c] = "put"
  /\ Precondition(c)
  /\ Store(c)
  /\ BlobAnswered(c, BlobRegister!Answer("ok"))

PutPreconditionFailed(c) ==
  /\ step[c] = "put"
  /\ ~Precondition(c)
  /\ BlobAnswered(c, BlobRegister!Answer("conflict"))
  /\ UNCHANGED <<blob, etag, history>>

\* The put took effect and its response was lost: any other error.
PutUnanswered(c) ==
  /\ step[c] = "put"
  /\ Precondition(c)
  /\ Store(c)
  /\ BlobAnswered(c, BlobRegister!Answer("unavailable"))

StorageFails(c) ==
  /\ step[c] \in {"get", "put"}
  /\ BlobAnswered(c, BlobRegister!Answer("unavailable"))
  /\ UNCHANGED <<blob, etag, history>>

BlobReturn(c) ==
  /\ BlobRegister!Return(c)
  /\ UNCHANGED <<etag, step, held, history>>

BlobNext == \E c \in Client :
  \/ \E request \in BlobRegister!Requests(blob.revision) : BlobInvoke(c, request)
  \/ GetForRead(c)
  \/ GetStale(c)
  \/ GetDeleted(c)
  \/ GetForWrite(c)
  \/ Put(c)
  \/ PutPreconditionFailed(c)
  \/ PutUnanswered(c)
  \/ StorageFails(c)
  \/ BlobReturn(c)

BlobSpec == BlobInit /\ [][BlobNext]_blobVars

-----------------------------------------------------------------------------
(* Properties *)

\* A storeRevision names one snapshot for ever: a client that compares the
\* revision it read with the current one (store.ts 117) is comparing contents,
\* through any number of writes, deletions and revivals.
RevisionIdentifiesSnapshot ==
  \A x, y \in history : x.revision = y.revision => x = y

\* The two storage calls of each operation, interleaved with those of other
\* clients and with lost responses, implement the atomic register.
BlobImplementsRegister == BlobRegister!Spec

=============================================================================
