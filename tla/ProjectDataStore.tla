--------------------------- MODULE ProjectDataStore ---------------------------
(***************************************************************************)
(* ProjectDataStore (lib/project-data/store.ts): documents with revisions  *)
(* of their own, kept in one snapshot that a write reads, changes in       *)
(* memory and swaps in, expecting the storeRevision it read.  The backend  *)
(* is the atomic register that BlobSnapshots and PostgresSnapshots         *)
(* implement; other callers run between the read and the swap.             *)
(***************************************************************************)
EXTENDS Naturals, FiniteSets

CONSTANTS Client, Key, NamespaceOf, NoDocument, MaxDocuments, MaxNamespaces, MaxStamp

VARIABLES snapshot,   \* the backend's snapshot
          call,       \* the calls of the store's callers
          seen,       \* what those calls returned
          step,       \* per client: the backend call its operation makes next
          held        \* per client: the snapshot its write has read

vars == <<snapshot, call, seen, step, held>>

Table == INSTANCE DocumentTable WITH table <- snapshot.documents, stamp <- snapshot.revision

ASSUME StoreAssumption ==
  /\ Key # {}
  /\ NoDocument \notin Table!Document
  /\ MaxDocuments \in Nat
  /\ MaxNamespaces \in Nat
  /\ MaxStamp \in Nat

Snapshot == [revision : Nat, documents : Table!Documents]

EmptySnapshot == [revision |-> 0, documents |-> Table!NoDocuments]

TypeOK ==
  /\ snapshot \in Snapshot
  /\ call \in [Client -> Table!Call]
  /\ seen \in [Client -> Table!Documents]
  /\ step \in [Client -> {"idle", "read", "swap"}]
  /\ held \in [Client -> Snapshot]

Init ==
  /\ snapshot = EmptySnapshot
  /\ call = [c \in Client |->
       [request |-> [op |-> "get", key |-> CHOOSE k \in Key : TRUE, expected |-> 0],
        status |-> "none", since |-> 0]]
  /\ seen = [c \in Client |-> Table!NoDocuments]
  /\ step = [c \in Client |-> "idle"]
  /\ held = [c \in Client |-> EmptySnapshot]

\* The operation of c ends with this status.
Answered(c, status) ==
  /\ Table!Answer(c, status)
  /\ step' = [step EXCEPT ![c] = "idle"]
  /\ held' = [held EXCEPT ![c] = EmptySnapshot]

Invoke(c, request) ==
  /\ call[c].status # "pending"
  /\ snapshot.revision < MaxStamp
  /\ call' = [call EXCEPT ![c] = [request |-> request, status |-> "pending",
                                  since |-> snapshot.revision]]
  /\ step' = [step EXCEPT ![c] = "read"]
  /\ UNCHANGED <<snapshot, seen, held>>

Read(c) ==
  /\ step[c] = "read"
  /\ call[c].request.op \in {"get", "list"}
  /\ Table!Learn(c, snapshot.documents)
  /\ Answered(c, "ok")
  /\ UNCHANGED snapshot

Reads(c) ==
  /\ step[c] = "read"
  /\ call[c].request.op \in Table!Writes

ReadRefused(c) ==
  /\ Reads(c)
  /\ Table!Refusal(snapshot.documents, call[c].request) # "none"
  /\ Answered(c, Table!Refusal(snapshot.documents, call[c].request))
  /\ UNCHANGED <<snapshot, seen>>

\* validateSnapshotQuota: the sizes are not modelled, so it may refuse.  delete
\* does not validate.
ReadTooLarge(c) ==
  /\ Reads(c)
  /\ call[c].request.op # "delete"
  /\ Table!Refusal(snapshot.documents, call[c].request) = "none"
  /\ Answered(c, "quota_exceeded")
  /\ UNCHANGED <<snapshot, seen>>

ReadForWrite(c) ==
  /\ Reads(c)
  /\ Table!Refusal(snapshot.documents, call[c].request) = "none"
  /\ held' = [held EXCEPT ![c] = snapshot]
  /\ step' = [step EXCEPT ![c] = "swap"]
  /\ UNCHANGED <<snapshot, call, seen>>

NextSnapshot(c) ==
  LET revision == held[c].revision + 1 IN
  [revision |-> revision,
   documents |-> Table!After(held[c].documents, call[c].request, revision)]

\* Mutant: the snapshot is written over whatever is there.
Regardless(c) == TRUE

\* Mutant: the swap compares the document, not the snapshot.
SameDocument(c) ==
  snapshot.documents[call[c].request.key] = held[c].documents[call[c].request.key]

\* backend.compareAndSwap succeeds on the revision that was read.
Expected(c) == snapshot.revision = held[c].revision

\* Mutant: each document is compared and stored by itself, as a row of its own.
SwapDocument(c) ==
  /\ step[c] = "swap"
  /\ SameDocument(c)
  /\ snapshot' =
       [revision |-> snapshot.revision + 1,
        documents |-> Table!After(snapshot.documents, call[c].request, snapshot.revision + 1)]
  /\ Table!Learn(c, snapshot'.documents)
  /\ Answered(c, "ok")

Swap(c) ==
  /\ step[c] = "swap"
  /\ Expected(c)
  /\ snapshot' = NextSnapshot(c)
  /\ Table!Learn(c, NextSnapshot(c).documents)
  /\ Answered(c, "ok")

SwapUnanswered(c) ==
  /\ step[c] = "swap"
  /\ Expected(c)
  /\ snapshot' = NextSnapshot(c)
  /\ Answered(c, "unavailable")
  /\ UNCHANGED seen

SwapConflict(c) ==
  /\ step[c] = "swap"
  /\ ~Expected(c)
  /\ Answered(c, "conflict")
  /\ UNCHANGED <<snapshot, seen>>

BackendFails(c) ==
  /\ step[c] # "idle"
  /\ Answered(c, "unavailable")
  /\ UNCHANGED <<snapshot, seen>>

Next == \E c \in Client :
  \/ \E request \in Table!Requests(c) : Invoke(c, request)
  \/ Read(c)
  \/ ReadRefused(c)
  \/ ReadTooLarge(c)
  \/ ReadForWrite(c)
  \/ Swap(c)
  \/ SwapUnanswered(c)
  \/ SwapConflict(c)
  \/ BackendFails(c)

Spec == Init /\ [][Next]_vars

-----------------------------------------------------------------------------
(* Properties *)

\* The quotas bound what is stored, although create checks them on a snapshot
\* that other creates may have replaced by the time it is swapped in
\* (store.ts 93-100, 117).
QuotasRespected ==
  LET documents == snapshot.documents IN
  /\ \A k \in Key : Cardinality(Table!Present(documents) \cap Table!Namespace(k)) <= MaxDocuments
  /\ Cardinality(Table!NamespacesUsed(documents)) <= MaxNamespaces

\* Within the life of a document (one createdAt) its revision names one
\* content: a caller whose expectedRevision is accepted (store.ts 137) replaces
\* the content it saw.
RevisionNamesContent ==
  \A c \in Client, k \in Key :
    LET known == seen[c][k]
        now   == snapshot.documents[k] IN
    /\ known # NoDocument
    /\ now # NoDocument
    /\ known.createdAt = now.createdAt
    /\ known.revision = now.revision
    => known = now

\* Reading the snapshot and swapping it later is one atomic operation on one
\* document: no write to another document is undone, no accepted expectedRevision
\* was passed over, no refusal is invented, and a conflict means that something
\* was committed since the call began (store.ts 76-184).
ImplementsTable == Table!Spec

\* Every document a caller replaces or removes is the one it last saw: what the
\* optimistic revision of update and delete is for.
ReplacesWhatWasSeen ==
  [][\A c \in Client :
       step[c] = "swap" /\ call[c].request.op \in {"update", "delete"}
       /\ snapshot'.revision > snapshot.revision /\ call'[c].status # "pending"
       => snapshot.documents[call[c].request.key] = seen[c][call[c].request.key]]_vars

=============================================================================
