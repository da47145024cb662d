---------------------------- MODULE DocumentTable ----------------------------
(***************************************************************************)
(* What ProjectDataStore promises the callers of its operations: one table *)
(* of documents on which each call takes effect at one instant between its *)
(* invocation and its answer.  A refusal is true of the table at that      *)
(* instant; "conflict" is also answered when some other call committed     *)
(* since the invocation; "unavailable" promises nothing.                   *)
(*                                                                         *)
(* ProjectDataStore implements this module.                                *)
(***************************************************************************)
EXTENDS Naturals, FiniteSets

CONSTANTS Client,
          Key,             \* document keys: namespace and id
          NamespaceOf,     \* the namespace of each key
          NoDocument,
          MaxDocuments,    \* quota: documents per namespace
          MaxNamespaces,   \* quota: namespaces per project
          MaxStamp         \* bound: no call is invoked at this stamp

VARIABLES table,   \* the documents
          stamp,   \* how many calls have committed; the clock of the documents
          call,    \* per client: its latest call, its status and when it began
          seen     \* per client and key: the document its calls last returned

tableVars == <<table, stamp, call, seen>>

\* createdAt and updatedAt are times; here the stamps of the writes that set
\* them.  updatedAt also stands for the data: it says which write's it is.
Document   == [revision : Nat \ {0}, createdAt : Nat, updatedAt : Nat]
Documents  == [Key -> Document \cup {NoDocument}]
NoDocuments == [k \in Key |-> NoDocument]

Op       == {"get", "list", "create", "update", "delete"}
Writes   == {"create", "update", "delete"}
Request  == [op : Op, key : Key, expected : Nat]
Refusals == {"not_found", "conflict", "quota_exceeded"}
Status   == {"none", "pending", "ok", "unavailable"} \cup Refusals
Call     == [request : Request, status : Status, since : Nat]

Present(documents) == {k \in Key : documents[k] # NoDocument}
Namespace(k)       == {j \in Key : NamespaceOf[j] = NamespaceOf[k]}
NamespacesUsed(documents) == {NamespaceOf[k] : k \in Present(documents)}

NamespaceFull(documents, k) ==
  Cardinality(Present(documents) \cap Namespace(k)) >= MaxDocuments

ProjectFull(documents, k) ==
  /\ NamespaceOf[k] \notin NamespacesUsed(documents)
  /\ Cardinality(NamespacesUsed(documents)) >= MaxNamespaces

\* The refusal of a write on these documents, or "none".
Refusal(documents, request) ==
  LET document == documents[request.key] IN
  IF request.op = "create" /\ document # NoDocument THEN "conflict"
  ELSE IF request.op = "create"
          /\ (NamespaceFull(documents, request.key) \/ ProjectFull(documents, request.key))
       THEN "quota_exceeded"
  ELSE IF request.op \in {"update", "delete"} /\ document = NoDocument THEN "not_found"
  ELSE IF request.op \in {"update", "delete"} /\ document.revision # request.expected
       THEN "conflict"
  ELSE "none"

\* The document a write leaves under its key, when written at this stamp.
Written(documents, request, at) ==
  IF request.op = "create" THEN [revision |-> 1, createdAt |-> at, updatedAt |-> at]
  ELSE IF request.op = "update"
       THEN [documents[request.key] EXCEPT !.revision = @ + 1, !.updatedAt = at]
  ELSE NoDocument

After(documents, request, at) ==
  [documents EXCEPT ![request.key] = Written(documents, request, at)]

\* What the answer of a call shows its caller.
Shown(documents, request) ==
  IF request.op = "list" THEN Namespace(request.key) ELSE {request.key}

Learn(c, documents) ==
  seen' = [seen EXCEPT ![c] =
            [k \in Key |-> IF k \in Shown(documents, call[c].request)
                           THEN documents[k] ELSE seen[c][k]]]

-----------------------------------------------------------------------------

Init ==
  /\ table = NoDocuments
  /\ stamp = 0
  /\ call = [c \in Client |->
       [request |-> [op |-> "get", key |-> CHOOSE k \in Key : TRUE, expected |-> 0],
        status |-> "none", since |-> 0]]
  /\ seen = [c \in Client |-> NoDocuments]

\* A caller updates and deletes documents it has seen.
Requests(c) ==
  [op : {"get", "list", "create"}, key : Key, expected : {0}]
  \cup {[op |-> op, key |-> k, expected |-> seen[c][k].revision] :
          op \in {"update", "delete"}, k \in Present(seen[c])}

Invoke(c, request) ==
  /\ call[c].status # "pending"
  /\ stamp < MaxStamp
  /\ call' = [call EXCEPT ![c] = [request |-> request, status |-> "pending", since |-> stamp]]
  /\ UNCHANGED <<table, stamp, seen>>

Answer(c, status) == call' = [call EXCEPT ![c].status = status]

Read(c) ==
  /\ call[c].status = "pending"
  /\ call[c].request.op \in {"get", "list"}
  /\ Learn(c, table)
  /\ Answer(c, "ok")
  /\ UNCHANGED <<table, stamp>>

Apply(c) ==
  /\ call[c].status = "pending"
  /\ call[c].request.op \in Writes
  /\ Refusal(table, call[c].request) = "none"
  /\ stamp' = stamp + 1
  /\ table' = After(table, call[c].request, stamp + 1)

Commit(c) == Apply(c) /\ Learn(c, table') /\ Answer(c, "ok")

CommitUnanswered(c) == Apply(c) /\ Answer(c, "unavailable") /\ UNCHANGED seen

Refuse(c) ==
  /\ call[c].status = "pending"
  /\ call[c].request.op \in Writes
  /\ Refusal(table, call[c].request) # "none"
  /\ Answer(c, Refusal(table, call[c].request))
  /\ UNCHANGED <<table, stamp, seen>>

\* The byte quota is not a function of this state.
TooLarge(c) ==
  /\ call[c].status = "pending"
  /\ call[c].request.op \in {"create", "update"}
  /\ Answer(c, "quota_exceeded")
  /\ UNCHANGED <<table, stamp, seen>>

Contend(c) ==
  /\ call[c].status = "pending"
  /\ call[c].request.op \in Writes
  /\ stamp > call[c].since
  /\ Answer(c, "conflict")
  /\ UNCHANGED <<table, stamp, seen>>

Fail(c) ==
  /\ call[c].status = "pending"
  /\ Answer(c, "unavailable")
  /\ UNCHANGED <<table, stamp, seen>>

Next == \E c \in Client :
  \/ \E request \in Requests(c) : Invoke(c, request)
  \/ Read(c)
  \/ Commit(c)
  \/ CommitUnanswered(c)
  \/ Refuse(c)
  \/ TooLarge(c)
  \/ Contend(c)
  \/ Fail(c)

Spec == Init /\ [][Next]_tableVars

=============================================================================
