-------------------------- MODULE SnapshotRegister --------------------------
(***************************************************************************)
(* What ProjectDataBackend promises its callers (lib/project-data/types.ts *)
(* 85-98): per project, one snapshot that is read as a whole, replaced by  *)
(* compareAndSwap on its storeRevision, and removed by deleteProject,      *)
(* which leaves a tombstone.  A call takes effect at one instant between   *)
(* its invocation and its reply.  "unavailable" promises nothing: the      *)
(* effect may or may not have happened.                                    *)
(*                                                                         *)
(* BlobSnapshots and PostgresSnapshots implement this module.              *)
(***************************************************************************)
EXTENDS Naturals

CONSTANTS Client,        \* callers of the backend, in any number of processes
          Content,       \* what a snapshot holds
          NoContent,     \* a missing or deleted snapshot
          MaxRevision    \* bound: no write is invoked at this revision

VARIABLES register,      \* the envelope: revision, live or deleted, content
          call           \* per client: phase, request and reply of its call

registerVars == <<register, call>>

Envelope == [revision : Nat, live : BOOLEAN, content : Content \cup {NoContent}]
Missing  == [revision |-> 0, live |-> FALSE, content |-> NoContent]

Request == [op : {"read", "compareAndSwap", "deleteProject"},
            expected : Nat,
            content : Content \cup {NoContent}]
Reply   == [status : {"none", "ok", "conflict", "unavailable"},
            revision : Nat,
            content : Content \cup {NoContent}]

NoRequest == [op |-> "read", expected |-> 0, content |-> NoContent]
Answer(status) == [status |-> status, revision |-> 0, content |-> NoContent]
NoReply   == Answer("none")
Idle      == [phase |-> "idle", request |-> NoRequest, reply |-> NoReply]

(***************************************************************************)
(* Requests a caller can make now: revisions come from earlier reads, so   *)
(* none is ahead of the register (store.ts 112, 117; deleteProject's       *)
(* callers pass snapshot.storeRevision).                                   *)
(***************************************************************************)
Requests(current) ==
  {NoRequest}
  \cup [op : {"compareAndSwap"}, expected : 0..current, content : Content]
  \cup [op : {"deleteProject"}, expected : 0..current, content : {NoContent}]

Admits(envelope, request) ==
  request.op = "read" \/ envelope.revision = request.expected

After(envelope, request) ==
  IF request.op = "compareAndSwap"
  THEN [revision |-> request.expected + 1, live |-> TRUE, content |-> request.content]
  ELSE IF request.op = "deleteProject" /\ envelope.live
  THEN [revision |-> request.expected + 1, live |-> FALSE, content |-> NoContent]
  ELSE envelope

\* A deleted snapshot reads like one that never existed.
Success(envelope, request) ==
  IF request.op = "read" /\ envelope.live
  THEN [status |-> "ok", revision |-> envelope.revision, content |-> envelope.content]
  ELSE Answer("ok")

-----------------------------------------------------------------------------

Init ==
  /\ register = Missing
  /\ call = [c \in Client |-> Idle]

Invoke(c, request) ==
  /\ call[c].phase = "idle"
  /\ register.revision < MaxRevision
  /\ call' = [call EXCEPT ![c] = [phase |-> "pending", request |-> request, reply |-> NoReply]]
  /\ UNCHANGED register

Finish(c, reply) ==
  call' = [call EXCEPT ![c].phase = "done", ![c].reply = reply]

Perform(c) ==
  /\ call[c].phase = "pending"
  /\ Admits(register, call[c].request)
  /\ register' = After(register, call[c].request)
  /\ Finish(c, Success(register, call[c].request))

Reject(c) ==
  /\ call[c].phase = "pending"
  /\ ~Admits(register, call[c].request)
  /\ Finish(c, Answer("conflict"))
  /\ UNCHANGED register

Fail(c) ==
  /\ call[c].phase = "pending"
  /\ Finish(c, Answer("unavailable"))
  /\ UNCHANGED register

PerformUnanswered(c) ==
  /\ call[c].phase = "pending"
  /\ call[c].request.op # "read"
  /\ Admits(register, call[c].request)
  /\ register' = After(register, call[c].request)
  /\ Finish(c, Answer("unavailable"))

Return(c) ==
  /\ call[c].phase = "done"
  /\ call' = [call EXCEPT ![c] = Idle]
  /\ UNCHANGED register

Next == \E c \in Client :
  \/ \E request \in Requests(register.revision) : Invoke(c, request)
  \/ Perform(c)
  \/ Reject(c)
  \/ Fail(c)
  \/ PerformUnanswered(c)
  \/ Return(c)

Spec == Init /\ [][Next]_registerVars

=============================================================================
