-------------------------- MODULE PostgresSnapshots --------------------------
(***************************************************************************)
(* PostgresProjectDataBackend (lib/project-data/durable-backend.ts         *)
(* 314-441).  A write is one conditional statement; when it changed no row *)
(* a second statement reads the row to decide the answer.  Other clients   *)
(* may run between the two.                                                *)
(***************************************************************************)
EXTENDS BackendCalls

VARIABLE row          \* the project's row; revision 0 is no row

rowVars == <<row, call, step>>

RowRegister == INSTANCE SnapshotRegister WITH register <- row

RowTypeOK ==
  /\ row \in RowRegister!Envelope
  /\ call \in [Client -> [phase : {"idle", "pending", "done"},
                          request : RowRegister!Request,
                          reply : RowRegister!Reply]]
  /\ step \in [Client -> {"idle", "statement", "select"}]

RowInit ==
  /\ row = RowRegister!Missing
  /\ call = [c \in Client |-> RowRegister!Idle]
  /\ step = [c \in Client |-> "idle"]

RowAnswered(c, reply) ==
  /\ RowRegister!Finish(c, reply)
  /\ step' = [step EXCEPT ![c] = "idle"]

RowInvoke(c, request) ==
  /\ RowRegister!Invoke(c, request)
  /\ step' = [step EXCEPT ![c] = "statement"]

Select(c) ==
  /\ step[c] = "statement"
  /\ call[c].request.op = "read"
  /\ RowAnswered(c, RowRegister!Success(row, call[c].request))
  /\ UNCHANGED row

(***************************************************************************)
(* The row the statement of a write changes:                               *)
(*   INSERT .. ON CONFLICT DO NOTHING  no row (expected is 0) may exist    *)
(*   UPDATE .. WHERE store_revision    the row at the expected revision,   *)
(*                                     deleted or not                      *)
(*   UPDATE .. AND deleted = FALSE     the live row at that revision       *)
(***************************************************************************)
Matches(request) ==
  /\ row.revision = request.expected
  /\ request.op = "deleteProject" => row.live

NextRow(request) ==
  [revision |-> request.expected + 1,
   live     |-> request.op = "compareAndSwap",
   content  |-> request.content]

Write(c) ==
  /\ step[c] = "statement"
  /\ call[c].request.op # "read"
  /\ Matches(call[c].request)
  /\ row' = NextRow(call[c].request)

Written(c)         == Write(c) /\ RowAnswered(c, RowRegister!Answer("ok"))
WriteUnanswered(c) == Write(c) /\ RowAnswered(c, RowRegister!Answer("unavailable"))

WriteMisses(c) ==
  /\ step[c] = "statement"
  /\ call[c].request.op # "read"
  /\ ~Matches(call[c].request)
  /\ step' = [step EXCEPT ![c] = "select"]
  /\ UNCHANGED <<row, call>>

\* Mutant: any tombstone will do.
AnyTombstone(request) == request.op = "deleteProject" /\ ~row.live

\* deleteProject accepts a missing row at 0 and a tombstone at the revision.
AlreadyGone(request) ==
  /\ request.op = "deleteProject"
  /\ ~row.live
  /\ row.revision = request.expected

MissedAlreadyGone(c) ==
  /\ step[c] = "select"
  /\ AlreadyGone(call[c].request)
  /\ RowAnswered(c, RowRegister!Answer("ok"))
  /\ UNCHANGED row

MissedConflict(c) ==
  /\ step[c] = "select"
  /\ ~AlreadyGone(call[c].request)
  /\ RowAnswered(c, RowRegister!Answer("conflict"))
  /\ UNCHANGED row

StatementFails(c) ==
  /\ step[c] \in {"statement", "select"}
  /\ RowAnswered(c, RowRegister!Answer("unavailable"))
  /\ UNCHANGED row

RowReturn(c) ==
  /\ RowRegister!Return(c)
  /\ UNCHANGED step

RowNext == \E c \in Client :
  \/ \E request \in RowRegister!Requests(row.revision) : RowInvoke(c, request)
  \/ Select(c)
  \/ Written(c)
  \/ WriteUnanswered(c)
  \/ WriteMisses(c)
  \/ MissedAlreadyGone(c)
  \/ MissedConflict(c)
  \/ StatementFails(c)
  \/ RowReturn(c)

RowSpec == RowInit /\ [][RowNext]_rowVars

-----------------------------------------------------------------------------
(* Properties *)

\* What an operation decides from its two statements, with other clients'
\* statements and lost responses in between, is what the atomic register
\* decides at one instant: the row a missed write reads back is judged at the
\* second statement (durable-backend.ts 430-434).
RowImplementsRegister == RowRegister!Spec

=============================================================================
