---------------------------- MODULE BackendCalls ----------------------------
(***************************************************************************)
(* What the two durable backends (lib/project-data/durable-backend.ts)     *)
(* have in common: the calls of their clients, each an operation of        *)
(* ProjectDataBackend that takes several storage calls.                    *)
(***************************************************************************)
EXTENDS Naturals

CONSTANTS Client, Content, NoContent, MaxRevision

\* A removed snapshot has no content (durable-backend.ts 147-160).
ASSUME BackendAssumption == NoContent \notin Content /\ MaxRevision \in Nat

VARIABLES call,       \* the calls of the backend's clients
          step        \* per client: the storage call its operation makes next

=============================================================================
