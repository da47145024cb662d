--------------------------- MODULE AgentOrchestrator ---------------------------
(***************************************************************************)
(* MultiAgentOrchestrator (lib/agent/orchestrator/orchestrator.ts) on one  *)
(* run id: run, resume, cancel, the waves of builder subagents the         *)
(* scheduler starts (scheduler.ts), the merge gate, and the review.  The   *)
(* run state is kept in an injectable AgentRunStore that survives a crash  *)
(* of the process; everything else is in memory.  Every await is a step of *)
(* its own: other calls, cancel and crashes run between them.              *)
(*                                                                         *)
(* A project is its revision and the builder tasks whose patches it holds. *)
(***************************************************************************)
EXTENDS Naturals, FiniteSets

CONSTANTS Call,          \* concurrent calls of run and resume
          NoCall,
          Builder,       \* frontend, backend and integration tasks
          Reviewer,      \* qa and security tasks
          Dependencies,  \* the tasks each task waits for
          Conflicts,     \* the builder tasks each one's write scopes overlap
          MaxActive,     \* maxActiveSubagents
          MaxParallel    \* maxParallelModelCalls

Task == Builder \cup Reviewer

\* What a plan passes before it is executed: validateTaskGraph (task-graph.ts
\* 88-112) wants some tasks, dependencies among them and a topological order;
\* assertRunBudgets (67-92) wants builders to wait for builders only.
ASSUME PlanAssumption ==
  /\ NoCall \notin Call
  /\ Builder \cap Reviewer = {}
  /\ IsFiniteSet(Task) /\ Task # {}
  /\ Dependencies \in [Task -> SUBSET Task]
  /\ \E order \in [Task -> 1..Cardinality(Task)] :
       \A t \in Task : \A d \in Dependencies[t] : order[d] < order[t]
  /\ \A t \in Builder : Dependencies[t] \subseteq Builder
  /\ Conflicts \in [Task -> SUBSET Builder]
  /\ \A t, u \in Task : u \in Conflicts[t] => t \in Conflicts[u] /\ t # u
  /\ MaxActive \in 1..3
  /\ MaxParallel \in 1..3

VARIABLES stored,      \* the AgentRunStore: the saved run, its status "none" at first
          controller,  \* the call whose AbortController is registered
          step,        \* per call: where it is
          then,        \* per call: where it goes after the save it is in
          mine,        \* per call: its own copy of the run
          aborted,     \* per call: its controller's signal
          wave,        \* per call: the scheduler's tasks and their outcomes
          judged       \* history variable: per reviewer, the project a review it was in last passed

vars == <<stored, controller, step, then, mine, aborted, wave, judged>>

Project    == [revision : Nat, work : SUBSET Builder]
TaskStatus == {"unplanned", "queued", "merged", "failed", "cancelled", "waiting"}
RunStatus  == {"none", "planning", "building", "failed", "cancelled", "completed"}
Run        == [status : RunStatus, tasks : [Task -> TaskStatus], project : Project]
Outcome    == {"out", "queued", "running", "succeeded", "failed"}

Steps == {"idle", "firstSave", "planner", "get", "save", "top", "build", "review",
          "merge", "reload", "lastSave", "leave"}

TypeOK ==
  /\ stored \in Run
  /\ controller \in Call \cup {NoCall}
  /\ step \in [Call -> Steps]
  /\ then \in [Call -> {"planner", "top", "leave"}]
  /\ mine \in [Call -> Run]
  /\ aborted \in [Call -> BOOLEAN]
  /\ wave \in [Call -> [Task -> Outcome]]
  /\ judged \in [Reviewer -> Project]

NoProject == [revision |-> 0, work |-> {}]
NoRun     == [status |-> "none", tasks |-> [t \in Task |-> "unplanned"], project |-> NoProject]

NoWave    == [t \in Task |-> "out"]

Init ==
  /\ stored = NoRun
  /\ controller = NoCall
  /\ step = [e \in Call |-> "idle"]
  /\ then = [e \in Call |-> "leave"]
  /\ mine = [e \in Call |-> NoRun]
  /\ aborted = [e \in Call |-> FALSE]
  /\ wave = [e \in Call |-> NoWave]
  /\ judged = [r \in Reviewer |-> NoProject]

-----------------------------------------------------------------------------
(* Tasks of a run *)

Merged(run)     == {t \in Task : run.tasks[t] = "merged"}
Unmerged(kind, run) == kind \ Merged(run)

Mark(run, tasks, status) ==
  [run EXCEPT !.tasks = [t \in Task |-> IF t \in tasks THEN status ELSE run.tasks[t]]]

\* Mutant: only tasks without dependencies are ever ready.
ReadyRoots(run) == {t \in Unmerged(Builder, run) : Dependencies[t] = {}}

Ready(run) == {t \in Unmerged(Builder, run) : Dependencies[t] \subseteq Merged(run)}

\* Mutant: write scopes are not compared.
UnscopedSelections(tasks, limit) ==
  {chosen \in SUBSET tasks : Cardinality(chosen) = limit \/ chosen = tasks}

\* What a greedy selection of at most `limit` tasks with disjoint write scopes
\* can choose, whatever the priorities (orchestrator 37-46, scheduler 33-41).
Selections(tasks, limit) ==
  {chosen \in SUBSET tasks :
     /\ Cardinality(chosen) <= limit
     /\ \A t \in chosen : Conflicts[t] \cap chosen = {}
     /\ Cardinality(chosen) = limit
        \/ \A t \in tasks \ chosen : Conflicts[t] \cap chosen # {}}

AtMost(a, b) == IF a <= b THEN a ELSE b

InWave(e, outcome) == {t \in Task : wave[e][t] = outcome}

-----------------------------------------------------------------------------
(* run and resume, up to the plan *)

Goto(e, next) == step' = [step EXCEPT ![e] = next]

\* An await of store.save(run), after which the call goes to `next`.
Save(e, run, next) ==
  /\ mine' = [mine EXCEPT ![e] = run]
  /\ then' = [then EXCEPT ![e] = next]
  /\ Goto(e, "save")

Register(e) ==
  /\ controller' = e
  /\ aborted' = [aborted EXCEPT ![e] = FALSE]

\* run does not look at the store; callers run an id that has no plan yet.
StartRun(e) ==
  /\ step[e] = "idle"
  /\ stored.tasks = NoRun.tasks
  /\ controller = NoCall
  /\ Register(e)
  /\ mine' = [mine EXCEPT ![e] = [NoRun EXCEPT !.status = "planning", !.project.revision = 1]]
  /\ then' = [then EXCEPT ![e] = "planner"]
  /\ Goto(e, "firstSave")
  /\ UNCHANGED <<stored, wave, judged>>

\* The planner throws, or its plan is invalid or over budget.
PlannerFails(e) ==
  /\ step[e] = "planner"
  /\ Goto(e, "reload")
  /\ UNCHANGED <<stored, controller, then, mine, aborted, wave, judged>>

\* The planner is not raced with the signal, so it may end after an abort.
PlannerReturns(e) ==
  /\ step[e] = "planner"
  /\ Save(e, [Mark(mine[e], Task, "queued") EXCEPT !.status = "building"], "top")
  /\ UNCHANGED <<stored, controller, aborted, wave, judged>>

StartResume(e) ==
  /\ step[e] = "idle"
  /\ controller = NoCall
  /\ Goto(e, "get")
  /\ UNCHANGED <<stored, controller, then, mine, aborted, wave, judged>>

Resumable == stored.status \notin {"none", "completed"} /\ stored.tasks # NoRun.tasks

\* No stored run, a completed one, or one without tasks; or the store fails.
ResumeReturns(e) ==
  /\ step[e] = "get"
  /\ Goto(e, "idle")
  /\ UNCHANGED <<stored, controller, then, mine, aborted, wave, judged>>

ResumeAs(e, run) ==
  /\ step[e] = "get"
  /\ Resumable
  /\ Register(e)
  /\ mine' = [mine EXCEPT ![e] = [run EXCEPT !.status = "building"]]
  /\ then' = [then EXCEPT ![e] = "top"]
  /\ Goto(e, "firstSave")
  /\ UNCHANGED <<stored, wave, judged>>

\* Mutant: every task is requeued.
ResumeAll(e) == ResumeAs(e, Mark(stored, Task, "queued"))

\* Mutant: the tasks are requeued from the project the run began with.
ResumeFromStart(e) ==
  ResumeAs(e, [Mark(stored, Task, "queued") EXCEPT !.project = [revision |-> 1, work |-> {}]])

Resume(e) ==
  ResumeAs(e, Mark(stored, Task \ Merged(stored), "queued"))

-----------------------------------------------------------------------------
(* The store *)

Saved(e) ==
  /\ step[e] \in {"firstSave", "save"}
  /\ stored' = mine[e]
  /\ Goto(e, then[e])
  /\ UNCHANGED <<controller, then, mine, aborted, wave, judged>>

\* The save throws, having stored the run or not.  The first save of a call is
\* outside its try block: the call ends there (orchestrator 128, 190).
SaveThrows(e) ==
  /\ step[e] \in {"firstSave", "save"}
  /\ stored' \in {stored, mine[e]}
  /\ Goto(e, IF step[e] = "firstSave" THEN "idle" ELSE "reload")
  /\ UNCHANGED <<controller, then, mine, aborted, wave, judged>>

\* The catch block takes the stored run and records the failure in it.
Reload(e) ==
  /\ step[e] = "reload"
  /\ mine' = [mine EXCEPT ![e] =
       [(IF stored.status = "none" THEN mine[e] ELSE stored) EXCEPT
          !.status = IF aborted[e] THEN "cancelled" ELSE "failed"]]
  /\ Goto(e, "lastSave")
  /\ UNCHANGED <<stored, controller, then, aborted, wave, judged>>

ReloadThrows(e) ==
  /\ step[e] = "reload"
  /\ Goto(e, "leave")
  /\ UNCHANGED <<stored, controller, then, mine, aborted, wave, judged>>

LastSave(e) ==
  /\ step[e] = "lastSave"
  /\ stored' \in {stored, mine[e]}
  /\ Goto(e, "leave")
  /\ UNCHANGED <<controller, then, mine, aborted, wave, judged>>

\* finally: the controller of the run id is forgotten, whoever registered it.
Leave(e) ==
  /\ step[e] = "leave"
  /\ controller' = NoCall
  /\ aborted' = [aborted EXCEPT ![e] = FALSE]
  /\ Goto(e, "idle")
  /\ UNCHANGED <<stored, then, mine, wave, judged>>

-----------------------------------------------------------------------------
(* executePlan *)

Planning(e, tasks, next) ==
  /\ wave' = [wave EXCEPT ![e] = [t \in Task |-> IF t \in tasks THEN "queued" ELSE "out"]]
  /\ Goto(e, next)
  /\ UNCHANGED <<stored, controller, then, mine, aborted, judged>>

StartWave(e) ==
  /\ step[e] = "top"
  /\ Unmerged(Builder, mine[e]) # {}
  /\ ~aborted[e]
  /\ \E chosen \in Selections(Ready(mine[e]), MaxActive) :
       chosen # {} /\ Planning(e, chosen, "build")

\* #failedState: the run is saved with the failure, and the call returns it.
FailRun(e, run) ==
  Save(e, [run EXCEPT !.status = IF aborted[e] THEN "cancelled" ELSE "failed"], "leave")

StopAborted(e) ==
  /\ step[e] = "top"
  /\ Unmerged(Builder, mine[e]) # {}
  /\ aborted[e]
  /\ FailRun(e, mine[e])
  /\ UNCHANGED <<stored, controller, aborted, wave, judged>>

StartReview(e) ==
  /\ step[e] = "top"
  /\ Unmerged(Builder, mine[e]) = {}
  /\ Unmerged(Reviewer, mine[e]) # {}
  /\ Planning(e, Unmerged(Reviewer, mine[e]), "review")

Complete(e, run) == Save(e, [run EXCEPT !.status = "completed"], "leave")

\* Every task is merged already; the signal is not looked at.
NothingToReview(e) ==
  /\ step[e] = "top"
  /\ Unmerged(Task, mine[e]) = {}
  /\ Complete(e, mine[e])
  /\ UNCHANGED <<stored, controller, aborted, wave, judged>>

-----------------------------------------------------------------------------
(* The scheduler.  Builders are rebased without dependencies, reviewers with
   the reviewers among theirs. *)

Scheduling(e) == step[e] \in {"build", "review"}

Startable(e) ==
  {t \in InWave(e, "queued") :
     step[e] = "build" \/ Dependencies[t] \cap Reviewer \subseteq InWave(e, "succeeded")
                                                                   \cup Merged(mine[e])}

\* Mutant: the signal is not looked at between batches.
StartBatchAnyway(e) ==
  /\ Scheduling(e)
  /\ InWave(e, "running") = {}
  /\ Startable(e) # {}
  /\ \E batch \in Selections(Startable(e), AtMost(MaxActive, MaxParallel)) :
       wave' = [wave EXCEPT ![e] =
                 [t \in Task |-> IF t \in batch THEN "running" ELSE wave[e][t]]]
  /\ UNCHANGED <<stored, controller, step, then, mine, aborted, judged>>

StartBatch(e) ==
  /\ Scheduling(e)
  /\ InWave(e, "running") = {}
  /\ ~aborted[e]
  /\ Startable(e) # {}
  /\ \E batch \in Selections(Startable(e), AtMost(MaxActive, MaxParallel)) :
       wave' = [wave EXCEPT ![e] =
                 [t \in Task |-> IF t \in batch THEN "running" ELSE wave[e][t]]]
  /\ UNCHANGED <<stored, controller, step, then, mine, aborted, judged>>

\* A callback's result loses the race against an abort that came before it.
TaskSucceeds(e, t) ==
  /\ Scheduling(e)
  /\ wave[e][t] = "running"
  /\ ~aborted[e]
  /\ wave' = [wave EXCEPT ![e][t] = "succeeded"]
  /\ UNCHANGED <<stored, controller, step, then, mine, aborted, judged>>

\* The callback throws, times out or is aborted.
TaskFails(e, t) ==
  /\ Scheduling(e)
  /\ wave[e][t] = "running"
  /\ wave' = [wave EXCEPT ![e][t] = "failed"]
  /\ UNCHANGED <<stored, controller, step, then, mine, aborted, judged>>

\* Mutant: an aborted wave waits for the tasks it will not start.
SettledUnaborted(e) ==
  /\ Scheduling(e)
  /\ InWave(e, "running") = {}
  /\ Startable(e) = {}

Settled(e) ==
  /\ Scheduling(e)
  /\ InWave(e, "running") = {}
  /\ aborted[e] \/ Startable(e) = {}

\* Tasks that failed, were never started or wait for one that failed.
Failures(e) == InWave(e, "failed") \cup InWave(e, "queued")

WaveFails(e) ==
  /\ Settled(e)
  /\ Failures(e) # {}
  /\ FailRun(e, Mark(mine[e], Failures(e), IF aborted[e] THEN "cancelled" ELSE "failed"))
  /\ wave' = [wave EXCEPT ![e] = NoWave]
  /\ UNCHANGED <<stored, controller, aborted, judged>>

-----------------------------------------------------------------------------
(* The merge gate and the verdict *)

WaveSucceeds(e) ==
  /\ Settled(e)
  /\ step[e] = "build"
  /\ Failures(e) = {}
  /\ Goto(e, "merge")
  /\ UNCHANGED <<stored, controller, then, mine, aborted, wave, judged>>

\* All patches of the wave in one new revision.
MergeWave(e) ==
  LET tasks == InWave(e, "succeeded") IN
  /\ step[e] = "merge"
  /\ Save(e, [Mark(mine[e], tasks, "merged") EXCEPT
                !.project = [revision |-> @.revision + 1, work |-> @.work \cup tasks]], "top")
  /\ wave' = [wave EXCEPT ![e] = NoWave]
  /\ UNCHANGED <<stored, controller, aborted, judged>>

\* Mutant: the conflicting tasks are counted as merged.
RerunCountedMerged(e) ==
  /\ step[e] = "merge"
  /\ \E tasks \in SUBSET InWave(e, "succeeded") :
       /\ tasks # {}
       /\ Save(e, [Mark(mine[e], tasks, "merged") EXCEPT !.status = "failed"], "leave")
  /\ wave' = [wave EXCEPT ![e] = NoWave]
  /\ UNCHANGED <<stored, controller, aborted, judged>>

\* Two bundles, or their dependency changes, conflict.
RerunRequired(e) ==
  /\ step[e] = "merge"
  /\ \E tasks \in SUBSET InWave(e, "succeeded") :
       /\ tasks # {}
       /\ Save(e, [Mark(mine[e], tasks, "waiting") EXCEPT !.status = "failed"], "leave")
  /\ wave' = [wave EXCEPT ![e] = NoWave]
  /\ UNCHANGED <<stored, controller, aborted, judged>>

\* An invalid bundle, or operations the project refuses.
MergeThrows(e) ==
  /\ step[e] = "merge"
  /\ Goto(e, "reload")
  /\ wave' = [wave EXCEPT ![e] = NoWave]
  /\ UNCHANGED <<stored, controller, then, mine, aborted, judged>>

ReviewPasses(e) ==
  /\ Settled(e)
  /\ step[e] = "review"
  /\ Failures(e) = {}
  /\ Complete(e, Mark(mine[e], InWave(e, "succeeded"), "merged"))
  /\ judged' = [r \in Reviewer |->
                  IF r \in InWave(e, "succeeded") THEN mine[e].project ELSE judged[r]]
  /\ wave' = [wave EXCEPT ![e] = NoWave]
  /\ UNCHANGED <<stored, controller, aborted>>

\* Mutant: reviewers that blocked the merge count as done when the run is resumed.
BlockedCountedMerged(e) ==
  /\ Settled(e)
  /\ step[e] = "review"
  /\ Failures(e) = {}
  /\ Save(e, [Mark(mine[e], InWave(e, "succeeded"), "merged") EXCEPT !.status = "failed"], "leave")
  /\ wave' = [wave EXCEPT ![e] = NoWave]
  /\ UNCHANGED <<stored, controller, aborted, judged>>

\* A reviewer demands changes, or its verdict cannot be read: nothing has passed.
ReviewBlocks(e) ==
  /\ Settled(e)
  /\ step[e] = "review"
  /\ Failures(e) = {}
  /\ Save(e, [Mark(mine[e], InWave(e, "succeeded"), "failed") EXCEPT !.status = "failed"], "leave")
  /\ wave' = [wave EXCEPT ![e] = NoWave]
  /\ UNCHANGED <<stored, controller, aborted, judged>>

-----------------------------------------------------------------------------
(* The environment *)

Cancel ==
  /\ controller # NoCall
  /\ aborted' = [aborted EXCEPT ![controller] = TRUE]
  /\ UNCHANGED <<stored, controller, step, then, mine, wave, judged>>

Crash ==
  /\ \E e \in Call : step[e] # "idle"
  /\ controller' = NoCall
  /\ step' = [e \in Call |-> "idle"]
  /\ then' = [e \in Call |-> "leave"]
  /\ mine' = [e \in Call |-> NoRun]
  /\ aborted' = [e \in Call |-> FALSE]
  /\ wave' = [e \in Call |-> NoWave]
  /\ UNCHANGED <<stored, judged>>

StoreStep(e) ==
  \/ Saved(e) \/ SaveThrows(e) \/ Reload(e) \/ ReloadThrows(e) \/ LastSave(e)

PlanStep(e) ==
  \/ StartWave(e) \/ StopAborted(e) \/ StartReview(e) \/ NothingToReview(e)
  \/ StartBatch(e) \/ WaveFails(e) \/ WaveSucceeds(e)
  \/ \E t \in Task : TaskSucceeds(e, t) \/ TaskFails(e, t)
  \/ MergeWave(e) \/ RerunRequired(e) \/ MergeThrows(e)
  \/ ReviewPasses(e) \/ ReviewBlocks(e)

Next ==
  \/ \E e \in Call :
       \/ StartRun(e) \/ PlannerFails(e) \/ PlannerReturns(e)
       \/ StartResume(e) \/ ResumeReturns(e) \/ Resume(e)
       \/ StoreStep(e)
       \/ PlanStep(e)
       \/ Leave(e)
  \/ Cancel
  \/ Crash

\* The event loop runs what is due, storage answers or fails, and every task
\* callback is ended by its timeout (scheduler 49-78).  The planner has none.
Fairness == \A e \in Call : WF_vars(StoreStep(e) \/ PlanStep(e) \/ Leave(e))

Spec == Init /\ [][Next]_vars /\ Fairness

-----------------------------------------------------------------------------
(* Properties *)

Executing(e) == step[e] \notin {"idle", "get"}

\* The stored project holds the patches of exactly the tasks stored as merged,
\* whatever save failed, was lost or was cut off by a crash: a resume neither
\* skips a task whose work is missing nor repeats one whose work is there.
MergedIsInProject == Merged(stored) \cap Builder = stored.project.work

\* A completed run was passed by every reviewer on the project it is stored with.
CompletedWasReviewed ==
  stored.status = "completed" => \A r \in Reviewer : judged[r] = stored.project

\* executePlan never finds builders to do and none ready (233-240).
PlanNeverBlocks ==
  \A e \in Call : step[e] = "top" /\ Unmerged(Builder, mine[e]) # {} => Ready(mine[e]) # {}

\* Running subagents never share a write scope, and are never more than the limits.
RunningApart ==
  LET running == {x \in Call \X Task : wave[x[1]][x[2]] = "running"} IN
  /\ Cardinality(running) <= AtMost(MaxActive, MaxParallel)
  /\ \A x, y \in running : y[2] \notin Conflicts[x[2]]

\* No task whose patches the stored project holds is started again.
NeverRerunsMerged ==
  [][\A e \in Call, t \in Task :
       wave[e][t] = "queued" /\ wave'[e][t] = "running" => t \notin stored.project.work]_vars

\* What an earlier wave merged stays: a failed, cancelled or resumed run loses
\* none of it, and the project and tasks of a completed run never change (its
\* status may: a last save that threw after storing is recorded as a failure).
StoredOnlyGrows ==
  [][/\ stored.project.work \subseteq stored'.project.work
     /\ stored.status = "completed" =>
          stored'.project = stored.project /\ stored'.tasks = stored.tasks]_vars

\* After a cancel was accepted, no subagent is started for that call.
CancelStartsNothing ==
  [][\A e \in Call : aborted[e] =>
       InWave(e, "running")' \subseteq InWave(e, "running")]_vars

\* A call that is past its planner always ends.
PlannedCallEnds ==
  \A e \in Call : step[e] \in Steps \ {"idle", "firstSave", "planner", "get"} ~> step[e] = "idle"

\* The registered controller is the one of the call that executes the run, so
\* that cancel reaches it.
CancelReachesRun == \A e \in Call : Executing(e) => controller = e

=============================================================================
