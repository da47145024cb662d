----------------------- MODULE AgentOrchestratorProofs -----------------------
(***************************************************************************)
(* The orchestrator keeps the project and the tasks of a run in step,      *)
(* whatever calls overlap, fail or are cut off by a crash.  What it        *)
(* promises of the subagents it starts and of what it keeps holds as long  *)
(* as no other call of the run is under way while a resume reads the       *)
(* store: orchestrator.ts 175-188 looks at #controllers before that read   *)
(* and not after it.                                                       *)
(***************************************************************************)
EXTENDS AgentOrchestrator, FiniteSetTheorems, TLAPS

\* While a resume awaits the store, it is the only call of the run.
ResumeReadsAlone ==
  \A e, f \in Call : step[e] = "get" /\ step[f] # "idle" => e = f

-----------------------------------------------------------------------------
(* The invariant that needs nothing of the calls *)

\* The project holds the patches of exactly the builders merged.
InStep(run) == Merged(run) \cap Builder = run.project.work

\* A call that has no plan yet; the save before the planner leads to it.
Unplanned(e) ==
  step[e] = "planner" \/ (step[e] \in {"firstSave", "save"} /\ then[e] = "planner")

\* The scheduler has tasks only during a wave, of its kind, and none merged.
WaveFits(e) == \A t \in Task : wave[e][t] # "out" =>
  /\ mine[e].tasks[t] # "merged"
  /\ \/ step[e] \in {"build", "merge"} /\ t \in Builder
     \/ step[e] = "review" /\ t \in Reviewer

\* A batch is within the limits, and no two of its tasks conflict.
BatchFits(e) ==
  /\ Cardinality(InWave(e, "running")) <= AtMost(MaxActive, MaxParallel)
  /\ \A t, u \in InWave(e, "running") : u \notin Conflicts[t]

CallFits(e) ==
  /\ InStep(mine[e])
  /\ Unplanned(e) => Merged(mine[e]) = {}
  /\ WaveFits(e)
  /\ BatchFits(e)

IInv ==
  /\ TypeOK
  /\ InStep(stored)
  /\ \A e \in Call : CallFits(e)

-----------------------------------------------------------------------------
(* The invariant of a run one call executes at a time *)

\* A reviewer counts as merged only in a run it was the last to pass, all of
\* whose tasks are merged; and only such a run is completed.
Reviewed(run) ==
  /\ \A r \in Reviewer :
       run.tasks[r] = "merged" => Merged(run) = Task /\ judged[r] = run.project
  /\ run.status = "completed" => Merged(run) = Task

\* What a save may replace the stored run with.
Extends(old, new) ==
  /\ old.project.work \subseteq new.project.work
  /\ old.status = "completed" => new.project = old.project /\ new.tasks = old.tasks

\* The call that executes the run knows what is stored.
Knows(e) ==
  /\ step[e] \notin {"idle", "get", "firstSave"} => stored.status # "none"
  /\ step[e] = "planner" => stored = mine[e] /\ mine[e].status = "planning"
  /\ step[e] \in {"top", "build", "review", "merge"} =>
       stored = mine[e] /\ mine[e].status = "building"
  /\ step[e] \in {"firstSave", "save", "lastSave"} =>
       /\ mine[e].status # "none"
       /\ Extends(stored, mine[e])
       /\ Reviewed(mine[e])
  /\ step[e] \in {"firstSave", "save"} /\ then[e] = "top" => mine[e].status = "building"
  /\ step[e] \in {"firstSave", "save"} /\ then[e] = "planner" => mine[e].status = "planning"

\* A review is of every reviewer, after every builder.
ReviewFits(e) ==
  /\ step[e] \in {"build", "review", "merge"} => \E t \in Task : wave[e][t] # "out"
  /\ step[e] = "review" =>
       /\ Builder \subseteq Merged(mine[e])
       /\ \A r \in Reviewer : wave[e][r] # "out"

RunInv ==
  /\ IInv
  /\ Reviewed(stored)
  /\ \A e \in Call : Knows(e) /\ ReviewFits(e)

-----------------------------------------------------------------------------
(* Lemmas about runs *)

\* updateTaskStatus (orchestrator 58-61) changes the statuses of the tasks named.
LEMMA MarkTyped ==
  ASSUME NEW run \in Run, NEW tasks, NEW status \in TaskStatus
  PROVE  /\ Mark(run, tasks, status) \in Run
         /\ Mark(run, tasks, status).status = run.status
         /\ Mark(run, tasks, status).project = run.project
         /\ \A t \in Task : Mark(run, tasks, status).tasks[t] =
                              IF t \in tasks THEN status ELSE run.tasks[t]
BY DEF Mark, Run

\* The spread { ...state, status } keeps everything else.
LEMMA StatusTyped ==
  ASSUME NEW run \in Run, NEW status \in RunStatus
  PROVE  /\ [run EXCEPT !.status = status] \in Run
         /\ [run EXCEPT !.status = status].status = status
         /\ [run EXCEPT !.status = status].tasks = run.tasks
         /\ [run EXCEPT !.status = status].project = run.project
         /\ Merged([run EXCEPT !.status = status]) = Merged(run)
BY DEF Run, Merged

\* Tasks marked merged are added to the merged ones; any other mark removes them.
LEMMA MarkMerges ==
  ASSUME NEW run \in Run, NEW tasks, NEW status \in TaskStatus
  PROVE  /\ status = "merged" =>
              Merged(Mark(run, tasks, status)) = Merged(run) \cup (Task \cap tasks)
         /\ status # "merged" => Merged(Mark(run, tasks, status)) = Merged(run) \ tasks
<1>1. \A t \in Task : Mark(run, tasks, status).tasks[t] =
                        IF t \in tasks THEN status ELSE run.tasks[t]
  BY MarkTyped
<1> QED BY <1>1 DEF Merged

\* The first state of a run (orchestrator 117-127).
LEMMA NewRunTyped ==
  LET new == [NoRun EXCEPT !.status = "planning", !.project.revision = 1] IN
  /\ NoRun \in Run
  /\ Merged(NoRun) = {}
  /\ new \in Run
  /\ new.status = "planning"
  /\ new.tasks = NoRun.tasks
  /\ new.project.work = {}
  /\ Merged(new) = {}
BY DEF NoRun, NoProject, Run, Project, RunStatus, TaskStatus, Merged

\* What the merge gate's revision adds to a run (orchestrator 268-277).
LEMMA MergeTyped ==
  ASSUME NEW run \in Run, NEW tasks \in SUBSET Builder
  PROVE  LET new == [Mark(run, tasks, "merged") EXCEPT
                       !.project = [revision |-> @.revision + 1, work |-> @.work \cup tasks]]
         IN  /\ new \in Run
             /\ new.status = run.status
             /\ new.project.work = run.project.work \cup tasks
             /\ Merged(new) = Merged(run) \cup tasks
<1> DEFINE marked == Mark(run, tasks, "merged")
           new == [marked EXCEPT
                     !.project = [revision |-> @.revision + 1, work |-> @.work \cup tasks]]
<1>1. /\ marked \in Run /\ marked.status = run.status /\ marked.project = run.project
      /\ Merged(marked) = Merged(run) \cup tasks
  BY MarkTyped, MarkMerges DEF TaskStatus, Task
<1> HIDE DEF marked
<1>2. marked.project.revision + 1 \in Nat /\ marked.project.work \cup tasks \in SUBSET Builder
  BY <1>1 DEF Run, Project
<1>3. [revision |-> marked.project.revision + 1,
       work |-> marked.project.work \cup tasks] \in Project
  BY <1>2 DEF Project
<1>4. /\ new \in Run
      /\ new.status = marked.status
      /\ new.tasks = marked.tasks
      /\ new.project.work = marked.project.work \cup tasks
  BY <1>1, <1>3 DEF Run
<1>5. Merged(new) = Merged(marked)
  BY <1>4 DEF Merged
<1> QED BY <1>1, <1>4, <1>5 DEF marked

-----------------------------------------------------------------------------
(* Types *)

\* Every save is of a typed run (orchestrator 128, 155, 278, 344, 360).
LEMMA SaveTyped ==
  ASSUME TypeOK, NEW e \in Call, NEW run \in Run, NEW next \in {"top", "leave"},
         Save(e, run, next)
  PROVE  /\ mine' \in [Call -> Run] /\ mine'[e] = run
         /\ then' \in [Call -> {"planner", "top", "leave"}] /\ then'[e] = next
         /\ step' \in [Call -> Steps] /\ step'[e] = "save"
         /\ \A f \in Call \ {e} :
              mine'[f] = mine[f] /\ then'[f] = then[f] /\ step'[f] = step[f]
BY DEF TypeOK, Save, Goto, Steps

\* #failedState and the last save of executePlan (orchestrator 337-361).
LEMMA FailTyped ==
  ASSUME TypeOK, NEW e \in Call, NEW run \in Run
  PROVE  LET status == IF aborted[e] THEN "cancelled" ELSE "failed" IN
         /\ status \in RunStatus
         /\ [run EXCEPT !.status = status] \in Run
         /\ [run EXCEPT !.status = status].status \in {"cancelled", "failed"}
         /\ [run EXCEPT !.status = status].tasks = run.tasks
         /\ [run EXCEPT !.status = status].project = run.project
         /\ Merged([run EXCEPT !.status = status]) = Merged(run)
<1>1. (IF aborted[e] THEN "cancelled" ELSE "failed") \in {"cancelled", "failed"}
  OBVIOUS
<1>2. {"cancelled", "failed"} \subseteq RunStatus
  BY DEF RunStatus
<1> QED BY <1>1, <1>2, StatusTyped

\* The initial state is typed.
LEMMA InitTyped == Init => TypeOK
BY NewRunTyped DEF Init, TypeOK, Steps, NoWave, Outcome, NoProject, Project

\* The actions of run and resume up to the plan keep the types.
LEMMA StartTyped ==
  ASSUME TypeOK, NEW e \in Call,
         \/ StartRun(e) \/ PlannerFails(e) \/ PlannerReturns(e)
         \/ StartResume(e) \/ ResumeReturns(e) \/ Resume(e)
  PROVE  TypeOK'
<1>1. CASE StartRun(e)
  BY <1>1, NewRunTyped DEF TypeOK, StartRun, Register, Goto, Steps
<1>2. CASE PlannerFails(e)
  BY <1>2 DEF TypeOK, PlannerFails, Goto, Steps
<1>3. CASE PlannerReturns(e)
  <2>1. Mark(mine[e], Task, "queued") \in Run
    BY MarkTyped DEF TypeOK, TaskStatus
  <2>2. [Mark(mine[e], Task, "queued") EXCEPT !.status = "building"] \in Run
    BY <2>1, StatusTyped DEF RunStatus
  <2> QED BY <1>3, <2>2, SaveTyped DEF TypeOK, PlannerReturns
<1>4. CASE StartResume(e)
  BY <1>4 DEF TypeOK, StartResume, Goto, Steps
<1>5. CASE ResumeReturns(e)
  BY <1>5 DEF TypeOK, ResumeReturns, Goto, Steps
<1>6. CASE Resume(e)
  <2>1. Mark(stored, Task \ Merged(stored), "queued") \in Run
    BY MarkTyped DEF TypeOK, TaskStatus
  <2>2. [Mark(stored, Task \ Merged(stored), "queued") EXCEPT !.status = "building"] \in Run
    BY <2>1, StatusTyped DEF RunStatus
  <2> QED BY <1>6, <2>2 DEF TypeOK, Resume, ResumeAs, Register, Goto, Steps
<1> QED BY <1>1, <1>2, <1>3, <1>4, <1>5, <1>6

\* So do the steps that wait for the store.
LEMMA StoreTyped ==
  ASSUME TypeOK, NEW e \in Call, StoreStep(e) \/ Leave(e)
  PROVE  TypeOK'
<1>1. CASE Saved(e)
  BY <1>1 DEF TypeOK, Saved, Goto, Steps
<1>2. CASE SaveThrows(e)
  BY <1>2 DEF TypeOK, SaveThrows, Goto, Steps
<1>3. CASE Reload(e)
  <2> DEFINE latest == IF stored.status = "none" THEN mine[e] ELSE stored
  <2>1. latest \in Run
    BY DEF TypeOK
  <2>2. [latest EXCEPT !.status = IF aborted[e] THEN "cancelled" ELSE "failed"] \in Run
    BY <2>1, FailTyped
  <2> HIDE DEF latest
  <2>3. mine' = [mine EXCEPT ![e] =
                  [latest EXCEPT !.status = IF aborted[e] THEN "cancelled" ELSE "failed"]]
    BY <1>3 DEF Reload, latest
  <2> QED BY <1>3, <2>2, <2>3 DEF TypeOK, Reload, Goto, Steps
<1>4. CASE ReloadThrows(e)
  BY <1>4 DEF TypeOK, ReloadThrows, Goto, Steps
<1>5. CASE LastSave(e)
  BY <1>5 DEF TypeOK, LastSave, Goto, Steps
<1>6. CASE Leave(e)
  BY <1>6 DEF TypeOK, Leave, Goto, Steps
<1> QED BY <1>1, <1>2, <1>3, <1>4, <1>5, <1>6 DEF StoreStep

\* So do the scheduler's steps.
LEMMA ScheduleTyped ==
  ASSUME TypeOK, NEW e \in Call,
         \/ StartWave(e) \/ StartReview(e) \/ StartBatch(e) \/ WaveSucceeds(e)
         \/ \E t \in Task : TaskSucceeds(e, t) \/ TaskFails(e, t)
  PROVE  TypeOK'
<1>1. ASSUME NEW tasks, NEW next \in {"build", "review"}, Planning(e, tasks, next)
      PROVE  TypeOK'
  BY <1>1 DEF TypeOK, Planning, Goto, Steps, Outcome
<1>2. CASE StartWave(e)
  BY <1>1, <1>2 DEF StartWave
<1>3. CASE StartReview(e)
  BY <1>1, <1>3 DEF StartReview
<1>4. CASE StartBatch(e)
  BY <1>4 DEF TypeOK, StartBatch, Outcome
<1>5. CASE WaveSucceeds(e)
  BY <1>5 DEF TypeOK, WaveSucceeds, Goto, Steps
<1>6. ASSUME NEW t \in Task, TaskSucceeds(e, t) PROVE TypeOK'
  BY <1>6 DEF TypeOK, TaskSucceeds, Outcome
<1>7. ASSUME NEW t \in Task, TaskFails(e, t) PROVE TypeOK'
  BY <1>7 DEF TypeOK, TaskFails, Outcome
<1> QED BY <1>2, <1>3, <1>4, <1>5, <1>6, <1>7

-----------------------------------------------------------------------------
(* What the plan's steps save *)

\* A step that saves a run and has no wave left.
SavesRun(e, run, next) ==
  /\ Save(e, run, next)
  /\ wave' = [wave EXCEPT ![e] = NoWave]
  /\ judged' \in [Reviewer -> Project]
  /\ UNCHANGED <<stored, controller, aborted>>

\* A run that has merged what the call's copy has, and nothing else.
Keeps(e, run) ==
  /\ run.project = mine[e].project
  /\ Merged(run) = Merged(mine[e])

\* The verdicts after a review that its whole wave has passed.
Verdicts(e) ==
  [r \in Reviewer |-> IF r \in InWave(e, "succeeded") THEN mine[e].project ELSE judged[r]]

\* Between waves the scheduler has no tasks.
LEMMA QuietWave ==
  ASSUME IInv, NEW e \in Call, step[e] \notin {"build", "merge", "review"}
  PROVE  wave[e] = NoWave /\ [wave EXCEPT ![e] = NoWave] = wave
<1>1. \A t \in Task : wave[e][t] = "out"
  BY DEF IInv, CallFits, WaveFits
<1>2. wave[e] = NoWave
  BY <1>1 DEF IInv, TypeOK, NoWave
<1> QED BY <1>2 DEF IInv, TypeOK

\* Tasks of a wave are merged in no copy.
LEMMA MarkKeeps ==
  ASSUME IInv, NEW e \in Call, NEW tasks \in SUBSET Task, NEW status \in TaskStatus,
         status # "merged", \A t \in tasks : wave[e][t] # "out"
  PROVE  /\ Mark(mine[e], tasks, status) \in Run
         /\ Mark(mine[e], tasks, status).status = mine[e].status
         /\ Keeps(e, Mark(mine[e], tasks, status))
<1>1. mine[e] \in Run
  BY DEF IInv, TypeOK
<1>2. tasks \cap Merged(mine[e]) = {}
  BY DEF IInv, CallFits, WaveFits, Merged
<1>3. /\ Mark(mine[e], tasks, status) \in Run
      /\ Mark(mine[e], tasks, status).status = mine[e].status
      /\ Mark(mine[e], tasks, status).project = mine[e].project
  BY <1>1, MarkTyped
<1>4. Merged(Mark(mine[e], tasks, status)) = Merged(mine[e]) \ tasks
  BY <1>1, MarkMerges
<1>5. Merged(Mark(mine[e], tasks, status)) = Merged(mine[e])
  BY <1>2, <1>4
<1> QED BY <1>3, <1>5 DEF Keeps

\* Every way to fail saves what was merged before, and no less.
LEMMA FailureSaves ==
  ASSUME IInv, NEW e \in Call,
         StopAborted(e) \/ WaveFails(e) \/ RerunRequired(e) \/ ReviewBlocks(e)
  PROVE  \E run \in Run : /\ SavesRun(e, run, "leave") /\ UNCHANGED judged
                          /\ Keeps(e, run)
                          /\ run.status \in {"failed", "cancelled"}
<1>0. judged \in [Reviewer -> Project]
  BY DEF IInv, TypeOK
<1> USE DEF SavesRun
<1>1. ASSUME NEW run \in Run, Keeps(e, run), FailRun(e, run),
             wave' = [wave EXCEPT ![e] = NoWave],
             UNCHANGED <<stored, controller, aborted, judged>>
      PROVE  \E new \in Run : /\ SavesRun(e, new, "leave") /\ UNCHANGED judged
                              /\ Keeps(e, new)
                              /\ new.status \in {"failed", "cancelled"}
  <2> DEFINE new == [run EXCEPT !.status = IF aborted[e] THEN "cancelled" ELSE "failed"]
  <2>1. new \in Run /\ Keeps(e, new) /\ new.status \in {"failed", "cancelled"}
    BY <1>1, FailTyped DEF Keeps, IInv
  <2>2. SavesRun(e, new, "leave") /\ UNCHANGED judged
    BY <1>0, <1>1 DEF FailRun
  <2> HIDE DEF new
  <2> QED BY <2>1, <2>2
<1>2. ASSUME NEW tasks \in SUBSET Task, NEW status \in {"waiting", "failed"},
             \A t \in tasks : wave[e][t] # "out",
             Save(e, [Mark(mine[e], tasks, status) EXCEPT !.status = "failed"], "leave"),
             wave' = [wave EXCEPT ![e] = NoWave],
             UNCHANGED <<stored, controller, aborted, judged>>
      PROVE  \E new \in Run : /\ SavesRun(e, new, "leave") /\ UNCHANGED judged
                              /\ Keeps(e, new)
                              /\ new.status \in {"failed", "cancelled"}
  <2> DEFINE marked == Mark(mine[e], tasks, status)
             new == [marked EXCEPT !.status = "failed"]
  <2>1. marked \in Run /\ Keeps(e, marked)
    BY <1>2, MarkKeeps DEF TaskStatus
  <2>2. new \in Run /\ Keeps(e, new) /\ new.status = "failed"
    BY <2>1, StatusTyped DEF Keeps, RunStatus
  <2>3. SavesRun(e, new, "leave") /\ UNCHANGED judged
    BY <1>0, <1>2
  <2> HIDE DEF new
  <2> QED BY <2>2, <2>3
<1>3. CASE StopAborted(e)
  <2>1. wave' = [wave EXCEPT ![e] = NoWave]
    BY <1>3, QuietWave DEF StopAborted
  <2>2. mine[e] \in Run /\ Keeps(e, mine[e])
    BY DEF IInv, TypeOK, Keeps
  <2> QED BY <1>1, <1>3, <2>1, <2>2 DEF StopAborted
<1>4. CASE WaveFails(e)
  <2> DEFINE status == IF aborted[e] THEN "cancelled" ELSE "failed"
             marked == Mark(mine[e], Failures(e), status)
  <2>1. status \in TaskStatus /\ status # "merged"
    BY DEF TaskStatus
  <2>2. Failures(e) \in SUBSET Task /\ \A t \in Failures(e) : wave[e][t] # "out"
    BY DEF Failures, InWave
  <2>3. FailRun(e, marked)
    BY <1>4 DEF WaveFails
  <2> HIDE DEF status
  <2>4. marked \in Run /\ Keeps(e, marked)
    BY <2>1, <2>2, MarkKeeps
  <2> QED BY <1>1, <1>4, <2>3, <2>4 DEF WaveFails
<1>5. CASE RerunRequired(e)
  <2>1. PICK tasks \in SUBSET InWave(e, "succeeded") :
          Save(e, [Mark(mine[e], tasks, "waiting") EXCEPT !.status = "failed"], "leave")
    BY <1>5 DEF RerunRequired
  <2>2. tasks \in SUBSET Task /\ \A t \in tasks : wave[e][t] # "out"
    BY DEF InWave
  <2> QED BY <1>2, <1>5, <2>1, <2>2 DEF RerunRequired
<1>6. CASE ReviewBlocks(e)
  <2>1. /\ InWave(e, "succeeded") \in SUBSET Task
        /\ \A t \in InWave(e, "succeeded") : wave[e][t] # "out"
    BY DEF InWave
  <2> QED BY <1>2, <1>6, <2>1 DEF ReviewBlocks
<1> QED BY <1>3, <1>4, <1>5, <1>6

\* The merge gate adds the wave's builders, to the tasks and to the project.
LEMMA MergeSaves ==
  ASSUME IInv, NEW e \in Call, MergeWave(e)
  PROVE  \E run \in Run : /\ SavesRun(e, run, "top") /\ UNCHANGED judged
                          /\ run.status = mine[e].status
                          /\ InStep(run)
                          /\ mine[e].project.work \subseteq run.project.work
                          /\ Merged(run) \cap Reviewer = Merged(mine[e]) \cap Reviewer
<1> DEFINE tasks == InWave(e, "succeeded")
           run == [Mark(mine[e], tasks, "merged") EXCEPT
                     !.project = [revision |-> @.revision + 1, work |-> @.work \cup tasks]]
<1>1. mine[e] \in Run /\ InStep(mine[e])
  BY DEF IInv, TypeOK, CallFits
<1>2. tasks \in SUBSET Builder
  BY DEF MergeWave, IInv, CallFits, WaveFits, InWave
<1>3. SavesRun(e, run, "top") /\ UNCHANGED judged
  BY DEF MergeWave, SavesRun, IInv, TypeOK
<1>4. /\ run \in Run
      /\ run.status = mine[e].status
      /\ run.project.work = mine[e].project.work \cup tasks
      /\ Merged(run) = Merged(mine[e]) \cup tasks
  BY <1>1, <1>2, MergeTyped
<1> HIDE DEF run, tasks
<1>5. InStep(run)
  BY <1>1, <1>2, <1>4 DEF InStep
<1>6. Merged(run) \cap Reviewer = Merged(mine[e]) \cap Reviewer
  BY <1>2, <1>4, PlanAssumption
<1> QED BY <1>3, <1>4, <1>5, <1>6

\* A run is completed with the reviewers of its last wave, and the same project,
\* which is the one these reviewers have passed.
LEMMA CompletionSaves ==
  ASSUME IInv, NEW e \in Call, NothingToReview(e) \/ ReviewPasses(e)
  PROVE  \E run \in Run : /\ SavesRun(e, run, "leave")
                          /\ run.status = "completed"
                          /\ InStep(run)
                          /\ run.project = mine[e].project
                          /\ Merged(run) = Merged(mine[e]) \cup InWave(e, "succeeded")
                          /\ judged' = Verdicts(e)
<1> DEFINE tasks == InWave(e, "succeeded")
           marked == Mark(mine[e], tasks, "merged")
<1>1. mine[e] \in Run /\ InStep(mine[e])
  BY DEF IInv, TypeOK, CallFits
<1>2. CASE NothingToReview(e)
  <2> DEFINE run == [mine[e] EXCEPT !.status = "completed"]
  <2>1. SavesRun(e, run, "leave") /\ UNCHANGED judged
    BY <1>2, QuietWave DEF NothingToReview, Complete, SavesRun, IInv, TypeOK
  <2>2. tasks = {}
    BY <1>2, QuietWave DEF NothingToReview, InWave, NoWave
  <2>5. judged' = Verdicts(e)
    BY <2>1, <2>2 DEF Verdicts, IInv, TypeOK
  <2>3. /\ run \in Run /\ run.status = "completed" /\ run.project = mine[e].project
        /\ Merged(run) = Merged(mine[e])
    BY <1>1, StatusTyped DEF RunStatus
  <2> HIDE DEF run
  <2>4. InStep(run)
    BY <1>1, <2>3 DEF InStep
  <2> QED BY <2>1, <2>2, <2>3, <2>4, <2>5
<1>3. CASE ReviewPasses(e)
  <2> DEFINE run == [marked EXCEPT !.status = "completed"]
  <2>6. judged' = Verdicts(e) /\ judged' \in [Reviewer -> Project]
    BY <1>1, <1>3 DEF ReviewPasses, Verdicts, IInv, TypeOK, Run
  <2>1. SavesRun(e, run, "leave")
    BY <1>3, <2>6 DEF ReviewPasses, Complete, SavesRun
  <2>2. tasks \in SUBSET Reviewer
    BY <1>3 DEF ReviewPasses, IInv, CallFits, WaveFits, InWave
  <2>3. /\ marked \in Run /\ marked.project = mine[e].project
        /\ Merged(marked) = Merged(mine[e]) \cup tasks
    BY <1>1, <2>2, MarkTyped, MarkMerges DEF TaskStatus, Task
  <2>4. /\ run \in Run /\ run.status = "completed" /\ run.project = mine[e].project
        /\ Merged(run) = Merged(mine[e]) \cup tasks
    BY <2>3, StatusTyped DEF RunStatus
  <2> HIDE DEF run, tasks
  <2>5. InStep(run)
    BY <1>1, <2>2, <2>4, PlanAssumption DEF InStep
  <2> QED BY <2>1, <2>4, <2>5, <2>6 DEF tasks
<1> QED BY <1>2, <1>3

-----------------------------------------------------------------------------
(* The first invariant is inductive *)

\* Both limits are from 1 to 3, so no batch is within them too.
LEMMA LimitsTyped ==
  /\ AtMost(MaxActive, MaxParallel) \in Nat
  /\ Cardinality({}) <= AtMost(MaxActive, MaxParallel)
<1>1. MaxActive \in 1..3 /\ MaxParallel \in 1..3
  BY PlanAssumption
<1> QED BY <1>1, FS_EmptySet DEF AtMost

\* A call whose own state is as before is as fit as before.
LEMMA OthersFit ==
  ASSUME IInv, NEW f \in Call,
         step'[f] = step[f], then'[f] = then[f], mine'[f] = mine[f], wave'[f] = wave[f]
  PROVE  CallFits(f)'
BY DEF IInv, CallFits, InStep, Unplanned, WaveFits, BatchFits, InWave, Merged

\* A call without a wave only has to keep its copy in step with its project.
LEMMA QuietFits ==
  ASSUME NEW e \in Call, wave'[e] = NoWave,
         InStep(mine[e])', (Unplanned(e) => Merged(mine[e]) = {})'
  PROVE  CallFits(e)'
<1>1. \A t \in Task : wave'[e][t] = "out"
  BY DEF NoWave
<1>2. InWave(e, "running")' = {}
  BY <1>1 DEF InWave
<1> QED BY <1>1, <1>2, LimitsTyped DEF CallFits, WaveFits, BatchFits

\* A step of one call that leaves the stored run preserves the invariant if it
\* keeps that call fit.
LEMMA CallPreserves ==
  ASSUME IInv, NEW e \in Call, TypeOK', InStep(stored)', CallFits(e)',
         \A f \in Call \ {e} : /\ step'[f] = step[f] /\ then'[f] = then[f]
                               /\ mine'[f] = mine[f] /\ wave'[f] = wave[f]
  PROVE  IInv'
<1>1. \A f \in Call \ {e} : CallFits(f)'
  BY OthersFit
<1> QED BY <1>1 DEF IInv

\* A save of a run whose project is in step with its tasks does.
LEMMA SavePreserves ==
  ASSUME IInv, NEW e \in Call, NEW run \in Run, NEW next \in {"top", "leave"},
         SavesRun(e, run, next), InStep(run)
  PROVE  IInv'
<1>1. /\ mine' \in [Call -> Run] /\ mine'[e] = run
      /\ then' \in [Call -> {"planner", "top", "leave"}] /\ then'[e] = next
      /\ step' \in [Call -> Steps] /\ step'[e] = "save"
      /\ \A f \in Call \ {e} :
           mine'[f] = mine[f] /\ then'[f] = then[f] /\ step'[f] = step[f]
  BY SaveTyped DEF IInv, SavesRun
<1>2. NoWave \in [Task -> Outcome]
  BY DEF NoWave, Outcome
<1>3. /\ wave' \in [Call -> [Task -> Outcome]] /\ wave'[e] = NoWave
      /\ \A f \in Call \ {e} : wave'[f] = wave[f]
  BY <1>2 DEF IInv, TypeOK, SavesRun
<1>4. TypeOK'
  BY <1>1, <1>3 DEF IInv, TypeOK, SavesRun
<1>5. InStep(stored)'
  BY DEF IInv, InStep, Merged, SavesRun
<1>6. InStep(mine[e])'
  BY <1>1 DEF InStep, Merged
<1>7. (Unplanned(e) => Merged(mine[e]) = {})'
  BY <1>1 DEF Unplanned
<1>8. CallFits(e)'
  BY <1>3, <1>6, <1>7, QuietFits
<1> QED BY <1>1, <1>3, <1>4, <1>5, <1>8, CallPreserves

\* The steps of run and resume up to the plan.
LEMMA StartPreserves ==
  ASSUME IInv, NEW e \in Call,
         \/ StartRun(e) \/ PlannerFails(e) \/ PlannerReturns(e)
         \/ StartResume(e) \/ ResumeReturns(e) \/ Resume(e)
  PROVE  IInv'
<1>1. step[e] \in {"idle", "planner", "get"}
  BY DEF StartRun, PlannerFails, PlannerReturns, StartResume, ResumeReturns, Resume, ResumeAs
<1>2. wave[e] = NoWave /\ [wave EXCEPT ![e] = NoWave] = wave
  BY <1>1, QuietWave
<1>3. TypeOK'
  BY StartTyped DEF IInv
<1>4. CASE StartRun(e)
  <2>1. /\ mine'[e] = [NoRun EXCEPT !.status = "planning", !.project.revision = 1]
        /\ stored' = stored /\ wave' = wave
        /\ \A f \in Call \ {e} : step'[f] = step[f] /\ then'[f] = then[f] /\ mine'[f] = mine[f]
    BY <1>4 DEF IInv, TypeOK, StartRun, Register, Goto
  <2>2. Merged(mine[e])' = {} /\ InStep(mine[e])'
    BY <2>1, NewRunTyped DEF InStep, Merged
  <2>3. CallFits(e)'
    BY <1>2, <2>1, <2>2, QuietFits
  <2>4. InStep(stored)'
    BY <2>1 DEF IInv, InStep, Merged
  <2> QED BY <1>3, <2>1, <2>3, <2>4, CallPreserves
<1>5. CASE PlannerFails(e) \/ StartResume(e) \/ ResumeReturns(e)
  <2>1. /\ UNCHANGED <<stored, then, mine, wave>>
        /\ \A f \in Call \ {e} : step'[f] = step[f]
        /\ step'[e] \in {"reload", "get", "idle"}
    BY <1>5 DEF IInv, TypeOK, PlannerFails, StartResume, ResumeReturns, Goto
  <2>2. InStep(stored)' /\ InStep(mine[e])' /\ ~Unplanned(e)'
    BY <2>1 DEF IInv, CallFits, InStep, Merged, Unplanned
  <2>3. CallFits(e)'
    BY <1>2, <2>1, <2>2, QuietFits
  <2> QED BY <1>3, <2>1, <2>2, <2>3, CallPreserves
<1>6. CASE PlannerReturns(e)
  <2> DEFINE marked == Mark(mine[e], Task, "queued")
             run == [marked EXCEPT !.status = "building"]
  <2>1. mine[e] \in Run /\ InStep(mine[e]) /\ Merged(mine[e]) = {}
    BY <1>6 DEF IInv, TypeOK, CallFits, PlannerReturns, Unplanned
  <2>2. marked \in Run /\ marked.project = mine[e].project /\ Merged(marked) = {}
    BY <2>1, MarkTyped, MarkMerges DEF TaskStatus
  <2>3. run \in Run /\ run.project = mine[e].project /\ Merged(run) = {}
    BY <2>2, StatusTyped DEF RunStatus
  <2>4. SavesRun(e, run, "top")
    BY <1>2, <1>6 DEF PlannerReturns, SavesRun, IInv, TypeOK
  <2> HIDE DEF run
  <2>5. InStep(run)
    BY <2>1, <2>3 DEF InStep
  <2> QED BY <2>3, <2>4, <2>5, SavePreserves
<1>7. CASE Resume(e)
  <2> DEFINE marked == Mark(stored, Task \ Merged(stored), "queued")
             run == [marked EXCEPT !.status = "building"]
  <2>1. stored \in Run /\ InStep(stored)
    BY DEF IInv, TypeOK
  <2>2. marked \in Run /\ marked.project = stored.project /\ Merged(marked) = Merged(stored)
    BY <2>1, MarkTyped, MarkMerges DEF TaskStatus, Merged
  <2>3. run \in Run /\ run.project = stored.project /\ Merged(run) = Merged(stored)
    BY <2>2, StatusTyped DEF RunStatus
  <2>4. /\ mine'[e] = run /\ then'[e] = "top" /\ step'[e] = "firstSave"
        /\ stored' = stored /\ wave' = wave
        /\ \A f \in Call \ {e} : step'[f] = step[f] /\ then'[f] = then[f] /\ mine'[f] = mine[f]
    BY <1>7 DEF IInv, TypeOK, Resume, ResumeAs, Register, Goto
  <2> HIDE DEF run
  <2>5. InStep(stored)' /\ InStep(mine[e])' /\ ~Unplanned(e)'
    BY <2>1, <2>3, <2>4 DEF InStep, Merged, Unplanned
  <2>6. CallFits(e)'
    BY <1>2, <2>4, <2>5, QuietFits
  <2> QED BY <1>3, <2>4, <2>5, <2>6, CallPreserves
<1> QED BY <1>4, <1>5, <1>6, <1>7

\* The steps that wait for the store, whether it stores, loses or refuses.
LEMMA StorePreserves ==
  ASSUME IInv, NEW e \in Call, StoreStep(e) \/ Leave(e)
  PROVE  IInv'
<1>1. step[e] \in {"firstSave", "save", "reload", "lastSave", "leave"}
  BY DEF StoreStep, Saved, SaveThrows, Reload, ReloadThrows, LastSave, Leave
<1>2. wave[e] = NoWave
  BY <1>1, QuietWave
<1>3. TypeOK'
  BY StoreTyped DEF IInv
<1>4. InStep(stored) /\ InStep(mine[e]) /\ (Unplanned(e) => Merged(mine[e]) = {})
  BY DEF IInv, CallFits
<1>5. CASE Saved(e) \/ SaveThrows(e) \/ ReloadThrows(e) \/ LastSave(e) \/ Leave(e)
  <2>1. /\ stored' \in {stored, mine[e]}
        /\ UNCHANGED <<then, mine, wave>>
        /\ \A f \in Call \ {e} : step'[f] = step[f]
    BY <1>5 DEF IInv, TypeOK, Saved, SaveThrows, ReloadThrows, LastSave, Leave, Goto
  <2>2. InStep(stored)' /\ InStep(mine[e])'
    BY <1>4, <2>1 DEF InStep, Merged
  <2>3. (Unplanned(e) => Merged(mine[e]) = {})'
    <3>1. CASE Saved(e)
      BY <1>4, <3>1 DEF IInv, TypeOK, Saved, Goto, Unplanned, Merged
    <3>2. CASE SaveThrows(e) \/ ReloadThrows(e) \/ LastSave(e) \/ Leave(e)
      BY <3>2 DEF IInv, TypeOK, SaveThrows, ReloadThrows, LastSave, Leave, Goto, Unplanned
    <3> QED BY <1>5, <3>1, <3>2
  <2>4. CallFits(e)'
    BY <1>2, <2>1, <2>2, <2>3, QuietFits
  <2> QED BY <1>3, <2>1, <2>2, <2>4, CallPreserves
<1>6. CASE Reload(e)
  <2> DEFINE latest == IF stored.status = "none" THEN mine[e] ELSE stored
             run == [latest EXCEPT !.status = IF aborted[e] THEN "cancelled" ELSE "failed"]
  <2>1. latest \in Run /\ InStep(latest)
    BY <1>4 DEF IInv, TypeOK
  <2> HIDE DEF latest
  <2>2. run.project = latest.project /\ Merged(run) = Merged(latest)
    BY <2>1, FailTyped DEF IInv
  <2>3. /\ mine' = [mine EXCEPT ![e] = run]
        /\ UNCHANGED <<stored, then, wave>>
        /\ step' = [step EXCEPT ![e] = "lastSave"]
    BY <1>6 DEF Reload, Goto, latest
  <2> HIDE DEF run
  <2>4. /\ mine'[e] = run /\ step'[e] = "lastSave"
        /\ \A f \in Call \ {e} : mine'[f] = mine[f] /\ step'[f] = step[f]
    BY <2>3 DEF IInv, TypeOK
  <2>5. InStep(stored)' /\ InStep(mine[e])' /\ ~Unplanned(e)'
    BY <1>4, <2>1, <2>2, <2>3, <2>4 DEF InStep, Merged, Unplanned
  <2>6. CallFits(e)'
    BY <1>2, <2>3, <2>5, QuietFits
  <2> QED BY <1>3, <2>3, <2>4, <2>5, <2>6, CallPreserves
<1> QED BY <1>5, <1>6 DEF StoreStep

\* The sets of tasks in a wave are finite.
LEMMA TasksAreFinite ==
  ASSUME NEW tasks \in SUBSET Task
  PROVE  IsFiniteSet(tasks) /\ Cardinality(tasks) \in Nat
BY PlanAssumption, FS_Subset, FS_CardinalityType

\* A batch is chosen within the limits and without conflicts.
LEMMA SelectionFits ==
  ASSUME NEW tasks \in SUBSET Task, NEW limit \in Nat, NEW batch \in Selections(tasks, limit)
  PROVE  /\ batch \subseteq tasks
         /\ Cardinality(batch) <= limit
         /\ \A t, u \in batch : u \notin Conflicts[t]
BY DEF Selections

\* Scheduling changes the wave and nothing of the run.
LEMMA WavePreserves ==
  ASSUME IInv, NEW e \in Call, TypeOK',
         UNCHANGED <<stored, then, mine>>,
         \A f \in Call \ {e} : step'[f] = step[f] /\ wave'[f] = wave[f],
         step'[e] \in {"build", "review", "merge"},
         WaveFits(e)', BatchFits(e)'
  PROVE  IInv'
<1>1. InStep(stored)' /\ InStep(mine[e])'
  BY DEF IInv, CallFits, InStep, Merged
<1>2. ~Unplanned(e)'
  BY DEF Unplanned
<1>3. CallFits(e)'
  BY <1>1, <1>2 DEF CallFits
<1> QED BY <1>1, <1>3, CallPreserves

\* A new wave, none of which is merged or runs.
LEMMA PlanningPreserves ==
  ASSUME IInv, NEW e \in Call, NEW tasks \in SUBSET Task, NEW next \in {"build", "review"},
         Planning(e, tasks, next),
         \A t \in tasks : /\ t \notin Merged(mine[e])
                          /\ next = "build" => t \in Builder
                          /\ next = "review" => t \in Reviewer
  PROVE  TypeOK' => IInv'
<1> SUFFICES ASSUME TypeOK' PROVE IInv'
  OBVIOUS
<1>1. /\ UNCHANGED <<stored, then, mine>>
      /\ \A f \in Call \ {e} : step'[f] = step[f] /\ wave'[f] = wave[f]
      /\ step'[e] = next
      /\ wave'[e] = [t \in Task |-> IF t \in tasks THEN "queued" ELSE "out"]
  BY DEF IInv, TypeOK, Planning, Goto
<1>2. WaveFits(e)'
  BY <1>1 DEF WaveFits, Merged
<1>3. InWave(e, "running")' = {}
  BY <1>1 DEF InWave
<1>4. BatchFits(e)'
  BY <1>3, LimitsTyped DEF BatchFits
<1> QED BY <1>1, <1>2, <1>4, WavePreserves

\* The scheduler's steps.
LEMMA SchedulePreserves ==
  ASSUME IInv, NEW e \in Call,
         \/ StartWave(e) \/ StartReview(e) \/ StartBatch(e) \/ WaveSucceeds(e)
         \/ \E t \in Task : TaskSucceeds(e, t) \/ TaskFails(e, t)
  PROVE  IInv'
<1>1. TypeOK'
  BY ScheduleTyped DEF IInv
<1>2. WaveFits(e) /\ BatchFits(e)
  BY DEF IInv, CallFits
<1>3. CASE StartWave(e)
  <2>1. PICK tasks \in Selections(Ready(mine[e]), MaxActive) : Planning(e, tasks, "build")
    BY <1>3 DEF StartWave
  <2>2. tasks \subseteq Ready(mine[e])
    BY <2>1 DEF Selections
  <2>3. tasks \in SUBSET Task /\ \A t \in tasks : t \notin Merged(mine[e]) /\ t \in Builder
    BY <2>2 DEF Ready, Unmerged, Task
  <2> QED BY <1>1, <2>1, <2>3, PlanningPreserves
<1>4. CASE StartReview(e)
  <2> DEFINE tasks == Unmerged(Reviewer, mine[e])
  <2>1. tasks \in SUBSET Task /\ \A t \in tasks : t \notin Merged(mine[e]) /\ t \in Reviewer
    BY DEF Unmerged, Task
  <2>2. Planning(e, tasks, "review")
    BY <1>4 DEF StartReview
  <2> HIDE DEF tasks
  <2> QED BY <1>1, <2>1, <2>2, PlanningPreserves
<1>5. CASE StartBatch(e)
  <2>1. PICK batch \in Selections(Startable(e), AtMost(MaxActive, MaxParallel)) :
          wave' = [wave EXCEPT ![e] =
                    [t \in Task |-> IF t \in batch THEN "running" ELSE wave[e][t]]]
    BY <1>5 DEF StartBatch
  <2>2. AtMost(MaxActive, MaxParallel) \in Nat
    BY LimitsTyped
  <2>3. Startable(e) \in SUBSET Task /\ Startable(e) \subseteq InWave(e, "queued")
    BY DEF Startable, InWave
  <2>4. /\ batch \subseteq Startable(e)
        /\ Cardinality(batch) <= AtMost(MaxActive, MaxParallel)
        /\ \A t, u \in batch : u \notin Conflicts[t]
    BY <2>2, <2>3, SelectionFits
  <2>5. /\ wave'[e] = [t \in Task |-> IF t \in batch THEN "running" ELSE wave[e][t]]
        /\ \A f \in Call \ {e} : wave'[f] = wave[f]
        /\ UNCHANGED <<stored, then, mine, step>>
    BY <1>5, <2>1 DEF StartBatch, IInv, TypeOK
  <2>6. InWave(e, "running")' = batch
    BY <1>5, <2>3, <2>4, <2>5 DEF StartBatch, InWave
  <2>7. \A t \in batch : wave[e][t] # "out"
    BY <2>3, <2>4 DEF InWave
  <2>8. WaveFits(e)'
    BY <1>2, <2>5, <2>7 DEF WaveFits
  <2>9. BatchFits(e)'
    BY <2>4, <2>6 DEF BatchFits
  <2>10. step[e] \in {"build", "review"}
    BY <1>5 DEF StartBatch, Scheduling
  <2> QED BY <1>1, <2>5, <2>8, <2>9, <2>10, WavePreserves
<1>6. CASE WaveSucceeds(e)
  <2>1. /\ UNCHANGED <<stored, then, mine, wave>>
        /\ step[e] = "build" /\ step'[e] = "merge"
        /\ \A f \in Call \ {e} : step'[f] = step[f]
    BY <1>6 DEF WaveSucceeds, Goto, IInv, TypeOK
  <2>2. WaveFits(e)' /\ BatchFits(e)'
    BY <1>2, <2>1 DEF WaveFits, BatchFits, InWave
  <2> QED BY <1>1, <2>1, <2>2, WavePreserves
<1>7. ASSUME NEW t \in Task, TaskSucceeds(e, t) \/ TaskFails(e, t) PROVE IInv'
  <2>1. PICK outcome \in {"succeeded", "failed"} : wave' = [wave EXCEPT ![e][t] = outcome]
    BY <1>7 DEF TaskSucceeds, TaskFails
  <2>2. /\ wave'[e] = [wave[e] EXCEPT ![t] = outcome]
        /\ \A f \in Call \ {e} : wave'[f] = wave[f]
        /\ UNCHANGED <<stored, then, mine, step>>
        /\ wave[e][t] = "running"
        /\ step[e] \in {"build", "review"}
    BY <1>7, <2>1 DEF TaskSucceeds, TaskFails, Scheduling, IInv, TypeOK
  <2>3. WaveFits(e)'
    BY <1>2, <2>2 DEF WaveFits, IInv, TypeOK
  <2>4. InWave(e, "running")' \subseteq InWave(e, "running")
    BY <2>2 DEF InWave, IInv, TypeOK
  <2>5. InWave(e, "running") \in SUBSET Task /\ InWave(e, "running")' \in SUBSET InWave(e, "running")
    BY <2>4 DEF InWave
  <2>6. /\ Cardinality(InWave(e, "running")') <= Cardinality(InWave(e, "running"))
        /\ Cardinality(InWave(e, "running")') \in Nat
        /\ Cardinality(InWave(e, "running")) \in Nat
    BY <2>5, TasksAreFinite, FS_Subset
  <2>7. AtMost(MaxActive, MaxParallel) \in Nat
    BY LimitsTyped
  <2>8. Cardinality(InWave(e, "running")') <= AtMost(MaxActive, MaxParallel)
    BY <1>2, <2>6, <2>7 DEF BatchFits
  <2>9. BatchFits(e)'
    BY <1>2, <2>4, <2>8 DEF BatchFits
  <2> QED BY <1>1, <2>2, <2>3, <2>9, WavePreserves
<1> QED BY <1>3, <1>4, <1>5, <1>6, <1>7

\* Every way to end a wave, or to end a run without one.
LEMMA EndsPreserve ==
  ASSUME IInv, NEW e \in Call,
         \/ StopAborted(e) \/ WaveFails(e) \/ RerunRequired(e) \/ ReviewBlocks(e)
         \/ MergeWave(e) \/ NothingToReview(e) \/ ReviewPasses(e) \/ MergeThrows(e)
  PROVE  IInv'
<1>1. InStep(mine[e])
  BY DEF IInv, CallFits
<1>2. CASE StopAborted(e) \/ WaveFails(e) \/ RerunRequired(e) \/ ReviewBlocks(e)
  <2>1. PICK run \in Run : SavesRun(e, run, "leave") /\ Keeps(e, run)
    BY <1>2, FailureSaves
  <2>2. InStep(run)
    BY <1>1, <2>1 DEF InStep, Keeps
  <2> QED BY <2>1, <2>2, SavePreserves
<1>3. CASE MergeWave(e)
  <2>1. PICK run \in Run : SavesRun(e, run, "top") /\ InStep(run)
    BY <1>3, MergeSaves
  <2> QED BY <2>1, SavePreserves
<1>4. CASE NothingToReview(e) \/ ReviewPasses(e)
  <2>1. PICK run \in Run : SavesRun(e, run, "leave") /\ InStep(run)
    BY <1>4, CompletionSaves
  <2> QED BY <2>1, SavePreserves
<1>5. CASE MergeThrows(e)
  <2>1. NoWave \in [Task -> Outcome]
    BY DEF NoWave, Outcome
  <2>2. /\ UNCHANGED <<stored, then, mine>>
        /\ step'[e] = "reload" /\ wave'[e] = NoWave
        /\ \A f \in Call \ {e} : step'[f] = step[f] /\ wave'[f] = wave[f]
    BY <1>5, <2>1 DEF MergeThrows, Goto, IInv, TypeOK
  <2>3. TypeOK'
    BY <1>5, <2>1 DEF MergeThrows, Goto, IInv, TypeOK, Steps
  <2>4. InStep(stored)' /\ InStep(mine[e])' /\ ~Unplanned(e)'
    BY <1>1, <2>2 DEF IInv, InStep, Merged, Unplanned
  <2>5. CallFits(e)'
    BY <2>2, <2>4, QuietFits
  <2> QED BY <2>2, <2>3, <2>4, <2>5, CallPreserves
<1> QED BY <1>2, <1>3, <1>4, <1>5

\* A cancel only reaches a signal; a crash leaves the stored run and idle calls.
LEMMA EnvironmentPreserves ==
  ASSUME IInv, Cancel \/ Crash
  PROVE  IInv'
<1>1. CASE Cancel
  <2>1. UNCHANGED <<stored, step, then, mine, wave>> /\ TypeOK'
    BY <1>1 DEF Cancel, IInv, TypeOK
  <2>2. InStep(stored)'
    BY <2>1 DEF IInv, InStep, Merged
  <2>3. \A f \in Call : CallFits(f)'
    BY <2>1, OthersFit
  <2> QED BY <2>1, <2>2, <2>3 DEF IInv
<1>2. CASE Crash
  <2>1. NoWave \in [Task -> Outcome]
    BY DEF NoWave, Outcome
  <2>2. TypeOK'
    BY <1>2, <2>1, NewRunTyped DEF Crash, IInv, TypeOK, Steps
  <2>3. InStep(stored)'
    BY <1>2 DEF Crash, IInv, InStep, Merged
  <2>4. ASSUME NEW f \in Call PROVE CallFits(f)'
    <3>1. mine'[f] = NoRun /\ wave'[f] = NoWave /\ step'[f] = "idle"
      BY <1>2 DEF Crash
    <3>2. InStep(mine[f])' /\ ~Unplanned(f)'
      BY <3>1, NewRunTyped DEF InStep, Merged, Unplanned, NoRun, NoProject
    <3> QED BY <3>1, <3>2, QuietFits
  <2> QED BY <2>2, <2>3, <2>4 DEF IInv
<1> QED BY <1>1, <1>2

\* Nothing is stored at first, and every call is idle.
LEMMA InitEstablishes == Init => IInv
<1> SUFFICES ASSUME Init PROVE IInv
  OBVIOUS
<1>1. TypeOK
  BY InitTyped
<1>2. InStep(NoRun) /\ Merged(NoRun) = {}
  BY NewRunTyped DEF InStep, NoRun, NoProject
<1>3. InStep(stored)
  BY <1>2 DEF Init
<1>4. ASSUME NEW e \in Call PROVE CallFits(e)
  <2>1. mine[e] = NoRun /\ wave[e] = NoWave
    BY DEF Init
  <2>2. InWave(e, "running") = {} /\ WaveFits(e)
    BY <2>1 DEF InWave, WaveFits, NoWave
  <2>3. BatchFits(e)
    BY <2>2, LimitsTyped DEF BatchFits
  <2> QED BY <1>2, <2>1, <2>2, <2>3 DEF CallFits
<1> QED BY <1>1, <1>3, <1>4 DEF IInv

\* Every step of every call, cancel and crash preserves it.
LEMMA NextPreserves == IInv /\ [Next]_vars => IInv'
<1> SUFFICES ASSUME IInv, [Next]_vars PROVE IInv'
  OBVIOUS
<1>1. ASSUME NEW e \in Call,
             \/ StartRun(e) \/ PlannerFails(e) \/ PlannerReturns(e)
             \/ StartResume(e) \/ ResumeReturns(e) \/ Resume(e)
      PROVE  IInv'
  BY <1>1, StartPreserves
<1>2. ASSUME NEW e \in Call, StoreStep(e) \/ Leave(e) PROVE IInv'
  BY <1>2, StorePreserves
<1>3. ASSUME NEW e \in Call, PlanStep(e) PROVE IInv'
  BY <1>3, SchedulePreserves, EndsPreserve DEF PlanStep
<1>4. CASE Cancel \/ Crash
  BY <1>4, EnvironmentPreserves
<1>5. CASE UNCHANGED vars
  <2>1. UNCHANGED <<stored, step, then, mine, wave>> /\ TypeOK'
    BY <1>5 DEF vars, IInv, TypeOK
  <2>2. InStep(stored)'
    BY <2>1 DEF IInv, InStep, Merged
  <2>3. \A f \in Call : CallFits(f)'
    BY <2>1, OthersFit
  <2> QED BY <2>1, <2>2, <2>3 DEF IInv
<1> QED BY <1>1, <1>2, <1>3, <1>4, <1>5 DEF Next

-----------------------------------------------------------------------------
(* What holds of any calls *)

\* The variables keep their types through every await of every call.
THEOREM TypeCorrect == Spec => []TypeOK
<1>1. IInv => TypeOK BY DEF IInv
<1> QED BY <1>1, InitEstablishes, NextPreserves, PTL DEF Spec

\* Whatever calls overlap, fail or are cut off, the stored project holds the
\* patches of exactly the builder tasks stored as merged (orchestrator 268-278).
THEOREM MergedStaysInProject == Spec => []MergedIsInProject
<1>1. IInv => MergedIsInProject BY DEF IInv, InStep, MergedIsInProject
<1> QED BY <1>1, InitEstablishes, NextPreserves, PTL DEF Spec

\* Of any tasks, one is the first in the order validateTaskGraph found.
LEMMA FirstTask ==
  ASSUME NEW tasks \in SUBSET Task, tasks # {}
  PROVE  \E t \in tasks : Dependencies[t] \cap tasks = {}
<1>1. PICK order \in [Task -> 1..Cardinality(Task)] :
        \A t \in Task : \A d \in Dependencies[t] : order[d] < order[t]
  BY PlanAssumption
<1>2. Cardinality(Task) \in Nat
  BY TasksAreFinite
<1>3. 1..Cardinality(Task) \subseteq Nat
  BY <1>2
<1> DEFINE Before(t) == {u \in tasks : order[u] < order[t]}
           all == {Before(t) : t \in tasks}
<1>4. all \subseteq FiniteSubsetsOf(tasks) /\ all # {}
  <2>1. \A t \in tasks : IsFiniteSet(Before(t)) BY TasksAreFinite, FS_Subset
  <2> QED BY <2>1 DEF FiniteSubsetsOf
<1>5. PICK S \in all : \A T \in all : <<T, S>> \notin StrictSubsetOrdering(tasks)
  <2> HIDE DEF all
  <2> QED BY <1>4, FS_StrictSubsetOrderingWellFounded, WFMin
<1>6. PICK t \in tasks : S = Before(t)
  OBVIOUS
<1>7. ASSUME NEW d \in Dependencies[t] \cap tasks PROVE FALSE
  <2>1. order[d] < order[t] /\ \A u \in tasks : order[u] \in Nat
    BY <1>1, <1>3
  <2>2. Before(d) \subseteq Before(t) /\ d \in Before(t) /\ d \notin Before(d)
    BY <2>1
  <2>3. <<Before(d), Before(t)>> \in StrictSubsetOrdering(tasks)
    BY <2>2 DEF StrictSubsetOrdering
  <2> QED BY <1>5, <1>6, <2>3
<1> QED BY <1>6, <1>7

\* The topological order of a valid plan keeps executePlan from finding builders
\* to do and none ready, after any waves, failures and resumes (233-240).
THEOREM PlansNeverBlock == Spec => []PlanNeverBlocks
<1>1. ASSUME NEW e \in Call, Unmerged(Builder, mine[e]) # {} PROVE Ready(mine[e]) # {}
  <2>1. PICK t \in Unmerged(Builder, mine[e]) :
          Dependencies[t] \cap Unmerged(Builder, mine[e]) = {}
    BY <1>1, FirstTask DEF Unmerged, Task
  <2>2. Dependencies[t] \subseteq Builder
    BY PlanAssumption DEF Unmerged
  <2>3. Dependencies[t] \subseteq Merged(mine[e])
    BY <2>1, <2>2 DEF Unmerged
  <2> QED BY <2>1, <2>3 DEF Ready
<1>2. PlanNeverBlocks
  BY <1>1 DEF PlanNeverBlocks
<1> QED BY <1>2, PTL

\* Only a batch starts subagents: no other step adds to what runs.
LEMMA OnlyBatchesStart ==
  ASSUME TypeOK, [Next]_vars
  PROVE  \/ \E e \in Call : StartBatch(e)
         \/ \A e \in Call : InWave(e, "running")' \subseteq InWave(e, "running")
<1> DEFINE Fewer == \A e \in Call : InWave(e, "running")' \subseteq InWave(e, "running")
<1>1. ASSUME wave' = wave PROVE Fewer
  BY <1>1 DEF InWave
<1>2. ASSUME NEW e \in Call, wave' = [wave EXCEPT ![e] = NoWave] PROVE Fewer
  BY <1>2 DEF TypeOK, InWave, NoWave
<1>3. ASSUME NEW e \in Call, NEW tasks, NEW next, Planning(e, tasks, next) PROVE Fewer
  BY <1>3 DEF TypeOK, Planning, InWave
<1>4. ASSUME NEW e \in Call, NEW t \in Task, NEW outcome \in {"succeeded", "failed"},
             wave' = [wave EXCEPT ![e][t] = outcome]
      PROVE  Fewer
  BY <1>4 DEF TypeOK, InWave
<1>5. ASSUME Crash PROVE Fewer
  BY <1>5 DEF Crash, InWave, NoWave
<1>6. ASSUME NEW e \in Call, PlanStep(e) PROVE StartBatch(e) \/ Fewer
  <2>1. CASE StartWave(e) \/ StartReview(e)
    BY <1>3, <2>1 DEF StartWave, StartReview
  <2>2. CASE \E t \in Task : TaskSucceeds(e, t) \/ TaskFails(e, t)
    BY <1>4, <2>2 DEF TaskSucceeds, TaskFails
  <2>3. CASE StopAborted(e) \/ NothingToReview(e) \/ WaveSucceeds(e)
    BY <1>1, <2>3 DEF StopAborted, NothingToReview, WaveSucceeds
  <2>4. CASE \/ WaveFails(e) \/ MergeWave(e) \/ RerunRequired(e) \/ MergeThrows(e)
             \/ ReviewPasses(e) \/ ReviewBlocks(e)
    BY <1>2, <2>4 DEF WaveFails, MergeWave, RerunRequired, MergeThrows, ReviewPasses, ReviewBlocks
  <2> QED BY <1>6, <2>1, <2>2, <2>3, <2>4 DEF PlanStep
<1>7. ASSUME NEW e \in Call,
             \/ StartRun(e) \/ PlannerFails(e) \/ PlannerReturns(e)
             \/ StartResume(e) \/ ResumeReturns(e) \/ Resume(e)
      PROVE  Fewer
  BY <1>1, <1>7 DEF StartRun, PlannerFails, PlannerReturns, StartResume, ResumeReturns, Resume,
                    ResumeAs
<1>8. ASSUME NEW e \in Call, StoreStep(e) \/ Leave(e) PROVE Fewer
  BY <1>1, <1>8 DEF StoreStep, Saved, SaveThrows, Reload, ReloadThrows, LastSave, Leave
<1>9. ASSUME Cancel \/ UNCHANGED vars PROVE Fewer
  BY <1>1, <1>9 DEF Cancel, vars
<1> HIDE DEF Fewer
<1>10. ASSUME NEW e \in Call,
              \/ StartRun(e) \/ PlannerFails(e) \/ PlannerReturns(e)
              \/ StartResume(e) \/ ResumeReturns(e) \/ Resume(e)
              \/ StoreStep(e)
              \/ PlanStep(e)
              \/ Leave(e)
       PROVE  StartBatch(e) \/ Fewer
  BY <1>6, <1>7, <1>8, <1>10
<1>11. (\E e \in Call : StartBatch(e)) \/ Fewer
  BY <1>5, <1>9, <1>10 DEF Next
<1> QED BY <1>11 DEF Fewer

\* After a cancel was accepted for a call, it starts no subagent: the signal is
\* looked at before every wave and every batch (orchestrator 232, scheduler 135).
THEOREM CancelsStartNothing == Spec => CancelStartsNothing
<1> DEFINE Starts == \A e \in Call : aborted[e] =>
                       InWave(e, "running")' \subseteq InWave(e, "running")
<1>1. ASSUME TypeOK, NEW d \in Call, StartBatch(d) PROVE Starts
  <2>1. ~aborted[d] /\ \A e \in Call \ {d} : wave'[e] = wave[e]
    BY <1>1 DEF StartBatch, TypeOK
  <2> QED BY <2>1 DEF InWave
<1>2. TypeOK /\ [Next]_vars => Starts
  BY <1>1, OnlyBatchesStart
<1>3. TypeOK /\ [Next]_vars => [Starts]_vars
  BY <1>2
<1> QED BY <1>3, TypeCorrect, PTL DEF Spec, CancelStartsNothing

-----------------------------------------------------------------------------
(* When resumes read the store alone, one call at a time executes the run *)

\* Registering one call and forgetting another is not undone in the middle.
LEMMA RegistrationStep ==
  ASSUME TypeOK, CancelReachesRun, ResumeReadsAlone, [Next]_vars
  PROVE  CancelReachesRun'
<1> USE DEF CancelReachesRun, Executing
<1>1. ASSUME NEW e \in Call, StartRun(e) PROVE CancelReachesRun'
  <2>1. \A f \in Call : ~Executing(f)
    BY <1>1, PlanAssumption DEF StartRun
  <2>2. controller' = e /\ \A f \in Call \ {e} : step'[f] = step[f]
    BY <1>1 DEF StartRun, Register, Goto, TypeOK
  <2> QED BY <2>1, <2>2
<1>2. ASSUME NEW e \in Call, Resume(e) PROVE CancelReachesRun'
  <2>1. \A f \in Call \ {e} : step[f] = "idle"
    BY <1>2 DEF Resume, ResumeAs, ResumeReadsAlone
  <2>2. controller' = e /\ \A f \in Call \ {e} : step'[f] = step[f]
    BY <1>2 DEF Resume, ResumeAs, Register, Goto, TypeOK
  <2> QED BY <2>1, <2>2
<1>3. ASSUME NEW e \in Call, StartResume(e) \/ ResumeReturns(e) PROVE CancelReachesRun'
  BY <1>3 DEF StartResume, ResumeReturns, Goto, TypeOK
<1>4. ASSUME NEW e \in Call, PlannerFails(e) \/ PlannerReturns(e) PROVE CancelReachesRun'
  BY <1>4 DEF PlannerFails, PlannerReturns, Save, Goto, TypeOK
<1>5. ASSUME NEW e \in Call, Leave(e) PROVE CancelReachesRun'
  <2>1. \A f \in Call \ {e} : ~Executing(f)
    BY <1>5 DEF Leave
  <2>2. step'[e] = "idle" /\ \A f \in Call \ {e} : step'[f] = step[f]
    BY <1>5 DEF Leave, Goto, TypeOK
  <2> QED BY <2>1, <2>2
<1>6. ASSUME NEW e \in Call, Executing(e), controller' = controller,
             \A f \in Call \ {e} : step'[f] = step[f]
      PROVE  CancelReachesRun'
  BY <1>6
<1>7. ASSUME NEW e \in Call, StoreStep(e) PROVE CancelReachesRun'
  <2>1. Executing(e) /\ controller' = controller
    BY <1>7 DEF StoreStep, Saved, SaveThrows, Reload, ReloadThrows, LastSave
  <2>2. \A f \in Call \ {e} : step'[f] = step[f]
    BY <1>7 DEF StoreStep, Saved, SaveThrows, Reload, ReloadThrows, LastSave, Goto, TypeOK
  <2> QED BY <1>6, <2>1, <2>2
<1>8. ASSUME NEW e \in Call, PlanStep(e) PROVE CancelReachesRun'
  <2>1. CASE \/ StartWave(e) \/ StopAborted(e) \/ StartReview(e) \/ NothingToReview(e)
             \/ StartBatch(e) \/ WaveFails(e) \/ WaveSucceeds(e)
    <3>1. Executing(e) /\ controller' = controller
      BY <2>1 DEF StartWave, StopAborted, StartReview, NothingToReview, StartBatch, WaveFails,
                  WaveSucceeds, Planning, Settled, Scheduling
    <3>2. \A f \in Call \ {e} : step'[f] = step[f]
      BY <2>1 DEF StartWave, StopAborted, StartReview, NothingToReview, StartBatch, WaveFails,
                  WaveSucceeds, Planning, FailRun, Complete, Save, Goto, TypeOK
    <3> QED BY <1>6, <3>1, <3>2
  <2>2. CASE \E t \in Task : TaskSucceeds(e, t) \/ TaskFails(e, t)
    BY <2>2 DEF TaskSucceeds, TaskFails
  <2>3. CASE \/ MergeWave(e) \/ RerunRequired(e) \/ MergeThrows(e)
             \/ ReviewPasses(e) \/ ReviewBlocks(e)
    <3>1. Executing(e) /\ controller' = controller
      BY <2>3 DEF MergeWave, RerunRequired, MergeThrows, ReviewPasses, ReviewBlocks, Settled,
                  Scheduling
    <3>2. \A f \in Call \ {e} : step'[f] = step[f]
      BY <2>3 DEF MergeWave, RerunRequired, MergeThrows, ReviewPasses, ReviewBlocks, Complete,
                  Save, Goto, TypeOK
    <3> QED BY <1>6, <3>1, <3>2
  <2> QED BY <1>8, <2>1, <2>2, <2>3 DEF PlanStep
<1>9. ASSUME Cancel \/ Crash \/ UNCHANGED vars PROVE CancelReachesRun'
  BY <1>9 DEF Cancel, Crash, vars
<1> QED
  BY <1>1, <1>2, <1>3, <1>4, <1>5, <1>7, <1>8, <1>9 DEF Next

\* The finding of the resume race is the only one of its kind: as long as a
\* resume that awaits the store is the run's only call, the registered controller
\* is that of the call that executes the run (orchestrator 175-188).
THEOREM OnlyResumesRace == Spec /\ []ResumeReadsAlone => []CancelReachesRun
<1>1. Init => CancelReachesRun
  BY DEF Init, CancelReachesRun, Executing
<1>2. TypeOK /\ CancelReachesRun /\ ResumeReadsAlone /\ [Next]_vars => CancelReachesRun'
  BY RegistrationStep
<1> QED BY <1>1, <1>2, TypeCorrect, PTL DEF Spec

-----------------------------------------------------------------------------
(* The second invariant is inductive while one call executes the run *)

\* No other call executes the run.
LEMMA ExecutesAlone ==
  ASSUME CancelReachesRun, NEW e \in Call, NEW f \in Call \ {e}, Executing(e)
  PROVE  step[f] \in {"idle", "get"}
BY DEF CancelReachesRun, Executing

\* A call that does not execute the run owes it nothing.
LEMMA BystanderKnows ==
  ASSUME NEW f \in Call, step'[f] \in {"idle", "get"}
  PROVE  Knows(f)' /\ ReviewFits(f)'
BY DEF Knows, ReviewFits

\* A step of one call preserves the invariant if that call still knows the run,
\* and either it executes the run or the run's state is left alone.
LEMMA StepKeepsRun ==
  ASSUME RunInv, CancelReachesRun, IInv', NEW e \in Call,
         Reviewed(stored)', Knows(e)', ReviewFits(e)',
         \A f \in Call \ {e} : /\ step'[f] = step[f] /\ then'[f] = then[f]
                               /\ mine'[f] = mine[f] /\ wave'[f] = wave[f],
         Executing(e) \/ UNCHANGED <<stored, judged>>
  PROVE  RunInv'
<1>1. ASSUME NEW f \in Call \ {e} PROVE Knows(f)' /\ ReviewFits(f)'
  <2>1. CASE Executing(e)
    BY <2>1, ExecutesAlone, BystanderKnows
  <2>2. CASE UNCHANGED <<stored, judged>>
    <3>1. Knows(f) /\ ReviewFits(f)
      BY DEF RunInv
    <3>2. Knows(f)'
      BY <2>2, <3>1 DEF Knows, Extends, Reviewed, Merged
    <3>3. ReviewFits(f)'
      BY <2>2, <3>1 DEF ReviewFits, Merged
    <3> QED BY <3>2, <3>3
  <2> QED BY <2>1, <2>2
<1> QED BY <1>1 DEF RunInv

\* What is said of a run depends on its tasks, its project and the verdicts.
LEMMA ReviewedAgain ==
  ASSUME NEW run \in Run, NEW new \in Run, Reviewed(run),
         Merged(new) = Merged(run), new.project = run.project, new.status # "completed"
  PROVE  Reviewed(new)
<1>1. \A r \in Reviewer : new.tasks[r] = "merged" <=> r \in Merged(new)
  BY DEF Merged, Task
<1>2. \A r \in Reviewer : run.tasks[r] = "merged" <=> r \in Merged(run)
  BY DEF Merged, Task
<1> QED BY <1>1, <1>2 DEF Reviewed

\* A run none of whose reviewers is merged and that is not completed.
LEMMA UnreviewedFits ==
  ASSUME NEW run, run.status # "completed", Merged(run) \cap Reviewer = {}
  PROVE  Reviewed(run)
BY DEF Reviewed, Merged, Task

\* While a wave is under way no reviewer counts as merged: all of them are, or none.
LEMMA WaveUnreviewed ==
  ASSUME RunInv, NEW e \in Call, step[e] \in {"build", "review", "merge"}
  PROVE  Merged(mine[e]) \cap Reviewer = {}
<1>1. PICK t \in Task : wave[e][t] # "out"
  BY DEF RunInv, ReviewFits
<1>2. t \notin Merged(mine[e])
  BY <1>1 DEF RunInv, IInv, CallFits, WaveFits, Merged
<1>3. Reviewed(mine[e])
  BY DEF RunInv, Knows
<1> QED BY <1>2, <1>3 DEF Reviewed, Merged

\* A save of what extends the call's copy, when the verdicts are such that what is
\* stored and what is saved are reviewed.
LEMMA ReviewedSaveKeepsRun ==
  ASSUME RunInv, CancelReachesRun, IInv', NEW e \in Call,
         step[e] \in {"planner", "top", "build", "review", "merge"},
         NEW run \in Run, NEW next \in {"top", "leave"}, SavesRun(e, run, next),
         run.status # "none", next = "top" => run.status = "building",
         mine[e].project.work \subseteq run.project.work,
         Reviewed(stored)', Reviewed(mine[e])'
  PROVE  RunInv'
<1>1. /\ mine'[e] = run /\ then'[e] = next /\ step'[e] = "save"
      /\ \A f \in Call \ {e} :
           mine'[f] = mine[f] /\ then'[f] = then[f] /\ step'[f] = step[f]
  BY SaveTyped DEF RunInv, IInv, SavesRun
<1>2. /\ UNCHANGED stored
      /\ \A f \in Call \ {e} : wave'[f] = wave[f]
  BY DEF RunInv, IInv, TypeOK, SavesRun
<1>3. stored = mine[e] /\ stored.status \in {"planning", "building"}
  BY DEF RunInv, Knows
<1>4. Extends(stored, run)
  BY <1>3 DEF Extends
<1>5. Extends(stored, mine[e])'
  BY <1>1, <1>2, <1>4 DEF Extends
<1>6. Knows(e)'
  BY <1>1, <1>2, <1>3, <1>5 DEF Knows
<1>7. ReviewFits(e)'
  BY <1>1 DEF ReviewFits
<1>8. Executing(e)
  BY DEF Executing
<1> QED BY <1>1, <1>2, <1>6, <1>7, <1>8, StepKeepsRun

\* A save with the verdicts as they were.
LEMMA SaveKeepsRun ==
  ASSUME RunInv, CancelReachesRun, IInv', NEW e \in Call,
         step[e] \in {"planner", "top", "build", "review", "merge"},
         NEW run \in Run, NEW next \in {"top", "leave"}, SavesRun(e, run, next),
         UNCHANGED judged,
         run.status # "none", next = "top" => run.status = "building",
         mine[e].project.work \subseteq run.project.work,
         Reviewed(run)
  PROVE  RunInv'
<1>1. mine'[e] = run
  BY SaveTyped DEF RunInv, IInv, SavesRun
<1>2. Reviewed(stored)'
  BY DEF RunInv, Reviewed, Merged, SavesRun
<1>3. Reviewed(mine[e])'
  BY <1>1 DEF Reviewed, Merged
<1> QED BY <1>2, <1>3, ReviewedSaveKeepsRun

\* The plan's steps that end a wave or the run with a save.
LEMMA SavesKeepRun ==
  ASSUME RunInv, CancelReachesRun, IInv', NEW e \in Call,
         \/ StopAborted(e) \/ WaveFails(e) \/ RerunRequired(e) \/ ReviewBlocks(e)
         \/ MergeWave(e) \/ NothingToReview(e) \/ ReviewPasses(e)
  PROVE  RunInv'
<1>1. step[e] \in {"top", "build", "review", "merge"}
  BY DEF StopAborted, WaveFails, RerunRequired, ReviewBlocks, MergeWave, NothingToReview,
         ReviewPasses, Settled, Scheduling
<1>2. /\ mine[e] \in Run /\ stored = mine[e] /\ mine[e].status = "building"
      /\ Reviewed(mine[e]) /\ IInv
  BY <1>1 DEF RunInv, IInv, TypeOK, Knows
<1>3. CASE StopAborted(e) \/ WaveFails(e) \/ RerunRequired(e) \/ ReviewBlocks(e)
  <2>1. PICK run \in Run : /\ SavesRun(e, run, "leave") /\ UNCHANGED judged
                           /\ Keeps(e, run)
                           /\ run.status \in {"failed", "cancelled"}
    BY <1>2, <1>3, FailureSaves
  <2>2. Reviewed(run)
    BY <1>2, <2>1, ReviewedAgain DEF Keeps
  <2> QED BY <1>1, <2>1, <2>2, SaveKeepsRun DEF Keeps
<1>4. CASE MergeWave(e)
  <2>1. PICK run \in Run : /\ SavesRun(e, run, "top") /\ UNCHANGED judged
                           /\ run.status = mine[e].status
                           /\ mine[e].project.work \subseteq run.project.work
                           /\ Merged(run) \cap Reviewer = Merged(mine[e]) \cap Reviewer
    BY <1>2, <1>4, MergeSaves
  <2>2. Merged(mine[e]) \cap Reviewer = {}
    BY <1>4, WaveUnreviewed DEF MergeWave
  <2>3. Reviewed(run)
    BY <1>2, <2>1, <2>2, UnreviewedFits
  <2> QED BY <1>1, <1>2, <2>1, <2>3, SaveKeepsRun
<1>5. CASE NothingToReview(e) \/ ReviewPasses(e)
  <2>1. PICK run \in Run : /\ SavesRun(e, run, "leave")
                           /\ run.status = "completed"
                           /\ run.project = mine[e].project
                           /\ Merged(run) = Merged(mine[e]) \cup InWave(e, "succeeded")
                           /\ judged' = Verdicts(e)
    BY <1>2, <1>5, CompletionSaves
  <2>2. mine'[e] = run /\ stored' = stored
    BY <1>2, <2>1, SaveTyped DEF IInv, SavesRun
  <2>3. Merged(run) = Task /\ \A r \in Reviewer : judged'[r] = mine[e].project
    <3>1. CASE NothingToReview(e)
      <4>1. Merged(mine[e]) = Task
        BY <3>1 DEF NothingToReview, Unmerged, Merged
      <4>2. \A r \in Reviewer : judged[r] = mine[e].project
        BY <1>2, <4>1 DEF Reviewed, Merged, Task
      <4> QED BY <2>1, <4>1, <4>2 DEF Verdicts, Merged, InWave
    <3>2. CASE ReviewPasses(e)
      <4>1. /\ step[e] = "review"
            /\ InWave(e, "running") = {} /\ InWave(e, "failed") = {} /\ InWave(e, "queued") = {}
        BY <3>2 DEF ReviewPasses, Settled, Failures
      <4>2. /\ Builder \subseteq Merged(mine[e])
            /\ \A r \in Reviewer : wave[e][r] # "out"
        BY <4>1 DEF RunInv, ReviewFits
      <4>3. \A r \in Reviewer : r \in Task /\ wave[e][r] \in Outcome
        BY <1>2 DEF IInv, TypeOK, Task
      <4>4. \A r \in Reviewer : wave[e][r] = "succeeded"
        BY <4>1, <4>2, <4>3 DEF InWave, Outcome
      <4>5. Reviewer \subseteq InWave(e, "succeeded") /\ InWave(e, "succeeded") \subseteq Task
        BY <4>4 DEF InWave, Task
      <4>6. Merged(mine[e]) \subseteq Task
        BY DEF Merged
      <4> QED BY <2>1, <4>2, <4>5, <4>6 DEF Verdicts, Task
    <3> QED BY <1>5, <3>1, <3>2
  <2>4. Reviewed(mine[e])'
    BY <2>1, <2>2, <2>3 DEF Reviewed, Merged
  <2>5. Reviewed(stored)'
    <3>1. CASE NothingToReview(e)
      BY <1>2, <2>1, <2>2, <2>3 DEF Reviewed, Merged
    <3>2. CASE ReviewPasses(e)
      <4>1. Merged(mine[e]) \cap Reviewer = {}
        BY <3>2, WaveUnreviewed DEF ReviewPasses
      <4> QED BY <1>2, <2>2, <4>1 DEF Reviewed, Merged, Task
    <3> QED BY <1>5, <3>1, <3>2
  <2> QED BY <1>1, <2>1, <2>4, <2>5, ReviewedSaveKeepsRun
<1> QED BY <1>3, <1>4, <1>5

\* The steps up to the plan: a run begins anew only where no plan is stored, and
\* is resumed with everything that was merged.
LEMMA StartKeepsRun ==
  ASSUME RunInv, CancelReachesRun, IInv', NEW e \in Call,
         \/ StartRun(e) \/ PlannerFails(e) \/ PlannerReturns(e)
         \/ StartResume(e) \/ ResumeReturns(e) \/ Resume(e)
  PROVE  RunInv'
<1>1. /\ IInv /\ TypeOK /\ stored \in Run /\ mine[e] \in Run
      /\ InStep(stored) /\ Reviewed(stored) /\ Knows(e)
  BY DEF RunInv, IInv, TypeOK
<1>2. CASE StartRun(e)
  <2>1. /\ mine'[e] = [NoRun EXCEPT !.status = "planning", !.project.revision = 1]
        /\ step'[e] = "firstSave" /\ then'[e] = "planner"
        /\ UNCHANGED <<stored, wave, judged>>
        /\ \A f \in Call \ {e} : step'[f] = step[f] /\ then'[f] = then[f] /\ mine'[f] = mine[f]
    BY <1>1, <1>2 DEF TypeOK, StartRun, Register, Goto
  <2>2. Merged(stored) = {}
    BY <1>2 DEF StartRun, Merged, NoRun
  <2>3. stored.project.work = {} /\ stored.status # "completed"
    BY <1>1, <2>2, PlanAssumption DEF InStep, Reviewed
  <2>4. /\ mine'[e].status = "planning" /\ mine'[e].project.work = {}
        /\ Merged(mine'[e]) = {}
    BY <2>1, NewRunTyped
  <2>5. Reviewed(mine[e])'
    BY <2>4 DEF Reviewed, Merged, Task
  <2>6. Extends(stored, mine[e])'
    BY <2>1, <2>3 DEF Extends
  <2>7. Knows(e)' /\ ReviewFits(e)'
    BY <2>1, <2>4, <2>5, <2>6 DEF Knows, ReviewFits
  <2>8. Reviewed(stored)'
    BY <1>1, <2>1 DEF Reviewed, Merged
  <2> QED BY <2>1, <2>7, <2>8, StepKeepsRun
<1>3. CASE PlannerFails(e) \/ StartResume(e) \/ ResumeReturns(e)
  <2>1. /\ UNCHANGED <<stored, then, mine, wave, judged>>
        /\ \A f \in Call \ {e} : step'[f] = step[f]
        /\ \/ step'[e] \in {"get", "idle"}
           \/ step[e] = "planner" /\ step'[e] = "reload"
    BY <1>1, <1>3 DEF TypeOK, PlannerFails, StartResume, ResumeReturns, Goto
  <2>2. Knows(e)' /\ ReviewFits(e)'
    BY <1>1, <2>1 DEF Knows, ReviewFits
  <2>3. Reviewed(stored)'
    BY <1>1, <2>1 DEF Reviewed, Merged
  <2> QED BY <2>1, <2>2, <2>3, StepKeepsRun
<1>4. CASE PlannerReturns(e)
  <2> DEFINE marked == Mark(mine[e], Task, "queued")
             run == [marked EXCEPT !.status = "building"]
  <2>1. step[e] = "planner" /\ wave' = wave
    BY <1>4 DEF PlannerReturns
  <2>2. marked \in Run /\ marked.project = mine[e].project /\ Merged(marked) = {}
    <3>1. Merged(mine[e]) \ Task = {}
      BY DEF Merged
    <3> QED BY <1>1, <3>1, MarkTyped, MarkMerges DEF TaskStatus
  <2>3. /\ run \in Run /\ run.project = mine[e].project /\ Merged(run) = {}
        /\ run.status = "building"
    BY <2>2, StatusTyped DEF RunStatus
  <2>4. SavesRun(e, run, "top") /\ UNCHANGED judged
    BY <1>1, <1>4, <2>1, QuietWave DEF PlannerReturns, SavesRun, TypeOK
  <2> HIDE DEF run
  <2>5. Reviewed(run)
    BY <2>3, UnreviewedFits
  <2> QED BY <2>1, <2>3, <2>4, <2>5, SaveKeepsRun
<1>5. CASE Resume(e)
  <2> DEFINE marked == Mark(stored, Task \ Merged(stored), "queued")
             run == [marked EXCEPT !.status = "building"]
  <2>1. marked \in Run /\ marked.project = stored.project /\ Merged(marked) = Merged(stored)
    BY <1>1, MarkTyped, MarkMerges DEF TaskStatus, Merged
  <2>2. /\ run \in Run /\ run.project = stored.project /\ Merged(run) = Merged(stored)
        /\ run.status = "building"
    BY <2>1, StatusTyped DEF RunStatus
  <2>3. /\ mine'[e] = run /\ then'[e] = "top" /\ step'[e] = "firstSave"
        /\ UNCHANGED <<stored, wave, judged>>
        /\ stored.status # "completed"
        /\ \A f \in Call \ {e} : step'[f] = step[f] /\ then'[f] = then[f] /\ mine'[f] = mine[f]
    BY <1>1, <1>5 DEF TypeOK, Resume, ResumeAs, Resumable, Register, Goto
  <2> HIDE DEF run
  <2>4. Reviewed(run)
    BY <1>1, <2>2, ReviewedAgain
  <2>5. Reviewed(mine[e])' /\ Reviewed(stored)'
    BY <1>1, <2>3, <2>4 DEF Reviewed, Merged
  <2>6. Extends(stored, mine[e])'
    BY <2>2, <2>3 DEF Extends
  <2>7. Knows(e)' /\ ReviewFits(e)'
    BY <2>2, <2>3, <2>5, <2>6 DEF Knows, ReviewFits
  <2> QED BY <2>3, <2>5, <2>7, StepKeepsRun
<1> QED BY <1>2, <1>3, <1>4, <1>5

\* What a save stores extends what was stored; what it does not store is read
\* again by the catch block before the failure is recorded.
LEMMA StoreKeepsRun ==
  ASSUME RunInv, CancelReachesRun, IInv', NEW e \in Call, StoreStep(e) \/ Leave(e)
  PROVE  RunInv'
<1>1. /\ IInv /\ TypeOK /\ stored \in Run /\ mine[e] \in Run /\ Reviewed(stored) /\ Knows(e)
  BY DEF RunInv, IInv, TypeOK
<1>2. step[e] \in {"firstSave", "save", "reload", "lastSave", "leave"}
  BY DEF StoreStep, Saved, SaveThrows, Reload, ReloadThrows, LastSave, Leave
<1>3. Executing(e)
  BY <1>2 DEF Executing
<1>4. CASE Saved(e)
  <2>1. /\ stored' = mine[e] /\ step'[e] = then[e]
        /\ UNCHANGED <<then, mine, wave, judged>>
        /\ step[e] \in {"firstSave", "save"}
        /\ then[e] \in {"planner", "top", "leave"}
        /\ \A f \in Call \ {e} : step'[f] = step[f]
    BY <1>1, <1>4 DEF TypeOK, Saved, Goto
  <2>2. Reviewed(stored)'
    BY <1>1, <2>1 DEF Knows, Reviewed, Merged
  <2>3. Knows(e)' /\ ReviewFits(e)'
    BY <1>1, <2>1 DEF Knows, ReviewFits
  <2> QED BY <1>3, <2>1, <2>2, <2>3, StepKeepsRun
<1>5. CASE SaveThrows(e) \/ LastSave(e)
  <2>1. /\ stored' \in {stored, mine[e]}
        /\ UNCHANGED <<then, mine, wave, judged>>
        /\ \A f \in Call \ {e} : step'[f] = step[f]
        /\ step[e] \in {"firstSave", "save", "lastSave"}
        /\ \/ step[e] = "firstSave" /\ step'[e] = "idle"
           \/ step[e] \in {"save", "lastSave"} /\ step'[e] \in {"reload", "leave"}
    BY <1>1, <1>5 DEF TypeOK, SaveThrows, LastSave, Goto
  <2>2. Reviewed(stored)'
    BY <1>1, <2>1 DEF Knows, Reviewed, Merged
  <2>3. Knows(e)' /\ ReviewFits(e)'
    BY <1>1, <2>1 DEF Knows, ReviewFits
  <2> QED BY <1>3, <2>1, <2>2, <2>3, StepKeepsRun
<1>6. CASE ReloadThrows(e) \/ Leave(e)
  <2>1. /\ UNCHANGED <<stored, then, mine, wave, judged>>
        /\ \A f \in Call \ {e} : step'[f] = step[f]
        /\ step[e] \in {"reload", "leave"} /\ step'[e] \in {"leave", "idle"}
    BY <1>1, <1>6 DEF TypeOK, ReloadThrows, Leave, Goto
  <2>2. Reviewed(stored)'
    BY <1>1, <2>1 DEF Reviewed, Merged
  <2>3. Knows(e)' /\ ReviewFits(e)'
    BY <1>1, <2>1 DEF Knows, ReviewFits
  <2> QED BY <1>3, <2>1, <2>2, <2>3, StepKeepsRun
<1>7. CASE Reload(e)
  <2> DEFINE run == [stored EXCEPT !.status = IF aborted[e] THEN "cancelled" ELSE "failed"]
  <2>1. stored.status # "none"
    BY <1>1, <1>7 DEF Reload, Knows
  <2>2. /\ mine' = [mine EXCEPT ![e] = run]
        /\ UNCHANGED <<stored, then, wave, judged>>
        /\ step' = [step EXCEPT ![e] = "lastSave"]
    BY <1>7, <2>1 DEF Reload, Goto
  <2>3. /\ run \in Run /\ run.status \in {"cancelled", "failed"}
        /\ run.tasks = stored.tasks /\ run.project = stored.project
        /\ Merged(run) = Merged(stored)
    BY <1>1, FailTyped
  <2> HIDE DEF run
  <2>4. /\ mine'[e] = run /\ step'[e] = "lastSave"
        /\ \A f \in Call \ {e} : mine'[f] = mine[f] /\ step'[f] = step[f]
    BY <1>1, <2>2 DEF TypeOK
  <2>5. Reviewed(run)
    BY <1>1, <2>3, ReviewedAgain
  <2>6. Reviewed(mine[e])' /\ Reviewed(stored)'
    BY <1>1, <2>2, <2>4, <2>5 DEF Reviewed, Merged
  <2>7. Extends(stored, mine[e])'
    BY <2>2, <2>3, <2>4 DEF Extends
  <2>8. Knows(e)' /\ ReviewFits(e)'
    BY <2>1, <2>2, <2>3, <2>4, <2>6, <2>7 DEF Knows, ReviewFits
  <2> QED BY <1>3, <2>2, <2>4, <2>6, <2>8, StepKeepsRun
<1> QED BY <1>4, <1>5, <1>6, <1>7 DEF StoreStep

\* A step of the scheduler leaves the stored run and the call's copy alone, so
\* only the wave and the verdicts have to be looked at.
LEMMA WaveKeepsRun ==
  ASSUME RunInv, CancelReachesRun, IInv', NEW e \in Call,
         step[e] \in {"top", "build", "review", "merge"},
         UNCHANGED <<stored, then, mine>>,
         \A f \in Call \ {e} : step'[f] = step[f] /\ wave'[f] = wave[f],
         step'[e] \in {"build", "review", "merge"},
         \A r \in Reviewer : mine[e].tasks[r] # "merged",
         ReviewFits(e)'
  PROVE  RunInv'
<1>1. Executing(e) /\ Knows(e)
  BY DEF Executing, RunInv
<1>2. stored = mine[e] /\ mine[e].status = "building"
  BY <1>1 DEF Knows
<1>3. Reviewed(stored)'
  BY <1>2 DEF Reviewed
<1>4. Knows(e)'
  BY <1>2 DEF Knows
<1> QED BY <1>1, <1>3, <1>4, StepKeepsRun

\* The scheduler's steps: a review is planned of every reviewer.
LEMMA ScheduleKeepsRun ==
  ASSUME RunInv, CancelReachesRun, IInv', NEW e \in Call,
         \/ StartWave(e) \/ StartReview(e) \/ StartBatch(e) \/ WaveSucceeds(e)
         \/ \E t \in Task : TaskSucceeds(e, t) \/ TaskFails(e, t)
  PROVE  RunInv'
<1> DEFINE Unjudged == \A r \in Reviewer : mine[e].tasks[r] # "merged"
<1>1. TypeOK /\ Knows(e) /\ ReviewFits(e) /\ WaveFits(e)
  BY DEF RunInv, IInv, CallFits
<1>2. ASSUME step[e] = "top", Unmerged(Task, mine[e]) # {} PROVE Unjudged
  <2>1. Reviewed(mine[e])
    BY <1>1, <1>2 DEF RunInv, Knows
  <2> QED BY <1>2, <2>1 DEF Reviewed, Unmerged, Merged
<1>3. ASSUME step[e] \in {"build", "review", "merge"} PROVE Unjudged
  BY <1>3, WaveUnreviewed DEF Merged, Task
<1>4. CASE StartWave(e)
  <2>1. PICK tasks \in SUBSET Task : tasks # {} /\ Planning(e, tasks, "build")
    BY <1>4 DEF StartWave, Selections, Ready, Unmerged, Task
  <2>2. step[e] = "top" /\ Unmerged(Task, mine[e]) # {}
    BY <1>4 DEF StartWave, Unmerged, Task
  <2>3. /\ wave'[e] = [t \in Task |-> IF t \in tasks THEN "queued" ELSE "out"]
        /\ step'[e] = "build"
        /\ UNCHANGED <<stored, then, mine>>
        /\ \A f \in Call \ {e} : step'[f] = step[f] /\ wave'[f] = wave[f]
    BY <1>1, <2>1 DEF Planning, Goto, TypeOK
  <2>4. ReviewFits(e)'
    BY <2>1, <2>3 DEF ReviewFits
  <2> QED BY <1>2, <2>2, <2>3, <2>4, WaveKeepsRun
<1>5. CASE StartReview(e)
  <2> DEFINE tasks == Unmerged(Reviewer, mine[e])
  <2>1. /\ step[e] = "top" /\ tasks # {} /\ Unmerged(Builder, mine[e]) = {}
        /\ Unmerged(Task, mine[e]) # {}
        /\ Planning(e, tasks, "review")
    BY <1>5 DEF StartReview, Unmerged, Task
  <2>2. Unjudged /\ Builder \subseteq Merged(mine[e])
    BY <1>2, <2>1 DEF Unmerged
  <2>3. \A r \in Reviewer : r \in tasks
    BY <2>2 DEF Unmerged, Merged
  <2>4. tasks \subseteq Task
    BY DEF Unmerged, Task
  <2>5. /\ wave'[e] = [t \in Task |-> IF t \in tasks THEN "queued" ELSE "out"]
        /\ step'[e] = "review"
        /\ UNCHANGED <<stored, then, mine>>
        /\ \A f \in Call \ {e} : step'[f] = step[f] /\ wave'[f] = wave[f]
    BY <1>1, <2>1 DEF Planning, Goto, TypeOK
  <2> HIDE DEF tasks
  <2>6. \A r \in Reviewer : wave'[e][r] = "queued"
    BY <2>3, <2>4, <2>5
  <2>7. \E t \in Task : wave'[e][t] # "out"
    BY <2>1, <2>4, <2>5
  <2>8. ReviewFits(e)'
    BY <2>2, <2>5, <2>6, <2>7 DEF ReviewFits, Merged
  <2> QED BY <2>1, <2>2, <2>5, <2>8, WaveKeepsRun
<1>6. CASE StartBatch(e)
  <2>1. PICK batch \in SUBSET InWave(e, "queued") :
          wave' = [wave EXCEPT ![e] = [t \in Task |-> IF t \in batch THEN "running" ELSE wave[e][t]]]
    BY <1>6 DEF StartBatch, Selections, Startable
  <2>2. /\ step[e] \in {"build", "review"} /\ step' = step
        /\ UNCHANGED <<stored, then, mine, judged>>
        /\ \A f \in Call \ {e} : wave'[f] = wave[f]
        /\ wave'[e] = [t \in Task |-> IF t \in batch THEN "running" ELSE wave[e][t]]
    BY <1>1, <1>6, <2>1 DEF StartBatch, Scheduling, TypeOK
  <2>3. \A t \in Task : /\ wave'[e][t] = "out" <=> wave[e][t] = "out"
                        /\ wave'[e][t] = "succeeded" => wave[e][t] = "succeeded"
    BY <2>1, <2>2 DEF InWave
  <2>4. ReviewFits(e)'
    BY <1>1, <2>2, <2>3 DEF ReviewFits, Merged, Task
  <2> QED BY <1>3, <2>2, <2>4, WaveKeepsRun
<1>7. CASE WaveSucceeds(e)
  <2>1. /\ step[e] = "build" /\ step'[e] = "merge"
        /\ \A f \in Call \ {e} : step'[f] = step[f]
        /\ UNCHANGED <<stored, then, mine, wave, judged>>
    BY <1>1, <1>7 DEF WaveSucceeds, Goto, TypeOK
  <2>2. ReviewFits(e)'
    BY <1>1, <2>1 DEF ReviewFits
  <2> QED BY <1>3, <2>1, <2>2, WaveKeepsRun
<1>8. ASSUME NEW t \in Task, TaskSucceeds(e, t) \/ TaskFails(e, t) PROVE RunInv'
  <2>1. /\ step[e] \in {"build", "review"} /\ step' = step
        /\ UNCHANGED <<stored, then, mine>>
        /\ \A f \in Call \ {e} : wave'[f] = wave[f]
        /\ \A u \in Task \ {t} : wave'[e][u] = wave[e][u]
        /\ wave[e][t] = "running"
        /\ wave'[e][t] \in {"succeeded", "failed"}
    BY <1>1, <1>8 DEF TaskSucceeds, TaskFails, Scheduling, TypeOK
  <2>2. ReviewFits(e)'
    BY <1>1, <2>1 DEF ReviewFits, Merged, Task
  <2> QED BY <1>3, <2>1, <2>2, WaveKeepsRun
<1> QED BY <1>4, <1>5, <1>6, <1>7, <1>8

\* A merge gate that throws leaves the stored run for the catch block to read.
LEMMA ThrowKeepsRun ==
  ASSUME RunInv, CancelReachesRun, IInv', NEW e \in Call, MergeThrows(e)
  PROVE  RunInv'
<1>1. /\ step[e] = "merge" /\ step'[e] = "reload"
      /\ UNCHANGED <<stored, then, mine, judged>>
      /\ \A f \in Call \ {e} : step'[f] = step[f] /\ wave'[f] = wave[f]
  BY DEF MergeThrows, Goto, RunInv, IInv, TypeOK
<1>2. Executing(e) /\ Knows(e) /\ Reviewed(stored)
  BY <1>1 DEF RunInv, Executing
<1>3. Reviewed(stored)'
  BY <1>1, <1>2 DEF Reviewed, Merged
<1>4. Knows(e)' /\ ReviewFits(e)'
  BY <1>1, <1>2 DEF Knows, ReviewFits
<1> QED BY <1>1, <1>2, <1>3, <1>4, StepKeepsRun

\* A cancel changes no run, and a crash leaves only the stored one.
LEMMA EnvironmentKeepsRun ==
  ASSUME RunInv, IInv', Cancel \/ Crash \/ UNCHANGED vars
  PROVE  RunInv'
<1>1. UNCHANGED <<stored, judged>>
  BY DEF Cancel, Crash, vars
<1>2. Reviewed(stored)'
  BY <1>1 DEF RunInv, Reviewed, Merged
<1>3. CASE Crash
  <2>1. \A f \in Call : step'[f] = "idle"
    BY <1>3 DEF Crash
  <2> QED BY <1>2, <2>1, BystanderKnows DEF RunInv
<1>4. CASE Cancel \/ UNCHANGED vars
  <2>1. UNCHANGED <<step, then, mine, wave>>
    BY <1>4 DEF Cancel, vars
  <2>2. \A f \in Call : Knows(f)' /\ ReviewFits(f)'
    BY <1>1, <2>1 DEF RunInv, Knows, ReviewFits, Extends, Reviewed, Merged
  <2> QED BY <1>2, <2>2 DEF RunInv
<1> QED BY <1>3, <1>4

\* Nothing is stored at first, and no call is under way.
LEMMA InitIsReviewed == Init => RunInv
<1> SUFFICES ASSUME Init PROVE RunInv
  OBVIOUS
<1>1. stored.status = "none" /\ \A t \in Task : stored.tasks[t] = "unplanned"
  BY DEF Init, NoRun
<1>2. Reviewed(stored)
  BY <1>1 DEF Reviewed, Task
<1>3. \A e \in Call : Knows(e) /\ ReviewFits(e)
  BY DEF Init, Knows, ReviewFits
<1> QED BY <1>2, <1>3, InitEstablishes DEF RunInv

\* While one call executes the run, every step preserves its invariant.
LEMMA RunNextPreserves == RunInv /\ CancelReachesRun /\ [Next]_vars => RunInv'
<1> SUFFICES ASSUME RunInv, CancelReachesRun, [Next]_vars PROVE RunInv'
  OBVIOUS
<1>1. IInv'
  BY NextPreserves DEF RunInv
<1>2. ASSUME NEW e \in Call,
             \/ StartRun(e) \/ PlannerFails(e) \/ PlannerReturns(e)
             \/ StartResume(e) \/ ResumeReturns(e) \/ Resume(e)
      PROVE  RunInv'
  BY <1>1, <1>2, StartKeepsRun
<1>3. ASSUME NEW e \in Call, StoreStep(e) \/ Leave(e) PROVE RunInv'
  BY <1>1, <1>3, StoreKeepsRun
<1>4. ASSUME NEW e \in Call, PlanStep(e) PROVE RunInv'
  <2>1. CASE \/ StartWave(e) \/ StartReview(e) \/ StartBatch(e) \/ WaveSucceeds(e)
             \/ \E t \in Task : TaskSucceeds(e, t) \/ TaskFails(e, t)
    BY <1>1, <2>1, ScheduleKeepsRun
  <2>2. CASE \/ StopAborted(e) \/ WaveFails(e) \/ RerunRequired(e) \/ ReviewBlocks(e)
             \/ MergeWave(e) \/ NothingToReview(e) \/ ReviewPasses(e)
    BY <1>1, <2>2, SavesKeepRun
  <2>3. CASE MergeThrows(e)
    BY <1>1, <2>3, ThrowKeepsRun
  <2> QED BY <1>4, <2>1, <2>2, <2>3 DEF PlanStep
<1>5. CASE Cancel \/ Crash \/ UNCHANGED vars
  BY <1>1, <1>5, EnvironmentKeepsRun
<1> QED BY <1>2, <1>3, <1>4, <1>5 DEF Next

\* So it holds in every behaviour in which resumes read the store alone.
LEMMA RunInvariant == Spec /\ []ResumeReadsAlone => []RunInv
BY OnlyResumesRace, InitIsReviewed, RunNextPreserves, PTL DEF Spec

-----------------------------------------------------------------------------
(* What holds while one call executes the run *)

\* A run is completed only after a review that every reviewer passed, of the very project
\* it is stored with (orchestrator 300-346): none on an earlier revision counts.
THEOREM CompletionsAreReviewed ==
  Spec /\ []ResumeReadsAlone => []CompletedWasReviewed
<1>1. RunInv => CompletedWasReviewed
  BY DEF RunInv, Reviewed, CompletedWasReviewed, Merged, Task
<1> QED BY <1>1, RunInvariant, PTL

\* The running subagents are one call's, whose batch is within the limits.
LEMMA OneCallRuns ==
  ASSUME IInv, CancelReachesRun
  PROVE  RunningApart
<1> DEFINE running == {x \in Call \X Task : wave[x[1]][x[2]] = "running"}
<1>1. CASE running = {}
  <2>1. Cardinality(running) <= AtMost(MaxActive, MaxParallel)
    BY <1>1, LimitsTyped
  <2> QED BY <1>1, <2>1 DEF RunningApart
<1>2. CASE running # {}
  <2>1. PICK e \in Call, t \in Task : wave[e][t] = "running"
    BY <1>2
  <2>2. Executing(e)
    BY <2>1 DEF IInv, CallFits, WaveFits, Executing
  <2>3. ASSUME NEW f \in Call \ {e} PROVE \A u \in Task : wave[f][u] = "out"
    <3>1. step[f] \in {"idle", "get"}
      BY <2>2, ExecutesAlone
    <3> QED BY <3>1 DEF IInv, CallFits, WaveFits
  <2>4. \A x \in running : x = <<e, x[2]>> /\ x[2] \in InWave(e, "running")
    BY <2>3 DEF InWave
  <2> DEFINE taskOf == [x \in running |-> x[2]]
  <2>5. taskOf \in Injection(running, InWave(e, "running"))
    BY <2>4 DEF Injection, IsInjective
  <2>6. InWave(e, "running") \in SUBSET Task
    BY DEF InWave
  <2> HIDE DEF running, taskOf
  <2>7. /\ IsFiniteSet(running)
        /\ Cardinality(running) <= Cardinality(InWave(e, "running"))
    BY <2>5, <2>6, TasksAreFinite, FS_Injection
  <2>8. /\ Cardinality(InWave(e, "running")) <= AtMost(MaxActive, MaxParallel)
        /\ \A u, v \in InWave(e, "running") : v \notin Conflicts[u]
    BY DEF IInv, CallFits, BatchFits
  <2>9. Cardinality(running) \in Nat /\ Cardinality(InWave(e, "running")) \in Nat
    BY <2>6, <2>7, TasksAreFinite, FS_CardinalityType
  <2>10. AtMost(MaxActive, MaxParallel) \in Nat
    BY LimitsTyped
  <2>11. Cardinality(running) <= AtMost(MaxActive, MaxParallel)
    BY <2>7, <2>8, <2>9, <2>10
  <2>12. \A x, y \in running : y[2] \notin Conflicts[x[2]]
    BY <2>4, <2>8
  <2> QED BY <2>11, <2>12 DEF RunningApart, running
<1> QED BY <1>1, <1>2

\* Over all calls, no more subagents run than the limits allow, and no two of
\* them with overlapping write scopes (scheduler.ts 25-120).
THEOREM SubagentsRunApart == Spec /\ []ResumeReadsAlone => []RunningApart
<1>1. RunInv /\ CancelReachesRun => RunningApart
  BY OneCallRuns DEF RunInv
<1> QED BY <1>1, RunInvariant, OnlyResumesRace, PTL

\* A resumed run starts no task again whose patches the stored project holds
\* (orchestrator 185-190, 226-240).
THEOREM MergedWorkIsNotRepeated ==
  Spec /\ []ResumeReadsAlone => NeverRerunsMerged
<1> DEFINE Fresh == \A e \in Call, t \in Task :
              wave[e][t] = "queued" /\ wave'[e][t] = "running" => t \notin stored.project.work
<1>1. ASSUME RunInv, [Next]_vars PROVE Fresh
  <2>1. TypeOK /\ InStep(stored)
    BY <1>1 DEF RunInv, IInv
  <2>2. ASSUME NEW d \in Call, StartBatch(d) PROVE Fresh
    <3>1. \A e \in Call \ {d} : wave'[e] = wave[e]
      BY <2>1, <2>2 DEF StartBatch, TypeOK
    <3>2. stored = mine[d]
      BY <1>1, <2>2 DEF StartBatch, Scheduling, RunInv, Knows
    <3>3. ASSUME NEW t \in Task, wave[d][t] = "queued" PROVE t \notin stored.project.work
      <4>1. mine[d].tasks[t] # "merged"
        BY <1>1, <3>3 DEF RunInv, IInv, CallFits, WaveFits
      <4> QED BY <2>1, <3>2, <4>1 DEF InStep, Merged
    <3> QED BY <3>1, <3>3
  <2>3. ASSUME \A e \in Call : InWave(e, "running")' \subseteq InWave(e, "running") PROVE Fresh
    BY <2>3 DEF InWave
  <2> QED BY <1>1, <2>1, <2>2, <2>3, OnlyBatchesStart
<1>2. RunInv /\ [Next]_vars => [Fresh]_vars
  BY <1>1
<1> QED BY <1>2, RunInvariant, PTL DEF Spec, NeverRerunsMerged

\* The stored run is replaced only by the copy of a call that saves it.
LEMMA OnlySavesStore ==
  ASSUME [Next]_vars
  PROVE  \/ stored' = stored
         \/ \E e \in Call : step[e] \in {"firstSave", "save", "lastSave"} /\ stored' = mine[e]
<1> DEFINE Kept == stored' = stored
           Written == \E e \in Call :
                        step[e] \in {"firstSave", "save", "lastSave"} /\ stored' = mine[e]
<1>1. ASSUME NEW e \in Call, StoreStep(e) \/ Leave(e) PROVE Kept \/ Written
  BY <1>1 DEF StoreStep, Saved, SaveThrows, Reload, ReloadThrows, LastSave, Leave
<1>2. ASSUME NEW e \in Call,
             \/ StartRun(e) \/ PlannerFails(e) \/ PlannerReturns(e)
             \/ StartResume(e) \/ ResumeReturns(e) \/ Resume(e)
      PROVE  Kept
  BY <1>2 DEF StartRun, PlannerFails, PlannerReturns, StartResume, ResumeReturns, Resume, ResumeAs
<1>3. ASSUME NEW e \in Call, PlanStep(e) PROVE Kept
  BY <1>3 DEF PlanStep, StartWave, StopAborted, StartReview, NothingToReview, Planning, StartBatch,
              WaveFails, WaveSucceeds, TaskSucceeds, TaskFails, MergeWave, RerunRequired,
              MergeThrows, ReviewPasses, ReviewBlocks
<1>4. ASSUME Cancel \/ Crash \/ UNCHANGED vars PROVE Kept
  BY <1>4 DEF Cancel, Crash, vars
<1> QED BY <1>1, <1>2, <1>3, <1>4 DEF Next

\* Whatever save fails, is lost or is cut off, the stored project loses no merged
\* work, and a completed run keeps its project and tasks (orchestrator 268-361).
THEOREM WorkIsNeverLost == Spec /\ []ResumeReadsAlone => StoredOnlyGrows
<1>1. ASSUME RunInv, [Next]_vars PROVE Extends(stored, stored')
  <2>1. CASE stored' = stored
    BY <2>1 DEF Extends
  <2>2. ASSUME NEW e \in Call,
               step[e] \in {"firstSave", "save", "lastSave"}, stored' = mine[e]
        PROVE  Extends(stored, stored')
    BY <1>1, <2>2 DEF RunInv, Knows
  <2> QED BY <1>1, <2>1, <2>2, OnlySavesStore
<1>2. RunInv /\ [Next]_vars =>
        [/\ stored.project.work \subseteq stored'.project.work
         /\ stored.status = "completed" =>
              stored'.project = stored.project /\ stored'.tasks = stored.tasks]_vars
  BY <1>1 DEF Extends
<1> QED BY <1>2, RunInvariant, PTL DEF Spec, StoredOnlyGrows

\* A call that is alone reads the store alone.
LEMMA OneCallReadsAlone ==
  ASSUME \A e, f \in Call : e = f
  PROVE  Spec => []ResumeReadsAlone
<1>1. ResumeReadsAlone
  BY DEF ResumeReadsAlone
<1> QED BY <1>1, PTL

\* Calls that follow one another, each after the last one ended or was cut off by
\* a crash, need no further assumption: what the run of TLC checks of one call
\* holds of every plan, every limit and every failure.
THEOREM SuccessiveCallsAreSafe ==
  ASSUME \A e, f \in Call : e = f
  PROVE  Spec => /\ []CancelReachesRun /\ []CompletedWasReviewed /\ []RunningApart
                 /\ NeverRerunsMerged /\ StoredOnlyGrows
BY OneCallReadsAlone, OnlyResumesRace, CompletionsAreReviewed, SubagentsRunApart,
   MergedWorkIsNotRepeated, WorkIsNeverLost, PTL

=============================================================================
