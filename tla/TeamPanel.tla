------------------------------- MODULE TeamPanel -------------------------------
(***************************************************************************)
(* The members of a team who share one project                             *)
(* (components/studio-account-team-panel.tsx): a member's panel shows the  *)
(* team's saved revision, follows the project's room with two reader       *)
(* threads, and a member who may write shares revisions and announces them *)
(* in the room.                                                            *)
(*                                                                         *)
(* The team API and the room answer a request when they serve it; the      *)
(* panel handles the answer later.  A room is the sequence of the project  *)
(* revisions announced in it, of which a read returns the newest:          *)
(* CollaborationTransport shows that a room is the end of one such log.    *)
(***************************************************************************)
EXTENDS Naturals, Sequences, FiniteSets

CONSTANTS Writer,          \* owners and editors
          Viewer,
          Following,       \* bound: members whose reader threads get answers
          RetainedEvents,  \* events the room keeps
          MaxSaved,        \* bound: revisions ever saved
          Refreshes,       \* bound: refreshes of a panel that needs none
          MaxFailures      \* bound: requests that fail, each of another kind

ASSUME PanelAssumption ==
  /\ Writer \cap Viewer = {}
  /\ Following \subseteq Writer \cup Viewer
  /\ RetainedEvents \in Nat \ {0}
  /\ {MaxSaved, Refreshes, MaxFailures} \subseteq Nat

Member == Writer \cup Viewer
Thread == {"establish", "poll"}

VARIABLES saved,     \* the project revision the team API holds, 0 for none
          announced, \* the room: the project revisions announced
          shown,     \* per member: the revision in its workspace, 0 for none
          roomRevision,  \* per member: collaborationRevisionRef
          scoped,    \* per member: collaborationScopeRef is the shared project
          pending,   \* per member: pendingRemoteRevisionRef, 0 for null
          state,     \* per member: collaborationState
          reader,    \* per member and thread: its room read or team reload
          action,    \* per member: its refresh, apply or share
          refreshes, \* refreshes of panels that needed none
          failed     \* the kinds of request that have failed

server    == <<saved, announced>>
panel     == <<shown, roomRevision, scoped, pending, state>>
bounds    == <<refreshes, failed>>
panelVars == <<server, panel, reader, action, bounds>>

\* Reads of the room and appends; refreshes and saves; reloads.
RequestKind == {"room", "team", "reload"}

Receipt == [revision : Nat, news : SUBSET Nat, gap : BOOLEAN]

NoReceipt == [revision |-> 0, news |-> {}, gap |-> FALSE]

NoRead == [phase |-> "off", after |-> 0, receipt |-> NoReceipt, loaded |-> 0]

Read == [phase : {"off", "sent", "answered", "loading", "loaded"},
         after : Nat, receipt : Receipt, loaded : Nat]

Action == [phase : {"idle", "refresh", "refreshed", "unverified", "apply", "put",
                    "saved", "refused", "baseline", "baselined", "announce",
                    "append", "appended", "reconcile", "reconciled", "loading",
                    "loaded"},
           base : Nat, revision : Nat, expected : Nat, retried : BOOLEAN,
           receipt : Receipt]

Idle == [phase |-> "idle", base |-> 0, revision |-> 0, expected |-> 0,
         retried |-> FALSE, receipt |-> NoReceipt]

State == {"checking", "setup-required", "live", "read-only", "action-required",
          "unavailable"}

PanelTypeOK ==
  /\ saved \in Nat
  /\ announced \in Seq(Nat)
  /\ shown \in [Member -> Nat]
  /\ roomRevision \in [Member -> Nat]
  /\ scoped \in [Member -> BOOLEAN]
  /\ pending \in [Member -> Nat]
  /\ state \in [Member -> State]
  /\ reader \in [Member -> [Thread -> Read]]
  /\ action \in [Member -> Action]
  /\ refreshes \in 0..Refreshes
  /\ failed \subseteq RequestKind

\* Every panel opens with a refresh.
PanelInit ==
  /\ saved = 0
  /\ announced = <<>>
  /\ shown = [m \in Member |-> 0]
  /\ roomRevision = [m \in Member |-> 0]
  /\ scoped = [m \in Member |-> FALSE]
  /\ pending = [m \in Member |-> 0]
  /\ state = [m \in Member |-> "checking"]
  /\ reader = [m \in Member |-> [t \in Thread |-> NoRead]]
  /\ action = [m \in Member |-> [Idle EXCEPT !.phase = "refresh"]]
  /\ refreshes = 0
  /\ failed = {}

-----------------------------------------------------------------------------
(* The room and the panel's shared steps *)

WindowStart ==
  IF Len(announced) > RetainedEvents THEN Len(announced) - RetainedEvents + 1 ELSE 1

RoomReceipt(after) ==
  LET events == {i \in WindowStart..Len(announced) : i > after} IN
  [revision |-> Len(announced),
   news |-> {announced[i] : i \in events},
   gap |-> after > 0 /\ WindowStart > after + 1]

Verified(m) == IF m \in Viewer THEN "read-only" ELSE "live"

VerifiedState(m) == IF pending[m] # 0 THEN "action-required" ELSE Verified(m)

\* Mutant: a replaced workspace leaves the poll of the one before it running.
RestartWithoutAbort(m, revision) ==
  /\ shown' = [shown EXCEPT ![m] = revision]
  /\ IF revision = 0
       THEN /\ reader' = [reader EXCEPT ![m] = [t \in Thread |-> NoRead]]
            /\ state' = [state EXCEPT ![m] = "setup-required"]
       ELSE /\ reader' = [reader EXCEPT ![m].establish = [NoRead EXCEPT !.phase = "sent"]]
            /\ state' = [state EXCEPT ![m] = "checking"]

(***************************************************************************)
(* replaceWorkspace: the effect of the panel runs again.  It aborts the    *)
(* reads of its last run and, for a shared project, reads the room from 0. *)
(***************************************************************************)
Restart(m, revision) ==
  /\ shown' = [shown EXCEPT ![m] = revision]
  /\ IF revision = 0
       THEN /\ reader' = [reader EXCEPT ![m] = [t \in Thread |-> NoRead]]
            /\ state' = [state EXCEPT ![m] = "setup-required"]
       ELSE /\ reader' = [reader EXCEPT ![m] =
                 [establish |-> [NoRead EXCEPT !.phase = "sent"], poll |-> NoRead]]
            /\ state' = [state EXCEPT ![m] = "checking"]

\* loadAuthoritativeCollaborationRevision, once the team API has answered.
Reload(m, revision, previous) ==
  /\ Restart(m, revision)
  /\ pending' = IF revision > previous
                  THEN [pending EXCEPT ![m] = revision] ELSE pending

-----------------------------------------------------------------------------
(* The reader threads *)

SetRead(m, t, read) == reader' = [reader EXCEPT ![m][t] = read]

\* Mutant: a panel that waits for the member's consent does not poll.
StartPollWhenVerified(m) ==
  /\ m \in Following
  /\ shown[m] # 0
  /\ state[m] = Verified(m)
  /\ reader[m].poll.phase = "off"
  /\ SetRead(m, "poll", [NoRead EXCEPT !.phase = "sent", !.after = roomRevision[m]])
  /\ UNCHANGED <<server, panel, action, bounds>>

\* schedule, refreshNow and onVisibilityChange: a panel in view polls, one poll
\* at a time; it may do so while it still establishes.  A hidden panel is one that
\* does not take this step.
StartPoll(m) ==
  /\ m \in Following
  /\ shown[m] # 0
  /\ reader[m].poll.phase = "off"
  /\ SetRead(m, "poll", [NoRead EXCEPT !.phase = "sent", !.after = roomRevision[m]])
  /\ UNCHANGED <<server, panel, action, bounds>>

ServeRead(m, t) ==
  /\ m \in Following
  /\ reader[m][t].phase = "sent"
  /\ SetRead(m, t, [reader[m][t] EXCEPT
       !.phase = "answered", !.receipt = RoomReceipt(reader[m][t].after)])
  /\ UNCHANGED <<server, panel, action, bounds>>

\* Mutant: establish looks past the next revision only.
CallsForReloadLate(m, t) ==
  LET receipt == reader[m][t].receipt IN
  \/ receipt.gap
  \/ t = "poll" /\ receipt.news # {}
  \/ t = "establish" /\ \E revision \in receipt.news : revision > shown[m] + 1

CallsForReload(m, t) ==
  LET receipt == reader[m][t].receipt IN
  \/ receipt.gap
  \/ t = "poll" /\ receipt.news # {}
  \/ t = "establish" /\ \E revision \in receipt.news : revision > shown[m]

\* The cursor moves before the reload is even sent.
HandleRead(m, t) ==
  /\ reader[m][t].phase = "answered"
  /\ roomRevision' = [roomRevision EXCEPT ![m] = reader[m][t].receipt.revision]
  /\ scoped' = [scoped EXCEPT ![m] = TRUE]
  /\ IF CallsForReload(m, t)
       THEN SetRead(m, t, [NoRead EXCEPT !.phase = "loading"]) /\ UNCHANGED state
       ELSE /\ SetRead(m, t, NoRead)
            /\ state' = [state EXCEPT ![m] = VerifiedState(m)]
  /\ UNCHANGED <<saved, announced, shown, pending, action, bounds>>

ServeReload(m, t) ==
  /\ reader[m][t].phase = "loading"
  /\ SetRead(m, t, [NoRead EXCEPT !.phase = "loaded", !.loaded = saved])
  /\ UNCHANGED <<server, panel, action, bounds>>

HandleReload(m, t) ==
  /\ reader[m][t].phase = "loaded"
  /\ Reload(m, reader[m][t].loaded, shown[m])
  /\ UNCHANGED <<saved, announced, roomRevision, scoped, action, bounds>>

Fails(kind) ==
  /\ kind \notin failed
  /\ Cardinality(failed) < MaxFailures
  /\ failed' = failed \cup {kind}
  /\ UNCHANGED refreshes

\* failHonestly
ReadFails(m, t) ==
  /\ \/ reader[m][t].phase = "sent" /\ m \in Following /\ Fails("room")
     \/ reader[m][t].phase = "loading" /\ Fails("reload")
  /\ SetRead(m, t, NoRead)
  /\ state' = [state EXCEPT ![m] = "unavailable"]
  /\ UNCHANGED <<saved, announced, shown, roomRevision, scoped, pending, action>>

-----------------------------------------------------------------------------
(* refresh and applySharedProject; pendingAction admits one action at a time *)

SetAction(m, record) == action' = [action EXCEPT ![m] = record]

Enter(m, phase) == SetAction(m, [action[m] EXCEPT !.phase = phase])

\* clearSensitiveState; the workspaces are gone until the answer is in.
Refresh(m) ==
  /\ \/ action[m].phase = "unverified" /\ UNCHANGED refreshes
     \/ /\ action[m].phase = "idle"
        /\ refreshes < Refreshes
        /\ refreshes' = refreshes + 1
  /\ UNCHANGED failed
  /\ Enter(m, "refresh")
  /\ Restart(m, 0)
  /\ roomRevision' = [roomRevision EXCEPT ![m] = 0]
  /\ scoped' = [scoped EXCEPT ![m] = FALSE]
  /\ pending' = [pending EXCEPT ![m] = 0]
  /\ UNCHANGED <<saved, announced>>

ServeRefresh(m) ==
  /\ action[m].phase = "refresh"
  /\ SetAction(m, [Idle EXCEPT !.phase = "refreshed", !.revision = saved])
  /\ UNCHANGED <<server, panel, reader, bounds>>

HandleRefresh(m) ==
  /\ action[m].phase = "refreshed"
  /\ Restart(m, action[m].revision)
  /\ SetAction(m, Idle)
  /\ UNCHANGED <<saved, announced, roomRevision, scoped, pending, bounds>>

RefreshFails(m) ==
  /\ action[m].phase = "refresh"
  /\ Fails("team")
  /\ Enter(m, "unverified")
  /\ UNCHANGED <<server, panel, reader>>

Apply(m) ==
  /\ action[m].phase = "idle"
  /\ shown[m] # 0
  /\ Enter(m, "apply")
  /\ UNCHANGED <<server, panel, reader, bounds>>

\* The local source is replaced by the revision shown at the click; what has become
\* pending since then is forgotten too.
Applied(m) ==
  /\ action[m].phase = "apply"
  /\ SetAction(m, Idle)
  /\ pending' = [pending EXCEPT ![m] = 0]
  /\ state' = [state EXCEPT ![m] = Verified(m)]
  /\ UNCHANGED <<saved, announced, shown, roomRevision, scoped, reader, bounds>>

\* The local save is refused: the panel is as it was.
ApplyFails(m) ==
  /\ action[m].phase = "apply"
  /\ SetAction(m, Idle)
  /\ UNCHANGED <<server, panel, reader, bounds>>

-----------------------------------------------------------------------------
(* shareProject: save the revision *)

Share(m) ==
  /\ m \in Writer
  /\ action[m].phase = "idle"
  /\ SetAction(m, [Idle EXCEPT !.phase = "put", !.base = shown[m]])
  /\ UNCHANGED <<server, panel, reader, bounds>>

ExpectedRevision(m) == action[m].base = saved

Save(m) ==
  /\ action[m].phase = "put"
  /\ ExpectedRevision(m)
  /\ saved < MaxSaved
  /\ saved' = saved + 1
  /\ UNCHANGED <<announced, shown, roomRevision, scoped, pending, reader>>

ServePut(m) ==
  /\ Save(m)
  /\ SetAction(m, [action[m] EXCEPT !.phase = "saved", !.revision = saved + 1])
  /\ UNCHANGED <<state, bounds>>

\* The revision is saved and the member told that sharing failed.
PutAnswerLost(m) ==
  /\ Save(m)
  /\ Fails("team")
  /\ SetAction(m, Idle)
  /\ UNCHANGED state

PutFails(m) ==
  /\ action[m].phase = "put"
  /\ Fails("team")
  /\ SetAction(m, Idle)
  /\ UNCHANGED <<server, panel, reader>>

\* The team revision is compared too: an invite or a role change moves it.
RefusePut(m) ==
  /\ action[m].phase = "put"
  /\ SetAction(m, [action[m] EXCEPT !.phase = "refused", !.revision = saved])
  /\ UNCHANGED <<server, panel, reader, bounds>>

HandleRefused(m) ==
  /\ action[m].phase = "refused"
  /\ Reload(m, action[m].revision, action[m].base)
  /\ SetAction(m, Idle)
  /\ UNCHANGED <<saved, announced, roomRevision, scoped, bounds>>

\* The receipt is verified against scope before the effect runs again.
HandleSaved(m) ==
  /\ action[m].phase = "saved"
  /\ Restart(m, action[m].revision)
  /\ Enter(m, IF scoped[m] THEN "announce" ELSE "baseline")
  /\ UNCHANGED <<saved, announced, roomRevision, scoped, pending, bounds>>

-----------------------------------------------------------------------------
(* shareProject: announce the revision in the room *)

\* A read of the room by the share: for its baseline, or to reconcile.
ServeShareRead(m, phase, answered) ==
  /\ action[m].phase = phase
  /\ SetAction(m, [action[m] EXCEPT
       !.phase = answered, !.receipt = RoomReceipt(action[m].expected)])
  /\ UNCHANGED <<server, panel, reader, bounds>>

HandleBaseline(m) ==
  /\ action[m].phase = "baselined"
  /\ roomRevision' = [roomRevision EXCEPT ![m] = action[m].receipt.revision]
  /\ scoped' = [scoped EXCEPT ![m] = TRUE]
  /\ SetAction(m, [action[m] EXCEPT !.phase = "announce", !.receipt = NoReceipt])
  /\ UNCHANGED <<saved, announced, shown, pending, state, reader, bounds>>

\* The cursor is read after the digest of the revision has been computed.
Announce(m) ==
  /\ action[m].phase = "announce"
  /\ SetAction(m, [action[m] EXCEPT !.phase = "append", !.expected = roomRevision[m]])
  /\ UNCHANGED <<server, panel, reader, bounds>>

AppendEvent(m) ==
  /\ action[m].phase = "append"
  /\ action[m].expected = Len(announced)
  /\ announced' = Append(announced, action[m].revision)
  /\ UNCHANGED <<saved, shown, roomRevision, scoped, pending, reader>>

ServeAppend(m) ==
  /\ AppendEvent(m)
  /\ SetAction(m, [action[m] EXCEPT !.phase = "appended", !.expected = Len(announced) + 1])
  /\ UNCHANGED <<state, bounds>>

\* Mutant: a lost answer is taken for a conflict, and the event sent again.
AppendAnswerRetried(m) ==
  /\ AppendEvent(m)
  /\ Fails("room")
  /\ Enter(m, "reconcile")
  /\ UNCHANGED state

\* The panel says that collaborators must refresh: the event may be stored.
AppendAnswerLost(m) ==
  /\ AppendEvent(m)
  /\ Fails("room")
  /\ SetAction(m, Idle)
  /\ state' = [state EXCEPT ![m] = "unavailable"]

\* A conflict is reconciled once, and the event sent again on what was read.
RejectAppend(m) ==
  /\ action[m].phase = "append"
  /\ action[m].expected # Len(announced)
  /\ ~action[m].retried
  /\ Enter(m, "reconcile")
  /\ UNCHANGED <<server, panel, reader, bounds>>

HandleReconciled(m) ==
  /\ action[m].phase = "reconciled"
  /\ SetAction(m, [action[m] EXCEPT !.phase = "append", !.retried = TRUE,
                     !.expected = action[m].receipt.revision])
  /\ UNCHANGED <<server, panel, reader, bounds>>

\* The second conflict, or a request that fails: nothing is announced.
AnnounceFails(m) ==
  /\ \/ /\ action[m].phase = "append"
        /\ action[m].expected # Len(announced)
        /\ action[m].retried
        /\ UNCHANGED bounds
     \/ action[m].phase \in {"baseline", "append", "reconcile"} /\ Fails("room")
     \/ action[m].phase = "loading" /\ Fails("reload")
  /\ SetAction(m, Idle)
  /\ state' = [state EXCEPT ![m] = "unavailable"]
  /\ UNCHANGED <<saved, announced, shown, roomRevision, scoped, pending, reader>>

\* The events another member put in between call for a reload.
HandleAppended(m) ==
  LET reconciled == action[m].receipt IN
  /\ action[m].phase = "appended"
  /\ roomRevision' = [roomRevision EXCEPT ![m] = action[m].expected]
  /\ scoped' = [scoped EXCEPT ![m] = TRUE]
  /\ IF reconciled.news # {} \/ reconciled.gap
       THEN Enter(m, "loading") /\ UNCHANGED <<pending, state>>
       ELSE /\ SetAction(m, Idle)
            /\ pending' = [pending EXCEPT ![m] = 0]
            /\ state' = [state EXCEPT ![m] = "live"]
  /\ UNCHANGED <<saved, announced, shown, reader, bounds>>

ServeShareReload(m) ==
  /\ action[m].phase = "loading"
  /\ SetAction(m, [Idle EXCEPT
       !.phase = "loaded", !.base = action[m].revision, !.revision = saved])
  /\ UNCHANGED <<server, panel, reader, bounds>>

HandleShareReload(m) ==
  /\ action[m].phase = "loaded"
  /\ Reload(m, action[m].revision, action[m].base)
  /\ SetAction(m, Idle)
  /\ UNCHANGED <<saved, announced, roomRevision, scoped, bounds>>

-----------------------------------------------------------------------------

ReaderStep(m) ==
  \/ StartPoll(m)
  \/ \E t \in Thread :
       \/ ServeRead(m, t)
       \/ HandleRead(m, t)
       \/ ServeReload(m, t)
       \/ HandleReload(m, t)
       \/ ReadFails(m, t)

RefreshStep(m) ==
  \/ Refresh(m)
  \/ ServeRefresh(m)
  \/ HandleRefresh(m)
  \/ RefreshFails(m)
  \/ Apply(m)
  \/ Applied(m)
  \/ ApplyFails(m)

ShareStep(m) ==
  \/ Share(m)
  \/ ServePut(m)
  \/ PutAnswerLost(m)
  \/ PutFails(m)
  \/ RefusePut(m)
  \/ HandleRefused(m)
  \/ HandleSaved(m)

AnnounceStep(m) ==
  \/ ServeShareRead(m, "baseline", "baselined")
  \/ HandleBaseline(m)
  \/ Announce(m)
  \/ ServeAppend(m)
  \/ AppendAnswerLost(m)
  \/ RejectAppend(m)
  \/ ServeShareRead(m, "reconcile", "reconciled")
  \/ HandleReconciled(m)
  \/ AnnounceFails(m)
  \/ HandleAppended(m)
  \/ ServeShareReload(m)
  \/ HandleShareReload(m)

PanelNext ==
  \E m \in Member : ReaderStep(m) \/ RefreshStep(m) \/ ShareStep(m) \/ AnnounceStep(m)

\* A viewer keeps the panel in view, timers fire and requests are answered.
ReaderFairness ==
  \A v \in Viewer \cap Following :
    /\ WF_panelVars(StartPoll(v))
    /\ WF_panelVars(ServeRefresh(v) \/ HandleRefresh(v))
    /\ \A t \in Thread :
         WF_panelVars(ServeRead(v, t) \/ HandleRead(v, t) \/ ServeReload(v, t) \/ HandleReload(v, t))

PanelSpec == PanelInit /\ [][PanelNext]_panelVars

FairSpec == PanelSpec /\ ReaderFairness

-----------------------------------------------------------------------------
(* Properties *)

\* An announcement can be followed to the source: its revision is saved, and was
\* announced once, whatever conflicts and lost answers its append met.
AnnouncedOnce ==
  /\ \A i \in DOMAIN announced : announced[i] \in 1..saved
  /\ \A i, j \in DOMAIN announced : announced[i] = announced[j] => i = j

Current(m) == \A i \in 1..roomRevision[m] : announced[i] <= shown[m]

AtRest(m) ==
  /\ action[m].phase = "idle"
  /\ \A t \in Thread : reader[m][t].phase = "off"

NothingFailed == failed \subseteq {"team"}

\* A viewer's panel at rest shows the newest revision of every event its cursor has
\* passed (poll, establish) until a read of the room or a reload fails: with two reader
\* threads, aborted reloads and late answers the cursor never outruns what is shown.
ViewerIsCurrent ==
  NothingFailed =>
    \A v \in Viewer : AtRest(v) /\ state[v] = "read-only" => Current(v)

\* What a viewer is shown never goes back, but while the whole panel is loaded
\* again: an answer from before the last replacement is dropped (537-538).
ViewerNeverRegresses ==
  [][\A v \in Viewer : shown'[v] # 0 => shown'[v] >= shown[v]]_panelVars

\* Whatever aborted reloads and late answers come first, a viewer's panel that shows
\* the project comes to show all that is announced, unless a read or a reload fails.
AnnouncedIsExposed ==
  \A v \in Viewer \cap Following :
    []<>(\/ \A i \in DOMAIN announced : announced[i] <= shown[v]
         \/ shown[v] = 0
         \/ ~NothingFailed)
=============================================================================
