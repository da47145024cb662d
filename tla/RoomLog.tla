-------------------------------- MODULE RoomLog --------------------------------
(***************************************************************************)
(* What the collaboration transport promises a room's callers: one log of  *)
(* events of which the newest are retained.  An append takes effect at one *)
(* instant between its invocation and its answer: it adds its event where  *)
(* the caller expected it, or finds that it is there already, or is        *)
(* refused for a reason that is true of the log at that instant.           *)
(* "unavailable" promises nothing.  A poll returns all that is retained    *)
(* after the cursor and says whether that is all there was.                *)
(*                                                                         *)
(* CollaborationTransport implements this module.                          *)
(***************************************************************************)
EXTENDS Naturals, Sequences

CONSTANTS Client,        \* appending callers
          Reader,        \* polling callers
          Key,           \* idempotency keys
          Fingerprint,   \* actor, type and payload of an event
          Retained,      \* how many events are retained at most
          MaxRevision    \* bound: no append is invoked at this revision

VARIABLES log,           \* the events; an event's revision is its place
          first,         \* the first retained revision
          call,          \* per client: its append, its status and position
          cursor,        \* per reader: the last revision it knows
          receipt        \* per reader: what its last poll returned

logVars == <<log, first, call, cursor, receipt>>

Event   == [key : Key, fingerprint : Fingerprint]
Status  == {"idle", "pending", "ok", "conflict", "quota_exceeded", "unavailable"}
Call    == [event : Event, expected : Nat, status : Status, position : Nat]

Window(after) == {i \in first..Len(log) : i > after}

\* The retained events under a key.
KeptAs(key) == {i \in Window(0) : log[i].key = key}

Init ==
  /\ log = <<>>
  /\ first = 1
  /\ call \in [Client -> [event : Event, expected : {0}, status : {"idle"}, position : {0}]]
  /\ cursor = [r \in Reader |-> 0]
  /\ receipt = [r \in Reader |-> [historyGap |-> FALSE, events |-> {}]]

Invoke(c) ==
  /\ call[c].status # "pending"
  /\ Len(log) < MaxRevision
  /\ \E event \in Event, expected \in 0..Len(log) :
       call' = [call EXCEPT ![c] =
         [event |-> event, expected |-> expected, status |-> "pending", position |-> 0]]
  /\ UNCHANGED <<log, first, cursor, receipt>>

Answer(c, status, position) ==
  /\ call[c].status = "pending"
  /\ call' = [call EXCEPT ![c] = [event |-> @.event, expected |-> @.expected,
                                  status |-> status, position |-> position]]
  /\ UNCHANGED <<cursor, receipt>>

Replay(c) ==
  /\ \E i \in KeptAs(call[c].event.key) :
       log[i] = call[c].event /\ Answer(c, "ok", i)
  /\ UNCHANGED <<log, first>>

KeyTaken(c) ==
  /\ \E i \in KeptAs(call[c].event.key) : log[i] # call[c].event
  /\ Answer(c, "conflict", 0)
  /\ UNCHANGED <<log, first>>

Expected(c) == KeptAs(call[c].event.key) = {} /\ call[c].expected = Len(log)

Stale(c) ==
  /\ KeptAs(call[c].event.key) = {}
  /\ call[c].expected # Len(log)
  /\ Answer(c, "conflict", 0)
  /\ UNCHANGED <<log, first>>

\* The bytes of a room are not a function of this state.
TooLarge(c) ==
  /\ Expected(c)
  /\ Answer(c, "quota_exceeded", 0)
  /\ UNCHANGED <<log, first>>

\* Any of the older events may no longer be retained; the new one is.
AppendEvent(c) ==
  /\ Expected(c)
  /\ log' = Append(log, call[c].event)
  /\ first' \in first..Len(log) + 1
  /\ Len(log) + 1 - first' < Retained

Commit(c)           == AppendEvent(c) /\ Answer(c, "ok", Len(log) + 1)
CommitUnanswered(c) == AppendEvent(c) /\ Answer(c, "unavailable", 0)

Fail(c) == Answer(c, "unavailable", 0) /\ UNCHANGED <<log, first>>

Numbered(i) == [revision |-> i, key |-> log[i].key, fingerprint |-> log[i].fingerprint]

Read(r) ==
  /\ receipt' = [receipt EXCEPT ![r] =
       [historyGap |-> cursor[r] > 0 /\ first > cursor[r] + 1,
        events |-> {Numbered(i) : i \in Window(cursor[r])}]]
  /\ cursor' = [cursor EXCEPT ![r] = Len(log)]
  /\ UNCHANGED <<log, first, call>>

Next ==
  \/ \E c \in Client :
       \/ Invoke(c)
       \/ Replay(c)
       \/ KeyTaken(c)
       \/ Stale(c)
       \/ TooLarge(c)
       \/ Commit(c)
       \/ CommitUnanswered(c)
       \/ Fail(c)
  \/ \E r \in Reader : Read(r)

Spec == Init /\ [][Next]_logVars

=============================================================================
