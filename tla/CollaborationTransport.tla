------------------------ MODULE CollaborationTransport ------------------------
(***************************************************************************)
(* The durable room log (lib/collaboration-transport.ts): appends guarded  *)
(* by the room revision and an idempotency key, a bounded window of the    *)
(* latest events, and clients that poll it with a cursor                   *)
(* (lib/collaboration-transport-client.ts).                                *)
(*                                                                         *)
(* A room is one document of a ProjectDataStore of its own, so each get,   *)
(* create and update of the store is one atomic step here, as DocumentTable*)
(* promises: a write of the room succeeds on the document revision that    *)
(* was read, and the room's revision is its document's.                    *)
(***************************************************************************)
EXTENDS Naturals, FiniteSets, FiniteSetsExt

CONSTANTS Client,        \* appending callers
          Reader,        \* polling callers
          Key,           \* idempotency keys
          Fingerprint,   \* actor, type and payload of an event
          Retained,      \* COLLABORATION_MAX_RETAINED_EVENTS
          ReadLimit,     \* the limit a polling client asks for
          MaxRevision    \* bound: no append is invoked at this revision

\* 32 events are retained (collaboration-transport.ts 30) and the client asks for
\* 32 (collaboration-transport-client.ts 246).
ASSUME TransportAssumption ==
  /\ Retained \in Nat \ {0}
  /\ ReadLimit \in Nat
  /\ ReadLimit >= Retained
  /\ MaxRevision \in Nat

VARIABLES room,       \* the stored room
          request,    \* per client: its append
          step,       \* per client: the store call it makes next, or its answer
          attempt,    \* per client: how many storage races it has lost
          held,       \* per client: the room it read
          position,   \* per client: the revision its answer gives the event
          cursor,     \* per reader: the last revision it knows
          receipt,    \* per reader: what its last poll returned
          log         \* history variable: every event stored, by revision

vars == <<room, request, step, attempt, held, position, cursor, receipt, log>>

Event   == [revision : Nat \ {0}, key : Key, fingerprint : Fingerprint]
Room    == [revision : Nat, events : SUBSET Event, idempotency : SUBSET Event]
Request == [key : Key, fingerprint : Fingerprint, expected : Nat]
Answers == {"ok", "conflict", "quota_exceeded", "unavailable"}

EmptyRoom == [revision |-> 0, events |-> {}, idempotency |-> {}]

Revisions(events) == {event.revision : event \in events}

TypeOK ==
  /\ room \in Room
  /\ request \in [Client -> Request]
  /\ step \in [Client -> {"idle", "get", "write"} \cup Answers]
  /\ attempt \in [Client -> 0..1]
  /\ held \in [Client -> Room]
  /\ position \in [Client -> Nat]
  /\ cursor \in [Reader -> Nat]
  /\ receipt \in [Reader -> [historyGap : BOOLEAN, events : SUBSET Event]]
  /\ log \subseteq Event

Init ==
  /\ room = EmptyRoom
  /\ request \in [Client -> [key : Key, fingerprint : Fingerprint, expected : {0}]]
  /\ step = [c \in Client |-> "idle"]
  /\ attempt = [c \in Client |-> 0]
  /\ held = [c \in Client |-> EmptyRoom]
  /\ position = [c \in Client |-> 0]
  /\ cursor = [r \in Reader |-> 0]
  /\ receipt = [r \in Reader |-> [historyGap |-> FALSE, events |-> {}]]
  /\ log = {}

-----------------------------------------------------------------------------
(* append *)

Busy(c) == step[c] \in {"get", "write"}

\* A client sends a request, or sends it again, on a revision it has read.
StartAppend(c) ==
  /\ ~Busy(c)
  /\ room.revision < MaxRevision
  /\ \E key \in Key, fingerprint \in Fingerprint, expected \in 0..room.revision :
       request' = [request EXCEPT ![c] =
         [key |-> key, fingerprint |-> fingerprint, expected |-> expected]]
  /\ step' = [step EXCEPT ![c] = "get"]
  /\ attempt' = [attempt EXCEPT ![c] = 0]
  /\ position' = [position EXCEPT ![c] = 0]
  /\ UNCHANGED <<room, held, cursor, receipt, log>>

Answered(c, answer, revision) ==
  /\ step' = [step EXCEPT ![c] = answer]
  /\ held' = [held EXCEPT ![c] = EmptyRoom]
  /\ position' = [position EXCEPT ![c] = revision]
  /\ UNCHANGED <<request, attempt, cursor, receipt>>

Records(c) == {record \in room.idempotency : record.key = request[c].key}

\* Mutant: the key alone identifies the event.
GetIdempotentByKey(c) ==
  /\ step[c] = "get"
  /\ \E record \in Records(c) : Answered(c, "ok", record.revision)
  /\ UNCHANGED <<room, log>>

GetIdempotent(c) ==
  /\ step[c] = "get"
  /\ \E record \in Records(c), event \in room.events :
       /\ record.fingerprint = request[c].fingerprint
       /\ event.revision = record.revision
       /\ Answered(c, "ok", event.revision)
  /\ UNCHANGED <<room, log>>

\* The key names another event, or its event is no longer retained.
GetKeyConflict(c) ==
  /\ step[c] = "get"
  /\ \E record \in Records(c) :
       \/ record.fingerprint # request[c].fingerprint
       \/ record.revision \notin Revisions(room.events)
  /\ Answered(c, "conflict", 0)
  /\ UNCHANGED <<room, log>>

\* Mutant: the revision is compared before the key is looked up.
GetStaleFirst(c) ==
  /\ step[c] = "get"
  /\ room.revision # request[c].expected
  /\ Answered(c, "conflict", 0)
  /\ UNCHANGED <<room, log>>

GetStale(c) ==
  /\ step[c] = "get"
  /\ Records(c) = {}
  /\ room.revision # request[c].expected
  /\ Answered(c, "conflict", 0)
  /\ UNCHANGED <<room, log>>

\* The event alone exceeds the byte quota of nextRoom.
GetTooLarge(c) ==
  /\ step[c] = "get"
  /\ Records(c) = {}
  /\ room.revision = request[c].expected
  /\ Answered(c, "quota_exceeded", 0)
  /\ UNCHANGED <<room, log>>

\* Mutant: the retry goes on from whatever revision it finds.
GetForWriteRebased(c) ==
  /\ step[c] = "get"
  /\ Records(c) = {}
  /\ room.revision = request[c].expected \/ attempt[c] = 1
  /\ held' = [held EXCEPT ![c] = room]
  /\ step' = [step EXCEPT ![c] = "write"]
  /\ UNCHANGED <<room, request, attempt, position, cursor, receipt, log>>

GetForWrite(c) ==
  /\ step[c] = "get"
  /\ Records(c) = {}
  /\ room.revision = request[c].expected
  /\ held' = [held EXCEPT ![c] = room]
  /\ step' = [step EXCEPT ![c] = "write"]
  /\ UNCHANGED <<room, request, attempt, position, cursor, receipt, log>>

NewEvent(c) ==
  [revision |-> held[c].revision + 1,
   key |-> request[c].key, fingerprint |-> request[c].fingerprint]

(***************************************************************************)
(* nextRoom: the oldest events go, with their idempotency records, until   *)
(* at most Retained are left and the room fits its bytes.  Sizes are not   *)
(* modelled: any older events may have to go, the new one stays.           *)
(***************************************************************************)
Evict(events, from) == {event \in events : event.revision >= from}

\* Mutant: the idempotency records of evicted events stay.
NextRoomKeepingRecords(c, from) ==
  [revision |-> NewEvent(c).revision,
   events |-> Evict(held[c].events \cup {NewEvent(c)}, from),
   idempotency |-> held[c].idempotency \cup {NewEvent(c)}]

\* Mutant: a record is kept while more than one event follows its own.
NextRoomDroppingRecords(c, from) ==
  [revision |-> NewEvent(c).revision,
   events |-> Evict(held[c].events \cup {NewEvent(c)}, from),
   idempotency |-> Evict(held[c].idempotency \cup {NewEvent(c)}, from + 1)]

NextRoom(c, from) ==
  [revision |-> NewEvent(c).revision,
   events |-> Evict(held[c].events \cup {NewEvent(c)}, from),
   idempotency |-> Evict(held[c].idempotency \cup {NewEvent(c)}, from)]

\* Mutant: the room is written over whatever is there.
Regardless(c) == TRUE

\* The store's update or create succeeds on the revision that was read.
Unchanged(c) == room.revision = held[c].revision

Store(c) ==
  /\ step[c] = "write"
  /\ Unchanged(c)
  /\ \E from \in 1..NewEvent(c).revision :
       /\ Cardinality(NextRoom(c, from).events) <= Retained
       /\ room' = NextRoom(c, from)
  /\ log' = log \cup {NewEvent(c)}

Write(c)           == Store(c) /\ Answered(c, "ok", NewEvent(c).revision)
WriteUnanswered(c) == Store(c) /\ Answered(c, "unavailable", 0)

\* A lost storage race is retried once, from the get.
WriteRetried(c) ==
  /\ step[c] = "write"
  /\ ~Unchanged(c)
  /\ attempt[c] = 0
  /\ attempt' = [attempt EXCEPT ![c] = 1]
  /\ step' = [step EXCEPT ![c] = "get"]
  /\ held' = [held EXCEPT ![c] = EmptyRoom]
  /\ UNCHANGED <<room, request, position, cursor, receipt, log>>

StorageFails(c) ==
  /\ Busy(c)
  /\ Answered(c, "unavailable", 0)
  /\ UNCHANGED <<room, log>>

-----------------------------------------------------------------------------
(* read, by a client that keeps a cursor *)

RetainedFrom ==
  IF room.events = {} THEN 0 ELSE Min(Revisions(room.events))

\* The first ReadLimit events after the cursor.
Slice(after) ==
  LET later == {event \in room.events : event.revision > after} IN
  {event \in later :
     Cardinality({e \in later : e.revision < event.revision}) < ReadLimit}

\* Mutant: off by one.
LateHistoryGap(after) == after > 0 /\ RetainedFrom > after + 2

HistoryGap(after) == after > 0 /\ RetainedFrom > after + 1

Poll(r) ==
  /\ receipt' = [receipt EXCEPT ![r] =
       [historyGap |-> HistoryGap(cursor[r]), events |-> Slice(cursor[r])]]
  /\ cursor' = [cursor EXCEPT ![r] = room.revision]
  /\ UNCHANGED <<room, request, step, attempt, held, position, log>>

-----------------------------------------------------------------------------

Next ==
  \/ \E c \in Client :
       \/ StartAppend(c)
       \/ GetIdempotent(c)
       \/ GetKeyConflict(c)
       \/ GetStale(c)
       \/ GetTooLarge(c)
       \/ GetForWrite(c)
       \/ Write(c)
       \/ WriteUnanswered(c)
       \/ WriteRetried(c)
       \/ StorageFails(c)
  \/ \E r \in Reader : Poll(r)

Spec == Init /\ [][Next]_vars

-----------------------------------------------------------------------------
(* The log that callers see *)

EventAt(revision) ==
  LET stored == CHOOSE event \in log : event.revision = revision IN
  [key |-> stored.key, fingerprint |-> stored.fingerprint]

LogSeen == [revision \in 1..room.revision |-> EventAt(revision)]

FirstSeen == IF room.events = {} THEN 1 ELSE RetainedFrom

CallSeen(c) ==
  [event    |-> [key |-> request[c].key, fingerprint |-> request[c].fingerprint],
   expected |-> request[c].expected,
   status   |-> IF Busy(c) THEN "pending" ELSE step[c],
   position |-> position[c]]

CallsSeen == [c \in Client |-> CallSeen(c)]

Log == INSTANCE RoomLog WITH log <- LogSeen, first <- FirstSeen, call <- CallsSeen

-----------------------------------------------------------------------------
(* Properties *)

\* roomFromDocument (243-323) accepts every room append stores: no append leaves
\* a room that every later read and append would refuse.
RoomIsReadable ==
  room # EmptyRoom =>
    /\ Cardinality(room.events) \in 1..Retained
    /\ room.revision \in Revisions(room.events)
    /\ \A event \in room.events : event.revision <= room.revision
    /\ \A x, y \in room.events : x.revision = y.revision => x = y
    /\ Cardinality(room.idempotency) <= Retained
    /\ Revisions(room.idempotency) \subseteq Revisions(room.events)
    /\ \A x, y \in room.idempotency : x.key = y.key => x = y

\* The window is the end of the one log: no event an append stored was replaced
\* or dropped from the middle by a racing append.
WindowEndsLog ==
  /\ Revisions(log) = 1..room.revision
  /\ \A x, y \in log : x.revision = y.revision => x = y
  /\ room.events = {event \in log : event.revision >= RetainedFrom}

\* An event keeps its idempotency record as long as it is retained, so a retry of
\* an append whose answer was lost finds it (352-381, 398-400).
RetainedIsRecognised == room.idempotency = room.events

\* What an append confirms, new or replayed, is logged at the revision it names.
ConfirmedIsLogged ==
  \A c \in Client : step[c] = "ok" =>
    [revision |-> position[c], key |-> request[c].key,
     fingerprint |-> request[c].fingerprint] \in log

\* The second attempt of append (530-537) only finds out why the first lost the
\* race: it never stores the event, since the room has left the expected revision.
RetryNeverWrites == \A c \in Client : attempt[c] = 1 => step[c] # "write"

\* A poll after the first receives every event since its cursor, or says that
\* some are gone.
PollMissesNothing ==
  [][\A r \in Reader : cursor[r] > 0 /\ cursor'[r] # cursor[r] =>
       \/ receipt'[r].historyGap
       \/ Revisions(receipt'[r].events) = cursor[r] + 1 .. cursor'[r]]_vars

\* Reading the room and writing it later is one atomic append: what it answers was
\* true of the room at one instant, whoever raced it in between, and a poll returns
\* the retained end of the log (436-543).
ImplementsLog == Log!Spec

=============================================================================
