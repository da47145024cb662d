-------------------------- MODULE CollaborationProofs --------------------------
(***************************************************************************)
(* The room and the panels that follow it.                                 *)
(*                                                                         *)
(* The room log is type correct and readable, its window is the end of one *)
(* log, retained events are recognised, what is confirmed is logged, a     *)
(* retry never writes, and a poll after the first misses nothing silently, *)
(* for any number of clients and readers and any retention.                *)
(*                                                                         *)
(* The panels announce each saved revision once and never show a viewer an *)
(* older one; a viewer at rest shows all its cursor has passed, when the   *)
(* room keeps as many events as there are writers.                         *)
(***************************************************************************)
EXTENDS CollaborationTransport, TeamPanel, FiniteSetTheorems, TLAPS

\* One revision names one event, one key one record.
UniqueRevisions(events) == \A x, y \in events : x.revision = y.revision => x = y
UniqueKeys(events)      == \A x, y \in events : x.key = y.key => x = y

\* The log holds one event of each revision up to the room's.
LogIsComplete == Revisions(log) = 1..room.revision /\ UniqueRevisions(log)

\* A room other than the empty one retains the log from some revision on, and no
\* more than the window holds.
WindowFrom(from) ==
  /\ from \in 1..room.revision
  /\ room.events = Evict(log, from)

RoomIsWindow ==
  /\ IsFiniteSet(room.events)
  /\ Cardinality(room.events) <= Retained
  /\ IF room.revision = 0 THEN room = EmptyRoom ELSE \E from \in Nat : WindowFrom(from)

(***************************************************************************)
(* What an append knows between its get and its write: the room it read    *)
(* was at the expected revision and had no record of its key; the stored   *)
(* one is that room or later.  On its second attempt the room has left the *)
(* expected revision.                                                      *)
(***************************************************************************)
HeldByWrite(c) ==
  step[c] = "write" =>
    /\ held[c].revision = request[c].expected
    /\ held[c].revision <= room.revision
    /\ held[c].revision = room.revision => held[c] = room
    /\ \A record \in held[c].idempotency : record.key # request[c].key
    /\ attempt[c] = 0

SecondAttempt(c) ==
  attempt[c] = 1 /\ step[c] \in {"get", "write"} => request[c].expected < room.revision

Confirmed(c) ==
  step[c] = "ok" =>
    [revision |-> position[c], key |-> request[c].key,
     fingerprint |-> request[c].fingerprint] \in log

IInv ==
  /\ TypeOK
  /\ LogIsComplete
  /\ RoomIsWindow
  /\ RetainedIsRecognised
  /\ UniqueKeys(room.events)
  /\ \A c \in Client :
       /\ request[c].expected <= room.revision
       /\ HeldByWrite(c)
       /\ SecondAttempt(c)
       /\ Confirmed(c)
  /\ \A r \in Reader : cursor[r] <= room.revision

-----------------------------------------------------------------------------
(* Lemmas about the window *)

\* The window is part of the log, and a complete suffix of it.
LEMMA WindowRevisions ==
  ASSUME TypeOK, LogIsComplete, NEW from \in Nat, WindowFrom(from)
  PROVE  /\ Revisions(room.events) = from..room.revision
         /\ RetainedFrom = from
         /\ room.events # {}
<1>1. room.revision \in Nat /\ \A event \in log : event.revision \in Nat
  BY DEF TypeOK, Room, Event
<1>2. Revisions(room.events) = from..room.revision
  BY <1>1 DEF LogIsComplete, WindowFrom, Evict, Revisions
<1>3. from \in Revisions(room.events) /\ \A n \in Revisions(room.events) : from <= n
  BY <1>1, <1>2 DEF WindowFrom
<1>4. room.events # {}
  BY <1>3 DEF Revisions
<1>5. Min(Revisions(room.events)) = from
  <2> DEFINE S == Revisions(room.events)
             min == CHOOSE x \in S : \A y \in S : x <= y
  <2>1. min \in S /\ \A y \in S : min <= y
    BY <1>3
  <2>2. min \in Nat /\ min <= from /\ from <= min
    BY <1>1, <1>2, <1>3, <2>1
  <2>3. min = from BY <2>2
  <2> QED BY <2>3 DEF Min
<1> QED BY <1>2, <1>4, <1>5 DEF RetainedFrom

\* Every retained event was logged.
LEMMA RetainedIsLogged == ASSUME RoomIsWindow PROVE room.events \subseteq log
BY DEF RoomIsWindow, EmptyRoom, WindowFrom, Evict

\* What a write whose room is unchanged stores: one more logged event, in a window
\* that ends with it and gives its key to no other event.
LEMMA StoreExtendsLog ==
  ASSUME IInv, NEW c \in Client, Store(c)
  PROVE  /\ room' \in Room
         /\ room'.revision = room.revision + 1
         /\ log' = log \cup {NewEvent(c)}
         /\ NewEvent(c) \in Event
         /\ NewEvent(c).revision = room.revision + 1
         /\ LogIsComplete'
         /\ RoomIsWindow'
         /\ RetainedIsRecognised'
         /\ UniqueKeys(room.events)'
<1> DEFINE new == NewEvent(c)
<1>1. /\ room \in Room /\ room.revision \in Nat /\ log \subseteq Event
      /\ request[c] \in Request
      /\ \A event \in log : event.revision \in Nat
  BY DEF IInv, TypeOK, Room, Event
<1>2. /\ held[c] = room
      /\ \A record \in room.events : record.key # request[c].key
  BY DEF IInv, HeldByWrite, Store, Unchanged, RetainedIsRecognised
<1>3. /\ new.revision = room.revision + 1
      /\ new.key = request[c].key
      /\ new \in Event
  BY <1>1, <1>2 DEF NewEvent, Event, Request
<1>4. log' = log \cup {new}
  BY DEF Store
<1>5. PICK from \in 1..new.revision :
        /\ room' = NextRoom(c, from)
        /\ Cardinality(NextRoom(c, from).events) <= Retained
  BY DEF Store
<1> HIDE DEF new
<1>6. /\ room'.revision = room.revision + 1
      /\ room'.events = Evict(room.events \cup {new}, from)
      /\ room'.idempotency = Evict(room.events \cup {new}, from)
  BY <1>2, <1>3, <1>5 DEF NextRoom, IInv, RetainedIsRecognised, new
<1>7. room' \in Room
  <2>1. room'.events \subseteq Event /\ room'.idempotency \subseteq Event
    BY <1>1, <1>3, <1>6 DEF Evict, Room
  <2>2. room' = [revision |-> room'.revision, events |-> room'.events,
                 idempotency |-> room'.idempotency]
    BY <1>5 DEF NextRoom
  <2>3. room'.revision \in Nat
    BY <1>1, <1>6
  <2> QED BY <2>1, <2>2, <2>3 DEF Room
<1>8. LogIsComplete'
  <2>1. Revisions(log') = 1..room.revision + 1
    BY <1>1, <1>3, <1>4 DEF IInv, LogIsComplete, Revisions
  <2>2. \A event \in log : event.revision # new.revision
    BY <1>1, <1>3 DEF IInv, LogIsComplete, Revisions
  <2>3. UniqueRevisions(log')
    BY <1>4, <2>2 DEF IInv, LogIsComplete, UniqueRevisions
  <2> QED BY <1>6, <2>1, <2>3 DEF LogIsComplete, Revisions, UniqueRevisions
<1>9. RoomIsWindow'
  <2>1. IsFiniteSet(room'.events)
    <3>1. IsFiniteSet(room.events \cup {new})
      BY FS_AddElement DEF IInv, RoomIsWindow
    <3>2. room'.events \subseteq room.events \cup {new}
      BY <1>6 DEF Evict
    <3> QED BY <3>1, <3>2, FS_Subset
  <2>2. Cardinality(room'.events) <= Retained
    BY <1>5
  <2>3. \E f \in Nat : f \in 1..new.revision /\ room'.events = Evict(log', f)
    <3>1. CASE room.revision = 0
      <4>1. room.events = {} /\ log = {}
        BY <1>1, <3>1 DEF IInv, RoomIsWindow, EmptyRoom, LogIsComplete, Revisions
      <4>2. room'.events = Evict(log', from)
        BY <1>4, <1>6, <4>1
      <4> QED BY <1>3, <1>5, <3>1, <4>2
    <3>2. CASE room.revision # 0
      <4>1. PICK g \in Nat : g \in 1..room.revision /\ room.events = Evict(log, g)
        BY <3>2 DEF IInv, RoomIsWindow, WindowFrom
      <4>2. CASE g <= from
        <5>1. room'.events = Evict(log', from)
          BY <1>1, <1>3, <1>4, <1>5, <1>6, <4>1, <4>2 DEF Evict
        <5> QED BY <1>1, <1>3, <1>5, <5>1
      <4>3. CASE g > from
        <5>1. room'.events = Evict(log', g)
          BY <1>1, <1>3, <1>4, <1>5, <1>6, <4>1, <4>3 DEF Evict
        <5> QED BY <1>1, <1>3, <4>1, <5>1
      <4> QED BY <1>1, <1>3, <1>5, <4>1, <4>2, <4>3
    <3> QED BY <3>1, <3>2
  <2>4. room'.revision # 0 /\ room'.revision = new.revision
    BY <1>1, <1>3, <1>6
  <2> QED BY <2>1, <2>2, <2>3, <2>4 DEF RoomIsWindow, WindowFrom, Evict
<1>10. RetainedIsRecognised'
  BY <1>6 DEF RetainedIsRecognised
<1>11. UniqueKeys(room.events)'
  BY <1>2, <1>3, <1>6 DEF IInv, UniqueKeys, Evict
<1> QED BY <1>3, <1>4, <1>6, <1>7, <1>8, <1>9, <1>10, <1>11 DEF new

-----------------------------------------------------------------------------
(* Lemmas about the steps of an append *)

\* An answer leaves the client out of the store, and every other client where it
\* was; it keeps requests, attempts and readers.
LEMMA AnsweredStep ==
  ASSUME TypeOK, NEW c \in Client, NEW answer \in Answers, NEW revision \in Nat,
         Answered(c, answer, revision)
  PROVE  /\ step' \in [Client -> {"idle", "get", "write"} \cup Answers]
         /\ held' \in [Client -> Room]
         /\ position' \in [Client -> Nat]
         /\ step'[c] = answer /\ position'[c] = revision
         /\ \A d \in Client \ {c} :
              step'[d] = step[d] /\ held'[d] = held[d] /\ position'[d] = position[d]
         /\ UNCHANGED <<request, attempt, cursor, receipt>>
<1>1. EmptyRoom \in Room
  BY DEF EmptyRoom, Room
<1> QED BY <1>1 DEF TypeOK, Answered

\* The parts of the invariant that speak of the room and the log only.
LEMMA RoomUnchanged ==
  ASSUME IInv, UNCHANGED <<room, log>>
  PROVE  /\ LogIsComplete' /\ RoomIsWindow' /\ RetainedIsRecognised'
         /\ UniqueKeys(room.events)'
BY DEF IInv, LogIsComplete, RoomIsWindow, RetainedIsRecognised, UniqueKeys, UniqueRevisions,
       Revisions, WindowFrom, Evict

\* An answer that leaves the room alone preserves the invariant, if what it
\* confirms is logged.
LEMMA AnswerPreserves ==
  ASSUME IInv, NEW c \in Client, NEW answer \in Answers, NEW revision \in Nat,
         Answered(c, answer, revision), UNCHANGED <<room, log>>,
         answer = "ok" =>
           [revision |-> revision, key |-> request[c].key,
            fingerprint |-> request[c].fingerprint] \in log
  PROVE  IInv'
<1>1. TypeOK BY DEF IInv
<1>2. TypeOK' BY <1>1, AnsweredStep DEF TypeOK
<1>3. answer \notin {"get", "write"} BY DEF Answers
<1>4. ASSUME NEW d \in Client
      PROVE  /\ request[d].expected <= room.revision
             /\ HeldByWrite(d)' /\ SecondAttempt(d)' /\ Confirmed(d)'
  <2>1. /\ request' = request /\ attempt' = attempt /\ room' = room /\ log' = log
        /\ request[d].expected <= room.revision
        /\ HeldByWrite(d) /\ SecondAttempt(d) /\ Confirmed(d)
    BY <1>1, AnsweredStep DEF IInv
  <2>2. CASE d = c
    BY <1>1, <1>3, <2>1, <2>2, AnsweredStep DEF HeldByWrite, SecondAttempt, Confirmed
  <2>3. CASE d # c
    BY <1>1, <2>1, <2>3, AnsweredStep DEF HeldByWrite, SecondAttempt, Confirmed
  <2> QED BY <2>2, <2>3
<1>5. request' = request /\ cursor' = cursor
  BY <1>1, AnsweredStep
<1> QED BY <1>2, <1>4, <1>5, RoomUnchanged DEF IInv

\* A write preserves the invariant, answered or not.
LEMMA StorePreserves ==
  ASSUME IInv, NEW c \in Client, Store(c), NEW answer \in Answers, NEW revision \in Nat,
         Answered(c, answer, revision),
         answer = "ok" => revision = NewEvent(c).revision
  PROVE  IInv'
<1>1. TypeOK /\ room.revision \in Nat
      /\ \A d \in Client : request[d].expected \in Nat /\ held[d].revision \in Nat
  BY DEF IInv, TypeOK, Room, Request
<1>2. /\ room' \in Room /\ room'.revision = room.revision + 1
      /\ log' = log \cup {NewEvent(c)} /\ NewEvent(c) \in Event
  BY StoreExtendsLog
<1>3. TypeOK' BY <1>1, <1>2, AnsweredStep DEF TypeOK
<1>4. answer \notin {"get", "write"} BY DEF Answers
<1>5. request' = request /\ cursor' = cursor /\ attempt' = attempt
  BY <1>1, AnsweredStep
<1>6. ASSUME NEW d \in Client
      PROVE  /\ request'[d].expected <= room'.revision
             /\ HeldByWrite(d)' /\ SecondAttempt(d)'
  <2>1. request[d].expected <= room.revision
    BY DEF IInv
  <2>2. CASE d = c
    BY <1>1, <1>2, <1>4, <1>5, <2>1, <2>2, AnsweredStep DEF HeldByWrite, SecondAttempt
  <2>3. CASE d # c
    BY <1>1, <1>2, <1>5, <2>1, <2>3, AnsweredStep DEF IInv, HeldByWrite, SecondAttempt
  <2> QED BY <2>2, <2>3
<1>7. ASSUME NEW d \in Client PROVE Confirmed(d)'
  <2>1. CASE d = c
    <3>1. answer = "ok" =>
            NewEvent(c) = [revision |-> revision, key |-> request[c].key,
                           fingerprint |-> request[c].fingerprint]
      BY DEF NewEvent
    <3> QED BY <1>1, <1>2, <1>5, <2>1, <3>1, AnsweredStep DEF Confirmed
  <2>2. CASE d # c
    <3>1. step'[d] = step[d] /\ position'[d] = position[d]
      BY <1>1, <2>2, AnsweredStep
    <3>2. Confirmed(d)
      BY DEF IInv
    <3> QED BY <1>2, <1>5, <3>1, <3>2 DEF Confirmed
  <2> QED BY <2>1, <2>2
<1>8. \A r \in Reader : cursor'[r] <= room'.revision
  BY <1>1, <1>2, <1>5 DEF IInv, TypeOK
<1> QED BY <1>3, <1>6, <1>7, <1>8, StoreExtendsLog DEF IInv

-----------------------------------------------------------------------------
(* The inductive invariant *)

\* The invariant holds of an empty room.
LEMMA InitEstablishes == Init => IInv
<1> SUFFICES ASSUME Init PROVE IInv
  OBVIOUS
<1>1. EmptyRoom \in Room
  BY DEF EmptyRoom, Room
<1>2. TypeOK
  BY <1>1 DEF Init, TypeOK, Request
<1>3. LogIsComplete
  BY DEF Init, LogIsComplete, EmptyRoom, Revisions, UniqueRevisions
<1>4. RoomIsWindow
  BY FS_EmptySet, TransportAssumption DEF Init, RoomIsWindow, EmptyRoom
<1>5. RetainedIsRecognised /\ UniqueKeys(room.events)
  BY DEF Init, RetainedIsRecognised, UniqueKeys, EmptyRoom
<1>6. \A c \in Client : /\ request[c].expected <= room.revision
                        /\ HeldByWrite(c) /\ SecondAttempt(c) /\ Confirmed(c)
  BY DEF Init, EmptyRoom, HeldByWrite, SecondAttempt, Confirmed
<1>7. \A r \in Reader : cursor[r] <= room.revision
  BY DEF Init, EmptyRoom
<1> QED BY <1>2, <1>3, <1>4, <1>5, <1>6, <1>7 DEF IInv

\* Every step of every append and poll preserves it.
LEMMA NextPreserves == IInv /\ [Next]_vars => IInv'
<1> SUFFICES ASSUME IInv, [Next]_vars PROVE IInv'
  OBVIOUS
<1>1. /\ TypeOK /\ room \in Room /\ room.revision \in Nat
      /\ room.events \subseteq log /\ log \subseteq Event
  BY RetainedIsLogged DEF IInv, TypeOK, Room
<1>2. "ok" \in Answers /\ "conflict" \in Answers /\ "quota_exceeded" \in Answers
      /\ "unavailable" \in Answers /\ "conflict" # "ok" /\ 0 \in Nat
  BY DEF Answers
<1>3. ASSUME NEW c \in Client, StartAppend(c) PROVE IInv'
  <2>1. PICK key \in Key, fingerprint \in Fingerprint, expected \in 0..room.revision :
          request' = [request EXCEPT ![c] =
            [key |-> key, fingerprint |-> fingerprint, expected |-> expected]]
    BY <1>3 DEF StartAppend
  <2>2. [key |-> key, fingerprint |-> fingerprint, expected |-> expected] \in Request
        /\ expected <= room.revision
    BY <1>1 DEF Request
  <2>3. TypeOK'
    BY <1>1, <1>3, <2>1, <2>2 DEF TypeOK, StartAppend
  <2>4. ASSUME NEW d \in Client
        PROVE  /\ request'[d].expected <= room'.revision
               /\ HeldByWrite(d)' /\ SecondAttempt(d)' /\ Confirmed(d)'
    <3>1. CASE d = c
      BY <1>1, <1>3, <2>1, <2>2, <3>1
         DEF TypeOK, StartAppend, HeldByWrite, SecondAttempt, Confirmed
    <3>2. CASE d # c
      BY <1>1, <1>3, <2>1, <3>2
         DEF IInv, TypeOK, StartAppend, HeldByWrite, SecondAttempt, Confirmed
    <3> QED BY <3>1, <3>2
  <2>5. room' = room /\ log' = log /\ cursor' = cursor
    BY <1>3 DEF StartAppend
  <2> QED BY <2>3, <2>4, <2>5, RoomUnchanged DEF IInv
<1>4. ASSUME NEW c \in Client, GetIdempotent(c) PROVE IInv'
  <2>1. PICK record \in Records(c), event \in room.events :
          /\ record.fingerprint = request[c].fingerprint
          /\ event.revision = record.revision
          /\ Answered(c, "ok", event.revision)
    BY <1>4 DEF GetIdempotent
  <2>2. record \in log /\ record \in Event /\ record.key = request[c].key
    BY <1>1 DEF Records, IInv, RetainedIsRecognised
  <2>3. record = [revision |-> event.revision, key |-> request[c].key,
                  fingerprint |-> request[c].fingerprint]
    BY <2>1, <2>2 DEF Event
  <2>4. event.revision \in Nat BY <1>1 DEF Event
  <2> QED BY <1>2, <1>4, <2>1, <2>2, <2>3, <2>4, AnswerPreserves DEF GetIdempotent
<1>5. ASSUME NEW c \in Client, GetKeyConflict(c) PROVE IInv'
  BY <1>2, <1>5, AnswerPreserves DEF GetKeyConflict
<1>6. ASSUME NEW c \in Client, GetStale(c) PROVE IInv'
  BY <1>2, <1>6, AnswerPreserves DEF GetStale
<1>7. ASSUME NEW c \in Client, GetTooLarge(c) PROVE IInv'
  BY <1>2, <1>7, AnswerPreserves DEF GetTooLarge
<1>8. ASSUME NEW c \in Client, GetForWrite(c) PROVE IInv'
  <2>1. TypeOK' BY <1>1, <1>8 DEF TypeOK, GetForWrite
  <2>2. attempt[c] = 0
    <3>1. attempt[c] \in 0..1 /\ request[c].expected \in Nat
      BY <1>1 DEF TypeOK, Request
    <3> QED BY <1>1, <1>8, <3>1 DEF IInv, SecondAttempt, GetForWrite
  <2>3. HeldByWrite(c)'
    BY <1>1, <1>8, <2>2 DEF TypeOK, GetForWrite, HeldByWrite, Records
  <2>4. \A d \in Client : /\ request[d].expected <= room.revision
                          /\ d # c => HeldByWrite(d)'
                          /\ SecondAttempt(d)' /\ Confirmed(d)'
    BY <1>1, <1>8, <2>2 DEF IInv, TypeOK, GetForWrite, HeldByWrite, SecondAttempt, Confirmed
  <2>5. UNCHANGED <<room, log, request, cursor>>
    BY <1>8 DEF GetForWrite
  <2> QED BY <2>1, <2>3, <2>4, <2>5, RoomUnchanged DEF IInv
<1>9. ASSUME NEW c \in Client, Write(c) PROVE IInv'
  <2>1. NewEvent(c).revision \in Nat
    BY <1>9, StoreExtendsLog DEF Write, Event
  <2> QED BY <1>2, <1>9, <2>1, StorePreserves DEF Write
<1>10. ASSUME NEW c \in Client, WriteUnanswered(c) PROVE IInv'
  BY <1>2, <1>10, StorePreserves DEF WriteUnanswered
<1>11. ASSUME NEW c \in Client, WriteRetried(c) PROVE IInv'
  <2>1. EmptyRoom \in Room BY DEF EmptyRoom, Room
  <2>2. TypeOK' BY <1>1, <1>11, <2>1 DEF TypeOK, WriteRetried
  <2>3. request[c].expected < room.revision
    <3>1. held[c].revision \in Nat BY <1>1 DEF TypeOK, Room
    <3> QED BY <1>1, <1>11, <3>1 DEF IInv, HeldByWrite, WriteRetried, Unchanged
  <2>4. \A d \in Client : /\ request[d].expected <= room.revision
                          /\ HeldByWrite(d)' /\ SecondAttempt(d)' /\ Confirmed(d)'
    BY <1>1, <1>11, <2>3
       DEF IInv, TypeOK, WriteRetried, HeldByWrite, SecondAttempt, Confirmed
  <2>5. UNCHANGED <<room, log, request, cursor>>
    BY <1>11 DEF WriteRetried
  <2> QED BY <2>2, <2>4, <2>5, RoomUnchanged DEF IInv
<1>12. ASSUME NEW c \in Client, StorageFails(c) PROVE IInv'
  BY <1>2, <1>12, AnswerPreserves DEF StorageFails
<1>13. ASSUME NEW r \in Reader, Poll(r) PROVE IInv'
  <2>1. Slice(cursor[r]) \subseteq Event /\ HistoryGap(cursor[r]) \in BOOLEAN
    BY <1>1 DEF Slice, Room, HistoryGap
  <2>2. TypeOK' BY <1>1, <1>13, <2>1 DEF TypeOK, Poll
  <2>3. \A d \in Client : /\ request'[d].expected <= room'.revision
                          /\ HeldByWrite(d)' /\ SecondAttempt(d)' /\ Confirmed(d)'
    BY <1>13 DEF IInv, Poll, HeldByWrite, SecondAttempt, Confirmed
  <2>4. \A s \in Reader : cursor'[s] <= room'.revision
    BY <1>1, <1>13 DEF IInv, TypeOK, Poll
  <2>5. UNCHANGED <<room, log>>
    BY <1>13 DEF Poll
  <2> QED BY <2>2, <2>3, <2>4, <2>5, RoomUnchanged DEF IInv
<1>14. CASE UNCHANGED vars
  <2>1. TypeOK' BY <1>1, <1>14 DEF vars, TypeOK
  <2>2. \A c \in Client : /\ request'[c].expected <= room'.revision
                          /\ HeldByWrite(c)' /\ SecondAttempt(c)' /\ Confirmed(c)'
    BY <1>14 DEF vars, IInv, HeldByWrite, SecondAttempt, Confirmed
  <2>3. UNCHANGED <<room, log, cursor>>
    BY <1>14 DEF vars
  <2> QED BY <2>1, <2>2, <2>3, RoomUnchanged DEF IInv
<1> QED
  BY <1>3, <1>4, <1>5, <1>6, <1>7, <1>8, <1>9, <1>10, <1>11, <1>12, <1>13, <1>14 DEF Next

\* The invariant holds in every reachable state.
LEMMA Invariance == Spec => []IInv
<1> QED BY InitEstablishes, NextPreserves, PTL DEF Spec

-----------------------------------------------------------------------------
(* What follows from it *)

\* Every room, request, answer and receipt has its type.
THEOREM TypeCorrect == Spec => []TypeOK
<1>1. IInv => TypeOK BY DEF IInv
<1> QED BY <1>1, Invariance, PTL

\* Every room append stores is one that roomFromDocument accepts.
THEOREM RoomStaysReadable == Spec => []RoomIsReadable
<1>1. IInv => RoomIsReadable
  <2> SUFFICES ASSUME IInv, room # EmptyRoom PROVE RoomIsReadable
    BY DEF RoomIsReadable
  <2>1. TypeOK /\ room \in Room /\ room.revision \in Nat
    BY DEF IInv, TypeOK, Room
  <2>2. PICK from \in Nat : WindowFrom(from)
    BY DEF IInv, RoomIsWindow
  <2>3. /\ Revisions(room.events) = from..room.revision
        /\ room.events # {}
    BY <2>1, <2>2, WindowRevisions DEF IInv
  <2>4. Cardinality(room.events) \in 1..Retained
    <3>1. IsFiniteSet(room.events) /\ Cardinality(room.events) <= Retained
      BY DEF IInv, RoomIsWindow
    <3>2. Cardinality(room.events) \in Nat /\ Cardinality(room.events) # 0
      BY <2>3, <3>1, FS_CardinalityType, FS_EmptySet
    <3> QED BY <3>1, <3>2, TransportAssumption
  <2>5. room.revision \in Revisions(room.events)
        /\ \A event \in room.events : event.revision <= room.revision
    BY <2>1, <2>2, <2>3 DEF WindowFrom, Revisions
  <2>6. \A x, y \in room.events : x.revision = y.revision => x = y
    BY RetainedIsLogged DEF IInv, LogIsComplete, UniqueRevisions
  <2>7. /\ room.idempotency = room.events
        /\ \A x, y \in room.idempotency : x.key = y.key => x = y
    BY DEF IInv, RetainedIsRecognised, UniqueKeys
  <2> QED BY <2>4, <2>5, <2>6, <2>7, TransportAssumption DEF RoomIsReadable
<1> QED BY <1>1, Invariance, PTL

\* The retained window is the end of the one log, whoever raced to append to it.
THEOREM WindowIsEndOfLog == Spec => []WindowEndsLog
<1>1. IInv => WindowEndsLog
  <2> SUFFICES ASSUME IInv PROVE room.events = {event \in log : event.revision >= RetainedFrom}
    BY DEF IInv, LogIsComplete, UniqueRevisions, WindowEndsLog
  <2>1. TypeOK /\ room.revision \in Nat
    BY DEF IInv, TypeOK, Room
  <2>2. CASE room.revision = 0
    BY <2>1, <2>2 DEF IInv, RoomIsWindow, EmptyRoom, LogIsComplete, Revisions
  <2>3. CASE room.revision # 0
    <3>1. PICK from \in Nat : WindowFrom(from)
      BY <2>3 DEF IInv, RoomIsWindow
    <3>2. RetainedFrom = from
      BY <2>1, <3>1, WindowRevisions DEF IInv
    <3> QED BY <3>1, <3>2 DEF WindowFrom, Evict
  <2> QED BY <2>2, <2>3
<1> QED BY <1>1, Invariance, PTL

\* A retry of an append whose event is retained always finds its record.
THEOREM RetainedStaysRecognised == Spec => []RetainedIsRecognised
<1>1. IInv => RetainedIsRecognised BY DEF IInv
<1> QED BY <1>1, Invariance, PTL

\* No append confirms an event that is not in the log at the revision it names.
THEOREM ConfirmedStaysLogged == Spec => []ConfirmedIsLogged
<1>1. IInv => ConfirmedIsLogged BY DEF IInv, Confirmed, ConfirmedIsLogged
<1> QED BY <1>1, Invariance, PTL

\* The second attempt of an append never stores its event.
THEOREM RetriesNeverWrite == Spec => []RetryNeverWrites
<1>1. IInv => RetryNeverWrites
  <2> SUFFICES ASSUME IInv, NEW c \in Client, attempt[c] = 1, step[c] = "write" PROVE FALSE
    BY DEF RetryNeverWrites
  <2> QED BY DEF IInv, HeldByWrite
<1> QED BY <1>1, Invariance, PTL

\* The limit of a poll cuts nothing off.
LEMMA SliceIsWhole ==
  ASSUME IInv, NEW after \in Nat
  PROVE  Slice(after) = {event \in room.events : event.revision > after}
<1> DEFINE later == {event \in room.events : event.revision > after}
<1>1. \A event \in room.events : event.revision \in Nat
  BY DEF IInv, TypeOK, Room, Event
<1>2. ASSUME NEW event \in later
      PROVE  Cardinality({e \in later : e.revision < event.revision}) < ReadLimit
  <2> DEFINE before == {e \in later : e.revision < event.revision}
  <2>1. IsFiniteSet(room.events) /\ Cardinality(room.events) <= Retained
    BY DEF IInv, RoomIsWindow
  <2>2. before \subseteq room.events /\ event \in room.events /\ event \notin before
    BY <1>1
  <2>3. /\ Cardinality(before) <= Cardinality(room.events)
        /\ Cardinality(before) = Cardinality(room.events) => before = room.events
        /\ IsFiniteSet(before)
    BY <2>1, <2>2, FS_Subset
  <2>4. Cardinality(before) \in Nat /\ Cardinality(room.events) \in Nat
    BY <2>1, <2>3, FS_CardinalityType
  <2> QED BY <2>1, <2>2, <2>3, <2>4, TransportAssumption
<1> QED BY <1>2 DEF Slice

\* A poll that reports no gap returns every event between its cursor and the room's
\* revision.
LEMMA SliceIsComplete ==
  ASSUME IInv, NEW after \in Nat, after > 0, after <= room.revision, ~HistoryGap(after)
  PROVE  Revisions(Slice(after)) = after + 1 .. room.revision
<1>1. /\ TypeOK /\ room.revision \in Nat /\ room.revision # 0
      /\ \A event \in room.events : event.revision \in Nat
  BY DEF IInv, TypeOK, Room, Event
<1>2. PICK from \in Nat : WindowFrom(from)
  BY <1>1 DEF IInv, RoomIsWindow
<1>3. Revisions(room.events) = from..room.revision /\ RetainedFrom = from
  BY <1>1, <1>2, WindowRevisions DEF IInv
<1>4. from <= after + 1
  BY <1>3 DEF HistoryGap
<1>5. Revisions({event \in room.events : event.revision > after}) = after + 1 .. room.revision
  BY <1>1, <1>3, <1>4 DEF Revisions
<1> QED BY <1>5, SliceIsWhole

\* After its first non-empty poll, a reader is given every event it has not seen,
\* or is told of the gap.
THEOREM PollsMissNothing == Spec => PollMissesNothing
<1> DEFINE Complete(r) ==
      cursor[r] > 0 /\ cursor'[r] # cursor[r] =>
        \/ receipt'[r].historyGap
        \/ Revisions(receipt'[r].events) = cursor[r] + 1 .. cursor'[r]
<1>1. IInv /\ [Next]_vars => \A r \in Reader : Complete(r)
  <2> SUFFICES ASSUME IInv, [Next]_vars, NEW r \in Reader,
                      cursor[r] > 0, cursor'[r] # cursor[r]
               PROVE  \/ receipt'[r].historyGap
                      \/ Revisions(receipt'[r].events) = cursor[r] + 1 .. cursor'[r]
    OBVIOUS
  <2>1. Poll(r)
    <3>1. cursor' # cursor OBVIOUS
    <3>2. PICK s \in Reader : Poll(s)
      BY <3>1 DEF Next, vars, StartAppend, GetIdempotent, GetKeyConflict, GetStale, GetTooLarge,
                  GetForWrite, Write, WriteUnanswered, WriteRetried, StorageFails, Answered
    <3>3. s = r
      BY <3>2 DEF Poll, IInv, TypeOK
    <3> QED BY <3>2, <3>3
  <2>2. /\ cursor[r] \in Nat /\ cursor[r] <= room.revision
        /\ cursor'[r] = room.revision
        /\ receipt'[r].historyGap = HistoryGap(cursor[r])
        /\ receipt'[r].events = Slice(cursor[r])
    BY <2>1 DEF Poll, IInv, TypeOK
  <2>3. CASE HistoryGap(cursor[r])
    BY <2>2, <2>3
  <2>4. CASE ~HistoryGap(cursor[r])
    BY <2>2, <2>4, SliceIsComplete
  <2> QED BY <2>3, <2>4
<1>2. [Next]_vars /\ IInv => [\A r \in Reader : Complete(r)]_vars
  BY <1>1
<1> QED BY <1>2, Invariance, PTL DEF Spec, PollMissesNothing

-----------------------------------------------------------------------------
(* The room is one log *)

\* The log that callers see has one event of each revision.
LogFits ==
  /\ room.revision \in Nat
  /\ LogSeen \in Seq(Log!Event) /\ Len(LogSeen) = room.revision
  /\ \A event \in log :
       /\ event.revision \in 1..room.revision
       /\ LogSeen[event.revision] = [key |-> event.key, fingerprint |-> event.fingerprint]
  /\ \A i \in 1..room.revision : \E event \in log : event.revision = i

\* What is retained of it are its last events, no more than the room may hold.
WindowFits ==
  /\ FirstSeen \in Nat \ {0} /\ FirstSeen <= room.revision + 1
  /\ room.revision # 0 => FirstSeen <= room.revision
  /\ room.events = {event \in log : event.revision >= FirstSeen}
  /\ room.revision + 1 - FirstSeen <= Retained

LEMMA LogSeenFits == IInv => LogFits
<1> SUFFICES ASSUME IInv PROVE LogFits
  OBVIOUS
<1>1. /\ room.revision \in Nat /\ LogIsComplete
      /\ \A event \in log : event \in Event /\ event.key \in Key /\ event.fingerprint \in Fingerprint
  BY DEF IInv, TypeOK, Room, Event
<1>2. \A i \in 1..room.revision : \E event \in log : event.revision = i
  BY <1>1 DEF LogIsComplete, Revisions
<1>3. ASSUME NEW event \in log
      PROVE  /\ event.revision \in 1..room.revision
             /\ EventAt(event.revision) = [key |-> event.key, fingerprint |-> event.fingerprint]
  <2>1. event.revision \in 1..room.revision
    BY <1>1 DEF LogIsComplete, Revisions
  <2>2. (CHOOSE e \in log : e.revision = event.revision) = event
    BY <1>1 DEF LogIsComplete, UniqueRevisions
  <2> QED BY <2>1, <2>2 DEF EventAt
<1>4. \A i \in 1..room.revision : EventAt(i) \in Log!Event
  <2> TAKE i \in 1..room.revision
  <2>1. PICK event \in log : event.revision = i
    BY <1>2
  <2>2. EventAt(i) = [key |-> event.key, fingerprint |-> event.fingerprint]
    BY <1>3, <2>1
  <2>3. event.key \in Key /\ event.fingerprint \in Fingerprint
    BY <1>1
  <2> QED BY <2>2, <2>3 DEF Log!Event
<1>5. LogSeen \in Seq(Log!Event) /\ Len(LogSeen) = room.revision
  BY <1>1, <1>4 DEF LogSeen
<1> QED BY <1>1, <1>2, <1>3, <1>5 DEF LogSeen, LogFits

LEMMA WindowSeenFits == IInv => WindowFits
<1> SUFFICES ASSUME IInv PROVE WindowFits
  OBVIOUS
<1>1. TypeOK /\ room.revision \in Nat /\ \A event \in log : event.revision \in 1..room.revision
  BY LogSeenFits DEF IInv, LogFits
<1>2. CASE room.revision = 0
  <2>1. room.events = {} /\ log = {}
    BY <1>1, <1>2 DEF IInv, RoomIsWindow, EmptyRoom
  <2> QED BY <1>2, <2>1, TransportAssumption DEF FirstSeen, WindowFits
<1>3. CASE room.revision # 0
  <2>1. PICK from \in Nat : WindowFrom(from)
    BY <1>3 DEF IInv, RoomIsWindow
  <2>2. /\ Revisions(room.events) = from..room.revision /\ FirstSeen = from
        /\ from \in 1..room.revision /\ room.events = {event \in log : event.revision >= from}
    BY <1>1, <2>1, WindowRevisions DEF IInv, FirstSeen, WindowFrom, Evict
  <2> DEFINE eventOf == [i \in from..room.revision |-> CHOOSE event \in room.events : event.revision = i]
  <2>3. ASSUME NEW i \in from..room.revision
        PROVE  eventOf[i] \in room.events /\ eventOf[i].revision = i
    BY <2>2, <2>3 DEF Revisions
  <2>4. eventOf \in [from..room.revision -> room.events]
    BY <2>3
  <2> HIDE DEF eventOf
  <2>5. eventOf \in Injection(from..room.revision, room.events)
    BY <2>3, <2>4 DEF Injection, IsInjective
  <2>6. /\ IsFiniteSet(room.events) /\ Cardinality(room.events) <= Retained
        /\ Cardinality(room.events) \in Nat
    BY FS_CardinalityType DEF IInv, RoomIsWindow
  <2>7. Cardinality(from..room.revision) <= Cardinality(room.events)
    BY <2>5, <2>6, FS_Injection
  <2>8. Cardinality(from..room.revision) = room.revision - from + 1
    BY <1>1, <2>2, FS_Interval
  <2>9. room.revision + 1 - from <= Retained
    BY <1>1, <2>2, <2>6, <2>7, <2>8, TransportAssumption
  <2> QED BY <1>1, <2>2, <2>9 DEF WindowFits
<1> QED BY <1>2, <1>3

\* Both hold after a step too.
LEMMA SeenNextFits == IInv' => LogFits' /\ WindowFits'
BY LogSeenFits, WindowSeenFits, PTL

\* The records are of the retained events under their keys.
LEMMA KeptIsRecorded ==
  ASSUME IInv, NEW c \in Client
  PROVE  Log!KeptAs(request[c].key) = {record.revision : record \in Records(c)}
<1>1. /\ room.revision \in Nat /\ Len(LogSeen) = room.revision
      /\ \A event \in log :
           event.revision \in 1..room.revision /\ LogSeen[event.revision].key = event.key
      /\ \A i \in 1..room.revision : \E event \in log : event.revision = i
  <2>1. LogFits
    BY LogSeenFits
  <2>2. ASSUME NEW event \in log
        PROVE  event.revision \in 1..room.revision /\ LogSeen[event.revision].key = event.key
    <3>1. LogSeen[event.revision] = [key |-> event.key, fingerprint |-> event.fingerprint]
      BY <2>1 DEF LogFits
    <3> QED BY <2>1, <3>1 DEF LogFits
  <2> QED BY <2>1, <2>2 DEF LogFits
<1>2. /\ FirstSeen \in Nat \ {0}
      /\ room.idempotency = {event \in log : event.revision >= FirstSeen}
  BY WindowSeenFits DEF WindowFits, IInv, RetainedIsRecognised
<1>3. ASSUME NEW record \in Records(c) PROVE record.revision \in Log!KeptAs(request[c].key)
  <2>1. record \in log /\ record.revision >= FirstSeen /\ record.key = request[c].key
    BY <1>2, <1>3 DEF Records
  <2>2. record.revision \in FirstSeen..Len(LogSeen) /\ record.revision > 0
    BY <1>1, <1>2, <2>1
  <2> QED BY <1>1, <2>1, <2>2 DEF Log!KeptAs, Log!Window
<1>4. ASSUME NEW i \in Log!KeptAs(request[c].key)
      PROVE  \E record \in Records(c) : record.revision = i
  <2>1. i \in FirstSeen..Len(LogSeen) /\ LogSeen[i].key = request[c].key
    BY <1>4 DEF Log!KeptAs, Log!Window
  <2>2. i \in 1..room.revision /\ i >= FirstSeen
    BY <1>1, <1>2, <2>1
  <2>3. PICK event \in log : event.revision = i
    BY <1>1, <2>2
  <2>4. event \in room.idempotency /\ event.key = request[c].key
    BY <1>1, <1>2, <2>1, <2>2, <2>3
  <2> QED BY <2>3, <2>4 DEF Records
<1> QED BY <1>3, <1>4

\* A step that leaves the room alone leaves the log as it was seen.
LEMMA SeenUnchanged ==
  ASSUME UNCHANGED <<room, log>>
  PROVE  LogSeen' = LogSeen /\ FirstSeen' = FirstSeen
<1>1. room' = room /\ log' = log
  OBVIOUS
<1>2. ASSUME NEW i PROVE EventAt(i)' = EventAt(i)
  BY <1>1 DEF EventAt
<1>3. LogSeen' = LogSeen
  BY <1>1, <1>2 DEF LogSeen
<1>4. FirstSeen' = FirstSeen
  BY <1>1 DEF FirstSeen, RetainedFrom, Revisions
<1> QED BY <1>3, <1>4

\* An answer ends the call as its log answers it.
LEMMA AnswerSeen ==
  ASSUME TypeOK, NEW c \in Client, Busy(c), NEW answer \in Answers, NEW revision \in Nat,
         Answered(c, answer, revision)
  PROVE  Log!Answer(c, answer, revision)
<1>1. /\ step' = [step EXCEPT ![c] = answer]
      /\ position' = [position EXCEPT ![c] = revision]
      /\ request' = request /\ cursor' = cursor /\ receipt' = receipt
  BY DEF Answered
<1>2. answer \notin {"get", "write"}
  BY DEF Answers
<1>3. CallSeen(c)' = [event |-> CallSeen(c).event, expected |-> CallSeen(c).expected,
                      status |-> answer, position |-> revision]
  <2>1. step'[c] = answer /\ position'[c] = revision
    BY <1>1 DEF TypeOK
  <2>2. CallSeen(c)' = [event    |-> [key |-> request[c].key,
                                     fingerprint |-> request[c].fingerprint],
                        expected |-> request[c].expected,
                        status   |-> answer, position |-> revision]
    BY <1>1, <1>2, <2>1 DEF CallSeen, Busy
  <2> QED BY <2>2 DEF CallSeen
<1>4. ASSUME NEW d \in Client, d # c PROVE CallSeen(d)' = CallSeen(d)
  BY <1>1, <1>4 DEF TypeOK, CallSeen, Busy
<1>5. CallsSeen' = [CallsSeen EXCEPT ![c] = [event |-> @.event, expected |-> @.expected,
                                             status |-> answer, position |-> revision]]
  <2>1. CallsSeen = [d \in Client |-> CallSeen(d)] /\ CallsSeen' = [d \in Client |-> CallSeen(d)']
    BY DEF CallsSeen
  <2> QED BY <1>3, <1>4, <2>1
<1>6. CallsSeen[c].status = "pending"
  BY DEF CallsSeen, CallSeen
<1> QED BY <1>1, <1>5, <1>6 DEF Log!Answer

\* A step from one store call to the next is none of the log's.
LEMMA CallKept ==
  ASSUME TypeOK, NEW c \in Client, Busy(c), NEW next \in {"get", "write"},
         step' = [step EXCEPT ![c] = next], UNCHANGED <<request, position>>
  PROVE  CallsSeen' = CallsSeen
<1>1. ASSUME NEW d \in Client PROVE CallSeen(d)' = CallSeen(d)
  <2>1. CASE d = c
    BY <2>1 DEF TypeOK, Busy, CallSeen
  <2>2. CASE d # c
    BY <2>2 DEF TypeOK, Busy, CallSeen
  <2> QED BY <2>1, <2>2
<1> QED BY <1>1 DEF CallsSeen

\* An append is invoked.
LEMMA StartAppendInvokes ==
  ASSUME IInv, NEW c \in Client, StartAppend(c)
  PROVE  Log!Invoke(c)
<1>1. TypeOK /\ Len(LogSeen) = room.revision
  BY LogSeenFits DEF IInv, LogFits
<1>2. PICK key \in Key, fingerprint \in Fingerprint, expected \in 0..room.revision :
        request' = [request EXCEPT ![c] =
          [key |-> key, fingerprint |-> fingerprint, expected |-> expected]]
  BY DEF StartAppend
<1> DEFINE event == [key |-> key, fingerprint |-> fingerprint]
           invoked == [event |-> event, expected |-> expected, status |-> "pending", position |-> 0]
<1>3. CallSeen(c)' = invoked
  <2>1. /\ request'[c] = [key |-> key, fingerprint |-> fingerprint, expected |-> expected]
        /\ step'[c] = "get" /\ position'[c] = 0
    BY <1>1, <1>2 DEF TypeOK, StartAppend
  <2> QED BY <2>1 DEF CallSeen, Busy
<1>4. ASSUME NEW d \in Client, d # c PROVE CallSeen(d)' = CallSeen(d)
  BY <1>1, <1>2, <1>4 DEF TypeOK, StartAppend, CallSeen, Busy
<1>5. CallsSeen' = [CallsSeen EXCEPT ![c] = invoked]
  <2>1. CallsSeen = [d \in Client |-> CallSeen(d)] /\ CallsSeen' = [d \in Client |-> CallSeen(d)']
    BY DEF CallsSeen
  <2> HIDE DEF invoked
  <2> QED BY <1>3, <1>4, <2>1
<1>6. CallsSeen[c].status # "pending"
  <2>1. step[c] # "pending"
    BY <1>1 DEF TypeOK, Answers
  <2> QED BY <2>1 DEF StartAppend, CallsSeen, CallSeen
<1>7. LogSeen' = LogSeen /\ FirstSeen' = FirstSeen /\ cursor' = cursor /\ receipt' = receipt
  BY SeenUnchanged DEF StartAppend
<1>8. Len(LogSeen) < MaxRevision /\ expected \in 0..Len(LogSeen) /\ event \in Log!Event
  BY <1>1 DEF StartAppend, Log!Event
<1> QED BY <1>5, <1>6, <1>7, <1>8 DEF Log!Invoke

\* What a busy client's call asks for.
LEMMA BusyCall ==
  ASSUME NEW c \in Client
  PROVE  /\ CallsSeen[c].event = [key |-> request[c].key, fingerprint |-> request[c].fingerprint]
         /\ CallsSeen[c].event.key = request[c].key
         /\ CallsSeen[c].event.fingerprint = request[c].fingerprint
         /\ CallsSeen[c].expected = request[c].expected
BY DEF CallsSeen, CallSeen

\* A record of the key and the event it names are one and the same retained event.
LEMMA RecordedEvent ==
  ASSUME IInv, NEW c \in Client, NEW record \in Records(c)
  PROVE  /\ record \in log /\ record \in room.events /\ record.revision \in Nat
         /\ record.revision \in Log!KeptAs(CallsSeen[c].event.key)
         /\ LogSeen[record.revision] = [key |-> request[c].key, fingerprint |-> record.fingerprint]
         /\ LogSeen[record.revision].fingerprint = record.fingerprint
<1>1. record \in room.events /\ record.key = request[c].key
  BY DEF Records, IInv, RetainedIsRecognised
<1>2. record \in log
  BY <1>1, RetainedIsLogged DEF IInv
<1>3. LogSeen[record.revision] = [key |-> request[c].key, fingerprint |-> record.fingerprint]
      /\ record.revision \in Nat
  BY <1>1, <1>2, LogSeenFits DEF LogFits
<1>4. record.revision \in Log!KeptAs(CallsSeen[c].event.key)
  <2>1. CallsSeen[c].event.key = request[c].key
    BY BusyCall
  <2>2. Log!KeptAs(request[c].key) = {r.revision : r \in Records(c)}
    BY KeptIsRecorded
  <2> QED BY <2>1, <2>2
<1>5. LogSeen[record.revision].fingerprint = record.fingerprint
  BY <1>3
<1> QED BY <1>1, <1>2, <1>3, <1>4, <1>5

LEMMA GetIdempotentReplays ==
  ASSUME IInv, NEW c \in Client, GetIdempotent(c)
  PROVE  Log!Replay(c)
<1>1. PICK record \in Records(c), event \in room.events :
        /\ record.fingerprint = request[c].fingerprint
        /\ event.revision = record.revision
        /\ Answered(c, "ok", event.revision)
  BY DEF GetIdempotent
<1>2. LogSeen[record.revision] = CallsSeen[c].event
      /\ record.revision \in Log!KeptAs(CallsSeen[c].event.key)
  <2>1. /\ record.revision \in Log!KeptAs(CallsSeen[c].event.key)
        /\ LogSeen[record.revision] = [key |-> request[c].key, fingerprint |-> record.fingerprint]
    BY <1>1, RecordedEvent
  <2>2. CallsSeen[c].event = [key |-> request[c].key, fingerprint |-> request[c].fingerprint]
    BY BusyCall
  <2> QED BY <1>1, <2>1, <2>2
<1>3. Log!Answer(c, "ok", record.revision)
  BY <1>1, RecordedEvent, AnswerSeen DEF IInv, GetIdempotent, Busy, Answers
<1>4. LogSeen' = LogSeen /\ FirstSeen' = FirstSeen
  BY SeenUnchanged DEF GetIdempotent
<1> QED BY <1>2, <1>3, <1>4 DEF Log!Replay

\* The event of a record is always retained, so only the key of another event conflicts.
LEMMA GetKeyConflictIsTaken ==
  ASSUME IInv, NEW c \in Client, GetKeyConflict(c)
  PROVE  Log!KeyTaken(c)
<1>1. PICK record \in Records(c) : \/ record.fingerprint # request[c].fingerprint
                                   \/ record.revision \notin Revisions(room.events)
  BY DEF GetKeyConflict
<1>2. record.fingerprint # request[c].fingerprint
  BY <1>1, RecordedEvent DEF Revisions
<1>3. LogSeen[record.revision].fingerprint # CallsSeen[c].event.fingerprint
  <2>1. LogSeen[record.revision].fingerprint = record.fingerprint
    BY <1>1, RecordedEvent
  <2>2. CallsSeen[c].event.fingerprint = request[c].fingerprint
    BY BusyCall
  <2> QED BY <1>2, <2>1, <2>2
<1>4. \E i \in Log!KeptAs(CallsSeen[c].event.key) : LogSeen[i] # CallsSeen[c].event
  BY <1>3, RecordedEvent
<1>5. Log!Answer(c, "conflict", 0)
  BY AnswerSeen DEF IInv, GetKeyConflict, Busy, Answers
<1>6. LogSeen' = LogSeen /\ FirstSeen' = FirstSeen
  BY SeenUnchanged DEF GetKeyConflict
<1> QED BY <1>4, <1>5, <1>6 DEF Log!KeyTaken

\* Without a record of its key, an append is expected at its revision only.
LEMMA UnrecordedCall ==
  ASSUME IInv, NEW c \in Client, Records(c) = {}
  PROVE  /\ Log!KeptAs(CallsSeen[c].event.key) = {}
         /\ Log!Expected(c) <=> request[c].expected = room.revision
         /\ CallsSeen[c].expected # Len(LogSeen) <=> request[c].expected # room.revision
<1>1. Log!KeptAs(CallsSeen[c].event.key) = {}
  BY KeptIsRecorded, BusyCall
<1>2. Len(LogSeen) = room.revision /\ CallsSeen[c].expected = request[c].expected
  BY LogSeenFits, BusyCall DEF LogFits
<1> QED BY <1>1, <1>2 DEF Log!Expected

LEMMA GetStaleIsStale ==
  ASSUME IInv, NEW c \in Client, GetStale(c)
  PROVE  Log!Stale(c)
<1>1. Log!Answer(c, "conflict", 0)
  BY AnswerSeen DEF IInv, GetStale, Busy, Answers
<1>2. LogSeen' = LogSeen /\ FirstSeen' = FirstSeen
  BY SeenUnchanged DEF GetStale
<1> QED BY <1>1, <1>2, UnrecordedCall DEF GetStale, Log!Stale

LEMMA GetTooLargeIsRefused ==
  ASSUME IInv, NEW c \in Client, GetTooLarge(c)
  PROVE  Log!TooLarge(c)
<1>1. Log!Answer(c, "quota_exceeded", 0)
  BY AnswerSeen DEF IInv, GetTooLarge, Busy, Answers
<1>2. LogSeen' = LogSeen /\ FirstSeen' = FirstSeen
  BY SeenUnchanged DEF GetTooLarge
<1> QED BY <1>1, <1>2, UnrecordedCall DEF GetTooLarge, Log!TooLarge

LEMMA StorageFailsFails ==
  ASSUME IInv, NEW c \in Client, StorageFails(c)
  PROVE  Log!Fail(c)
<1>1. Log!Answer(c, "unavailable", 0)
  BY AnswerSeen DEF IInv, StorageFails, Answers
<1>2. LogSeen' = LogSeen /\ FirstSeen' = FirstSeen
  BY SeenUnchanged DEF StorageFails
<1> QED BY <1>1, <1>2 DEF Log!Fail

\* A stored event is the log's next, and what is retained ends with it.
LEMMA StoreAppends ==
  ASSUME IInv, IInv', NEW c \in Client, Store(c)
  PROVE  Log!AppendEvent(c)
<1> DEFINE new == [key |-> request[c].key, fingerprint |-> request[c].fingerprint]
<1>1. /\ room.revision \in Nat /\ room'.revision = room.revision + 1
      /\ log' = log \cup {NewEvent(c)} /\ NewEvent(c).revision = room.revision + 1
  BY StoreExtendsLog, LogSeenFits DEF LogFits
<1>2. LogFits /\ LogFits' /\ WindowFits /\ WindowFits'
  BY LogSeenFits, WindowSeenFits, SeenNextFits
<1>3. Log!Expected(c)
  <2>1. /\ held[c] = room /\ request[c].expected = room.revision
        /\ \A record \in room.idempotency : record.key # request[c].key
    BY DEF IInv, HeldByWrite, Store, Unchanged
  <2>2. Records(c) = {}
    BY <2>1 DEF Records
  <2> QED BY <2>1, <2>2, UnrecordedCall
<1>4. LogSeen' = Append(LogSeen, CallsSeen[c].event)
  <2>1. /\ LogSeen \in Seq(Log!Event) /\ Len(LogSeen) = room.revision
        /\ LogSeen' \in Seq(Log!Event) /\ Len(LogSeen') = room.revision + 1
    BY <1>1, <1>2 DEF LogFits
  <2>2. ASSUME NEW i \in 1..room.revision PROVE LogSeen'[i] = LogSeen[i]
    <3>1. PICK event \in log : event.revision = i
      BY <1>2 DEF LogFits
    <3>2. LogSeen[i] = [key |-> event.key, fingerprint |-> event.fingerprint]
      BY <1>2, <3>1 DEF LogFits
    <3>3. LogSeen'[i] = [key |-> event.key, fingerprint |-> event.fingerprint]
      BY <1>1, <1>2, <3>1 DEF LogFits
    <3> QED BY <3>2, <3>3
  <2>3. LogSeen'[room.revision + 1] = new
    <3>1. NewEvent(c).key = request[c].key /\ NewEvent(c).fingerprint = request[c].fingerprint
      BY DEF NewEvent
    <3>2. NewEvent(c) \in log'
      BY <1>1
    <3>3. LogSeen'[NewEvent(c).revision]
            = [key |-> NewEvent(c).key, fingerprint |-> NewEvent(c).fingerprint]
      BY <1>2, <3>2 DEF LogFits
    <3> QED BY <1>1, <3>1, <3>3
  <2>4. CallsSeen[c].event = new
    BY BusyCall
  <2>5. new \in Log!Event
    BY DEF IInv, TypeOK, Request, Log!Event
  <2> HIDE DEF new
  <2>6. LogSeen' = Append(LogSeen, new)
    BY <1>1, <2>1, <2>2, <2>3, <2>5
  <2> QED BY <2>4, <2>6
<1>5. FirstSeen' \in FirstSeen..Len(LogSeen) + 1
  <2>1. /\ FirstSeen \in Nat \ {0} /\ FirstSeen <= room.revision + 1
        /\ FirstSeen' \in Nat \ {0} /\ FirstSeen' <= room.revision + 1
        /\ Len(LogSeen) = room.revision
    BY <1>1, <1>2 DEF WindowFits, LogFits
  <2>2. SUFFICES ASSUME FirstSeen' < FirstSeen PROVE FALSE
    BY <1>1, <2>1
  <2>3. PICK event \in log : event.revision = FirstSeen'
    <3>1. FirstSeen' \in 1..room.revision
      BY <1>1, <2>1, <2>2
    <3> QED BY <1>2, <3>1 DEF LogFits
  <2>4. event \in room'.events
    BY <1>1, <1>2, <2>3, <2>1 DEF WindowFits
  <2>5. room'.events \subseteq room.events \cup {NewEvent(c)}
    BY DEF Store, NextRoom, Evict, IInv, HeldByWrite, Unchanged
  <2>6. event \notin room.events
    BY <1>2, <2>1, <2>2, <2>3 DEF WindowFits
  <2>7. event # NewEvent(c)
    BY <1>1, <2>1, <2>2, <2>3
  <2> QED BY <2>4, <2>5, <2>6, <2>7
<1>6. Len(LogSeen) + 1 - FirstSeen' < Retained
  <2>1. /\ Len(LogSeen) = room.revision /\ FirstSeen' \in Nat
        /\ room'.revision + 1 - FirstSeen' <= Retained
    BY <1>2 DEF WindowFits, LogFits
  <2> QED BY <1>1, <2>1, TransportAssumption
<1> QED BY <1>3, <1>4, <1>5, <1>6 DEF Log!AppendEvent

LEMMA WriteCommits ==
  ASSUME IInv, IInv', NEW c \in Client, Write(c)
  PROVE  Log!Commit(c)
<1>1. Log!AppendEvent(c)
  BY StoreAppends DEF Write
<1>2. NewEvent(c).revision = Len(LogSeen) + 1 /\ Len(LogSeen) \in Nat
  BY StoreExtendsLog, LogSeenFits DEF Write, LogFits
<1>3. Log!Answer(c, "ok", NewEvent(c).revision)
  <2>1. NewEvent(c).revision \in Nat /\ TypeOK /\ "ok" \in Answers
    BY <1>2 DEF IInv, Answers
  <2> QED BY <2>1, AnswerSeen DEF Write, Store, Busy
<1> QED BY <1>1, <1>2, <1>3 DEF Log!Commit

LEMMA WriteUnansweredCommits ==
  ASSUME IInv, IInv', NEW c \in Client, WriteUnanswered(c)
  PROVE  Log!CommitUnanswered(c)
<1>1. Log!AppendEvent(c)
  BY StoreAppends DEF WriteUnanswered
<1>2. Log!Answer(c, "unavailable", 0)
  BY AnswerSeen DEF IInv, WriteUnanswered, Store, Busy, Answers
<1> QED BY <1>1, <1>2 DEF Log!CommitUnanswered

\* A poll reads the retained end of the log.
LEMMA PollReads ==
  ASSUME IInv, NEW r \in Reader, Poll(r)
  PROVE  Log!Read(r)
<1>1. LogFits /\ WindowFits /\ TypeOK /\ cursor[r] \in Nat
  BY LogSeenFits, WindowSeenFits DEF IInv, TypeOK
<1>2. Slice(cursor[r]) = {event \in room.events : event.revision > cursor[r]}
  BY <1>1, SliceIsWhole
<1>3. ASSUME NEW event \in log PROVE Log!Numbered(event.revision) = event
  <2>1. /\ LogSeen[event.revision].key = event.key
        /\ LogSeen[event.revision].fingerprint = event.fingerprint
    <3>1. LogSeen[event.revision] = [key |-> event.key, fingerprint |-> event.fingerprint]
      BY <1>1 DEF LogFits
    <3> QED BY <3>1
  <2>2. event = [revision |-> event.revision, key |-> event.key,
                 fingerprint |-> event.fingerprint]
    BY <1>1 DEF TypeOK, Event
  <2> QED BY <2>1, <2>2 DEF Log!Numbered
<1>4. Slice(cursor[r]) = {Log!Numbered(i) : i \in Log!Window(cursor[r])}
  <2>1. ASSUME NEW event \in Slice(cursor[r])
        PROVE  \E i \in Log!Window(cursor[r]) : event = Log!Numbered(i)
    <3>1. /\ event \in log /\ event.revision >= FirstSeen /\ event.revision > cursor[r]
          /\ event.revision \in 1..room.revision
      BY <1>1, <1>2, <2>1 DEF WindowFits, LogFits
    <3>2. event.revision \in Log!Window(cursor[r])
      BY <1>1, <3>1 DEF Log!Window, WindowFits, LogFits
    <3> QED BY <1>3, <3>1, <3>2
  <2>2. ASSUME NEW i \in Log!Window(cursor[r])
        PROVE  Log!Numbered(i) \in Slice(cursor[r])
    <3>1. i \in 1..room.revision /\ i >= FirstSeen /\ i > cursor[r]
      BY <1>1, <2>2 DEF Log!Window, WindowFits, LogFits
    <3>2. PICK event \in log : event.revision = i
      BY <1>1, <3>1 DEF LogFits
    <3>3. event \in Slice(cursor[r])
      BY <1>1, <1>2, <3>1, <3>2 DEF WindowFits
    <3> QED BY <1>3, <3>2, <3>3
  <2> QED BY <2>1, <2>2
<1>5. HistoryGap(cursor[r]) <=> cursor[r] > 0 /\ FirstSeen > cursor[r] + 1
  <2>1. CASE room.events = {}
    BY <1>1, <2>1 DEF HistoryGap, RetainedFrom, FirstSeen
  <2>2. CASE room.events # {}
    BY <2>2 DEF HistoryGap, FirstSeen
  <2> QED BY <2>1, <2>2
<1>6. /\ cursor' = [cursor EXCEPT ![r] = Len(LogSeen)]
      /\ receipt' = [receipt EXCEPT ![r] =
           [historyGap |-> cursor[r] > 0 /\ FirstSeen > cursor[r] + 1,
            events |-> {Log!Numbered(i) : i \in Log!Window(cursor[r])}]]
  <2>1. HistoryGap(cursor[r]) = (cursor[r] > 0 /\ FirstSeen > cursor[r] + 1)
    BY <1>5 DEF HistoryGap
  <2> QED BY <1>1, <1>4, <2>1 DEF Poll, LogFits
<1>7. LogSeen' = LogSeen /\ FirstSeen' = FirstSeen
  BY SeenUnchanged DEF Poll
<1>8. CallsSeen' = CallsSeen
  BY DEF Poll, CallsSeen, CallSeen, Busy
<1> QED BY <1>6, <1>7, <1>8 DEF Log!Read

\* The empty room is the empty log.
LEMMA InitIsLogInit == Init => Log!Init
<1> SUFFICES ASSUME Init PROVE Log!Init
  OBVIOUS
<1>1. IInv /\ room.revision = 0 /\ room.events = {}
  BY InitEstablishes DEF Init, EmptyRoom
<1>2. LogSeen = <<>> /\ FirstSeen = 1
  <2>1. LogSeen \in Seq(Log!Event) /\ Len(LogSeen) = 0
    BY <1>1, LogSeenFits DEF LogFits
  <2> QED BY <1>1, <2>1 DEF FirstSeen
<1>3. CallsSeen \in [Client -> [event : Log!Event, expected : {0}, status : {"idle"},
                                position : {0}]]
  <2>1. ASSUME NEW c \in Client
        PROVE  CallSeen(c) \in [event : Log!Event, expected : {0}, status : {"idle"},
                                position : {0}]
    <3>1. /\ request[c].key \in Key /\ request[c].fingerprint \in Fingerprint
          /\ request[c].expected = 0 /\ step[c] = "idle" /\ position[c] = 0
      BY DEF Init
    <3> QED BY <3>1 DEF CallSeen, Busy, Log!Event
  <2> QED BY <2>1 DEF CallsSeen
<1> QED BY <1>2, <1>3 DEF Init, Log!Init

\* Every step of the transport is one of the log's, or none.
LEMMA NextIsLogNext == IInv /\ IInv' /\ [Next]_vars => [Log!Next]_(Log!logVars)
<1> SUFFICES ASSUME IInv, IInv', [Next]_vars PROVE [Log!Next]_(Log!logVars)
  OBVIOUS
<1>1. TypeOK
  BY DEF IInv
<1>2. ASSUME NEW c \in Client, StartAppend(c) PROVE Log!Next
  BY <1>2, StartAppendInvokes DEF Log!Next
<1>3. ASSUME NEW c \in Client, GetIdempotent(c) PROVE Log!Next
  BY <1>3, GetIdempotentReplays DEF Log!Next
<1>4. ASSUME NEW c \in Client, GetKeyConflict(c) PROVE Log!Next
  BY <1>4, GetKeyConflictIsTaken DEF Log!Next
<1>5. ASSUME NEW c \in Client, GetStale(c) PROVE Log!Next
  BY <1>5, GetStaleIsStale DEF Log!Next
<1>6. ASSUME NEW c \in Client, GetTooLarge(c) PROVE Log!Next
  BY <1>6, GetTooLargeIsRefused DEF Log!Next
<1>7. ASSUME NEW c \in Client, GetForWrite(c) PROVE UNCHANGED Log!logVars
  <2>1. CallsSeen' = CallsSeen
    BY <1>1, <1>7, CallKept DEF GetForWrite, Busy
  <2> QED BY <1>7, <2>1, SeenUnchanged DEF GetForWrite, Log!logVars
<1>8. ASSUME NEW c \in Client, Write(c) PROVE Log!Next
  BY <1>8, WriteCommits DEF Log!Next
<1>9. ASSUME NEW c \in Client, WriteUnanswered(c) PROVE Log!Next
  BY <1>9, WriteUnansweredCommits DEF Log!Next
<1>10. ASSUME NEW c \in Client, WriteRetried(c) PROVE UNCHANGED Log!logVars
  <2>1. CallsSeen' = CallsSeen
    BY <1>1, <1>10, CallKept DEF WriteRetried, Busy
  <2> QED BY <1>10, <2>1, SeenUnchanged DEF WriteRetried, Log!logVars
<1>11. ASSUME NEW c \in Client, StorageFails(c) PROVE Log!Next
  BY <1>11, StorageFailsFails DEF Log!Next
<1>12. ASSUME NEW r \in Reader, Poll(r) PROVE Log!Next
  BY <1>12, PollReads DEF Log!Next
<1>13. CASE UNCHANGED vars
  <2>1. LogSeen' = LogSeen /\ FirstSeen' = FirstSeen /\ cursor' = cursor /\ receipt' = receipt
    BY <1>13, SeenUnchanged DEF vars
  <2>2. CallsSeen' = CallsSeen
    BY <1>13 DEF vars, CallsSeen, CallSeen, Busy
  <2> QED BY <2>1, <2>2 DEF Log!logVars
<1> QED BY <1>2, <1>3, <1>4, <1>5, <1>6, <1>7, <1>8, <1>9, <1>10, <1>11, <1>12, <1>13 DEF Next

\* However many clients race and retry, each append takes effect, or is refused, as
\* if it were one atomic step on one log, and a poll returns the retained end of it.
THEOREM RoomIsOneLog == Spec => ImplementsLog
<1>1. Init => Log!Init
  BY InitIsLogInit
<1>2. IInv /\ IInv' /\ [Next]_vars => [Log!Next]_(Log!logVars)
  BY NextIsLogNext
<1>3. Init => IInv
  BY InitEstablishes
<1>4. IInv /\ [Next]_vars => IInv'
  BY NextPreserves
<1> QED BY <1>1, <1>2, <1>3, <1>4, PTL DEF Spec, ImplementsLog, Log!Spec

-----------------------------------------------------------------------------
(* The panels: announcements *)

\* A share whose revision is saved and neither announced nor given up.
Announcing(m) ==
  action[m].phase \in {"saved", "baseline", "baselined", "announce", "append", "reconcile",
                       "reconciled"}

\* It announces a saved revision that is not in the room yet, and no other does.
Announces(m) ==
  Announcing(m) =>
    /\ m \in Writer
    /\ action[m].revision \in 1..saved
    /\ \A i \in DOMAIN announced : announced[i] # action[m].revision
    /\ \A n \in Member \ {m} : Announcing(n) => action[n].revision # action[m].revision

\* Revisions older than event i that have come after it, or are still to come.
Older(i) ==
  {r \in 1..saved : /\ r < announced[i]
                    /\ \/ \E j \in DOMAIN announced : j > i /\ announced[j] = r
                       \/ \E m \in Writer : Announcing(m) /\ action[m].revision = r}

\* They are fewer than the writers: each was being announced when event i was.
FewOlder == \A i \in DOMAIN announced : Cardinality(Older(i)) < Cardinality(Writer)

-----------------------------------------------------------------------------
(* The panels: what is shown *)

\* No panel is ahead of the team, and one that shows nothing reads nothing.
ShownFits(m) ==
  /\ shown[m] <= saved
  /\ action[m].revision <= saved
  /\ \A t \in Thread : reader[m][t].loaded <= saved
  /\ shown[m] = 0 => \A t \in Thread : reader[m][t].phase = "off"

\* A viewer only refreshes and applies, and refreshes from nothing; what its
\* threads have loaded is no older than what it shows.
ViewerFits(v) ==
  /\ action[v].phase \in {"idle", "refresh", "refreshed", "unverified", "apply"}
  /\ action[v].phase \in {"refresh", "refreshed", "unverified"} => shown[v] = 0
  /\ action[v].phase = "apply" => shown[v] # 0
  /\ shown[v] = 0 => state[v] \in {"checking", "setup-required"}
  /\ \A t \in Thread : reader[v][t].phase = "loaded" => reader[v][t].loaded >= shown[v]

PanelInv ==
  /\ PanelTypeOK
  /\ AnnouncedOnce
  /\ \A m \in Member : Announces(m) /\ ShownFits(m)
  /\ \A v \in Viewer : ViewerFits(v)

-----------------------------------------------------------------------------
(* The panels: what the cursor has passed *)

Covered(v, revision) == \A i \in 1..revision : announced[i] <= shown[v]

\* The newest of the events up to the answer's revision is among its news.
Complete(answer) ==
  \A i \in 1..answer.revision : \E r \in answer.news : announced[i] <= r

\* What a viewer's threads know of the room when they read it.
ReadsFit(v) ==
  LET establish == reader[v].establish
      poll      == reader[v].poll
  IN  /\ roomRevision[v] <= Len(announced)
      /\ \A t \in Thread : /\ reader[v][t].after <= Len(announced)
                           /\ reader[v][t].receipt.revision <= Len(announced)
      /\ establish.after = 0
      /\ establish.phase = "answered" => Complete(establish.receipt)
      /\ poll.phase = "answered" /\ poll.receipt.news = {} =>
           poll.receipt.revision <= poll.after

\* A complete read of the room, or a reload it called for, is still to come.
Settling(v) ==
  /\ reader[v].establish.phase # "off"
  /\ reader[v].establish.phase = "answered" => CallsForReload(v, "establish")

\* Otherwise what the cursor has passed is shown, or the poll's reload is to come;
\* and a poll under way starts from what is shown.
Follows(v) ==
  NothingFailed /\ shown[v] # 0 /\ ~Settling(v) =>
    /\ Current(v) \/ reader[v].poll.phase \in {"loading", "loaded"}
    /\ reader[v].poll.phase \in {"sent", "answered"} => Covered(v, reader[v].poll.after)

FollowInv ==
  /\ PanelInv
  /\ FewOlder
  /\ \A v \in Viewer : ReadsFit(v) /\ Follows(v)

-----------------------------------------------------------------------------
(* The panels: types *)

\* A step of one member leaves the panels of the others alone.
OthersRest(m) ==
  \A n \in Member \ {m} :
    /\ shown'[n] = shown[n] /\ roomRevision'[n] = roomRevision[n] /\ state'[n] = state[n]
    /\ reader'[n] = reader[n] /\ action'[n] = action[n]

\* What a read of the room returns (readReceipt).
LEMMA ReceiptTyped ==
  ASSUME PanelTypeOK, NEW after \in Nat
  PROVE  /\ RoomReceipt(after) \in Receipt
         /\ RoomReceipt(after).revision = Len(announced)
<1>1. \A i \in 1..Len(announced) : announced[i] \in Nat
  BY DEF PanelTypeOK
<1>2. RetainedEvents \in Nat \ {0} /\ Len(announced) \in Nat
  BY PanelAssumption DEF PanelTypeOK
<1>3. WindowStart \in Nat \ {0}
  BY <1>2 DEF WindowStart
<1>4. WindowStart..Len(announced) \subseteq 1..Len(announced)
  BY <1>2, <1>3
<1> QED BY <1>1, <1>2, <1>4 DEF RoomReceipt, Receipt

\* What replaceWorkspace and the effect's next run change.
LEMMA RestartTyped ==
  ASSUME PanelTypeOK, NEW m \in Member, NEW revision \in Nat, Restart(m, revision)
  PROVE  /\ shown' \in [Member -> Nat]
         /\ reader' \in [Member -> [Thread -> Read]]
         /\ state' \in [Member -> State]
         /\ shown'[m] = revision
         /\ reader'[m].poll = NoRead
         /\ reader'[m].establish = IF revision = 0 THEN NoRead ELSE [NoRead EXCEPT !.phase = "sent"]
         /\ state'[m] \in {"checking", "setup-required"}
         /\ \A n \in Member \ {m} :
              shown'[n] = shown[n] /\ reader'[n] = reader[n] /\ state'[n] = state[n]
<1>1. /\ shown' \in [Member -> Nat] /\ shown'[m] = revision
      /\ \A n \in Member \ {m} : shown'[n] = shown[n]
  BY DEF PanelTypeOK, Restart
<1>2. /\ NoRead \in Read /\ [NoRead EXCEPT !.phase = "sent"] \in Read
  BY DEF NoRead, Read, NoReceipt, Receipt
<1> DEFINE threads == IF revision = 0 THEN [t \in Thread |-> NoRead]
                      ELSE [establish |-> [NoRead EXCEPT !.phase = "sent"], poll |-> NoRead]
<1>3. /\ threads \in [Thread -> Read] /\ threads.poll = NoRead
      /\ threads.establish = IF revision = 0 THEN NoRead ELSE [NoRead EXCEPT !.phase = "sent"]
  <2>1. [establish |-> [NoRead EXCEPT !.phase = "sent"], poll |-> NoRead] \in [Thread -> Read]
    BY <1>2 DEF Thread
  <2>2. [t \in Thread |-> NoRead] \in [Thread -> Read]
    BY <1>2
  <2>3. "poll" \in Thread /\ "establish" \in Thread
    BY DEF Thread
  <2> QED BY <2>1, <2>2, <2>3
<1>4. reader' = [reader EXCEPT ![m] = threads]
  BY DEF Restart
<1> HIDE DEF threads
<1>5. /\ reader' \in [Member -> [Thread -> Read]] /\ reader'[m] = threads
      /\ \A n \in Member \ {m} : reader'[n] = reader[n]
  BY <1>3, <1>4 DEF PanelTypeOK
<1>6. /\ state' \in [Member -> State] /\ state'[m] \in {"checking", "setup-required"}
      /\ \A n \in Member \ {m} : state'[n] = state[n]
  BY DEF PanelTypeOK, Restart, State
<1> QED BY <1>1, <1>3, <1>5, <1>6

\* One thread's read is replaced.
LEMMA SetReadTyped ==
  ASSUME PanelTypeOK, NEW m \in Member, NEW t \in Thread, NEW read \in Read, SetRead(m, t, read)
  PROVE  /\ reader' \in [Member -> [Thread -> Read]]
         /\ reader'[m][t] = read
         /\ \A u \in Thread \ {t} : reader'[m][u] = reader[m][u]
         /\ \A n \in Member \ {m} : reader'[n] = reader[n]
BY DEF PanelTypeOK, SetRead

\* One member's action is replaced.
LEMMA SetActionTyped ==
  ASSUME PanelTypeOK, NEW m \in Member, NEW record \in Action, SetAction(m, record)
  PROVE  /\ action' \in [Member -> Action]
         /\ action'[m] = record
         /\ \A n \in Member \ {m} : action'[n] = action[n]
BY DEF PanelTypeOK, SetAction

\* The reader threads' steps keep the types.
LEMMA ReaderTyped ==
  ASSUME PanelTypeOK, NEW m \in Member, ReaderStep(m)
  PROVE  PanelTypeOK' /\ OthersRest(m) /\ UNCHANGED <<action, saved, announced, refreshes>>
<1> DEFINE Goal == PanelTypeOK' /\ OthersRest(m) /\ UNCHANGED <<action, saved, announced, refreshes>>
<1>1. NoRead \in Read /\ NoReceipt \in Receipt
  BY DEF NoRead, Read, NoReceipt, Receipt
<1>2. \A t \in Thread : reader[m][t] \in Read
  BY DEF PanelTypeOK
<1>3. "poll" \in Thread
  BY DEF Thread
<1>4. ASSUME NEW t \in Thread, NEW read \in Read, SetRead(m, t, read),
             UNCHANGED <<server, panel, action, bounds>>
      PROVE  Goal
  BY <1>4, SetReadTyped DEF PanelTypeOK, OthersRest, server, panel, bounds
<1>5. ASSUME StartPoll(m) PROVE Goal
  <2>1. [NoRead EXCEPT !.phase = "sent", !.after = roomRevision[m]] \in Read
    BY <1>1 DEF PanelTypeOK, NoRead, Read
  <2> QED BY <1>3, <1>4, <1>5, <2>1 DEF StartPoll
<1>6. ASSUME NEW t \in Thread, ServeRead(m, t) PROVE Goal
  <2>1. reader[m][t].after \in Nat
    BY <1>2 DEF Read
  <2>2. RoomReceipt(reader[m][t].after) \in Receipt
    BY <2>1, ReceiptTyped
  <2>3. [reader[m][t] EXCEPT !.phase = "answered",
                             !.receipt = RoomReceipt(reader[m][t].after)] \in Read
    BY <1>2, <2>2 DEF Read
  <2> QED BY <1>4, <1>6, <2>3 DEF ServeRead
<1>7. ASSUME NEW t \in Thread, HandleRead(m, t) PROVE Goal
  <2>1. reader[m][t].receipt.revision \in Nat
    BY <1>2 DEF Read, Receipt
  <2>2. /\ roomRevision' \in [Member -> Nat] /\ scoped' \in [Member -> BOOLEAN]
        /\ \A n \in Member \ {m} : roomRevision'[n] = roomRevision[n]
    BY <1>7, <2>1 DEF HandleRead, PanelTypeOK
  <2>3. [NoRead EXCEPT !.phase = "loading"] \in Read
    BY <1>1 DEF NoRead, Read
  <2>4. PICK read \in Read : SetRead(m, t, read)
    BY <1>1, <1>7, <2>3 DEF HandleRead
  <2>5. VerifiedState(m) \in State
    BY DEF VerifiedState, Verified, State
  <2>6. state' \in [Member -> State] /\ \A n \in Member \ {m} : state'[n] = state[n]
    BY <1>7, <2>5 DEF HandleRead, PanelTypeOK
  <2>7. UNCHANGED <<saved, announced, shown, pending, action, refreshes, failed>>
    BY <1>7 DEF HandleRead, bounds
  <2> QED BY <2>2, <2>4, <2>6, <2>7, SetReadTyped DEF PanelTypeOK, OthersRest
<1>8. ASSUME NEW t \in Thread, ServeReload(m, t) PROVE Goal
  <2>1. [NoRead EXCEPT !.phase = "loaded", !.loaded = saved] \in Read
    BY <1>1 DEF PanelTypeOK, NoRead, Read
  <2> QED BY <1>4, <1>8, <2>1 DEF ServeReload
<1>9. ASSUME NEW t \in Thread, HandleReload(m, t) PROVE Goal
  <2>1. reader[m][t].loaded \in Nat
    BY <1>2 DEF Read
  <2>2. Restart(m, reader[m][t].loaded)
    BY <1>9 DEF HandleReload, Reload
  <2>3. pending' \in [Member -> Nat]
    BY <1>9, <2>1 DEF HandleReload, Reload, PanelTypeOK
  <2>4. UNCHANGED <<saved, announced, roomRevision, scoped, action, refreshes, failed>>
    BY <1>9 DEF HandleReload, bounds
  <2> QED BY <2>1, <2>2, <2>3, <2>4, RestartTyped DEF PanelTypeOK, OthersRest
<1>10. ASSUME NEW t \in Thread, ReadFails(m, t) PROVE Goal
  <2>1. failed' \subseteq RequestKind /\ refreshes' = refreshes
    BY <1>10 DEF ReadFails, Fails, PanelTypeOK, RequestKind
  <2>2. state' \in [Member -> State] /\ \A n \in Member \ {m} : state'[n] = state[n]
    BY <1>10 DEF ReadFails, PanelTypeOK, State
  <2>3. UNCHANGED <<saved, announced, shown, roomRevision, scoped, pending, action>>
    BY <1>10 DEF ReadFails
  <2>4. SetRead(m, t, NoRead)
    BY <1>10 DEF ReadFails
  <2> QED BY <1>1, <2>1, <2>2, <2>3, <2>4, SetReadTyped DEF PanelTypeOK, OthersRest
<1> QED BY <1>5, <1>6, <1>7, <1>8, <1>9, <1>10 DEF ReaderStep

\* Nothing happens in an idle panel, and an action's phase is one of Action's.
LEMMA PhaseTyped ==
  ASSUME NEW record \in Action, NEW phase \in {"idle", "refresh", "refreshed", "unverified",
           "apply", "put", "saved", "refused", "baseline", "baselined", "announce", "append",
           "appended", "reconcile", "reconciled", "loading", "loaded"}
  PROVE  /\ Idle \in Action
         /\ [record EXCEPT !.phase = phase] \in Action
BY DEF Action, Idle, NoReceipt, Receipt

\* A step that changes the member's action and the state it shows, and no more.
LEMMA ActionTyped ==
  ASSUME PanelTypeOK, NEW m \in Member, NEW record \in Action, SetAction(m, record),
         UNCHANGED <<announced, shown, roomRevision, scoped, reader>>,
         saved' \in Nat, pending' \in [Member -> Nat],
         state' = state \/ \E s \in State : state' = [state EXCEPT ![m] = s],
         refreshes' \in 0..Refreshes, failed' \subseteq RequestKind
  PROVE  PanelTypeOK' /\ OthersRest(m)
<1>1. state' \in [Member -> State] /\ \A n \in Member \ {m} : state'[n] = state[n]
  BY DEF PanelTypeOK
<1> QED BY <1>1, SetActionTyped DEF PanelTypeOK, OthersRest

\* A request that fails is of one of the kinds.
LEMMA FailsTyped ==
  ASSUME PanelTypeOK, NEW kind \in RequestKind, Fails(kind)
  PROVE  /\ refreshes' \in 0..Refreshes /\ failed' \subseteq RequestKind
         /\ failed \subseteq failed' /\ kind \in failed'
BY DEF PanelTypeOK, Fails

\* The refreshes and the applied revisions keep the types.
LEMMA RefreshTyped ==
  ASSUME PanelTypeOK, NEW m \in Member, RefreshStep(m)
  PROVE  PanelTypeOK' /\ OthersRest(m) /\ UNCHANGED <<saved, announced>>
<1> DEFINE Goal == PanelTypeOK' /\ OthersRest(m) /\ UNCHANGED <<saved, announced>>
<1> USE DEF server, panel, bounds
<1>1. action[m] \in Action
  BY DEF PanelTypeOK
<1>2. refreshes \in 0..Refreshes /\ failed \subseteq RequestKind /\ saved \in Nat
      /\ pending \in [Member -> Nat]
  BY DEF PanelTypeOK
<1>3. ASSUME Refresh(m) PROVE Goal
  <2>1. Restart(m, 0) /\ Enter(m, "refresh")
    BY <1>3 DEF Refresh
  <2>2. [action[m] EXCEPT !.phase = "refresh"] \in Action
    BY <1>1, PhaseTyped
  <2>3. /\ action' \in [Member -> Action]
        /\ \A n \in Member \ {m} : action'[n] = action[n]
    BY <2>1, <2>2, SetActionTyped DEF Enter
  <2>4. refreshes' \in 0..Refreshes /\ failed' \subseteq RequestKind
    BY <1>2, <1>3, PanelAssumption DEF Refresh
  <2>5. /\ roomRevision' \in [Member -> Nat] /\ scoped' \in [Member -> BOOLEAN]
        /\ pending' \in [Member -> Nat]
        /\ \A n \in Member \ {m} : roomRevision'[n] = roomRevision[n]
        /\ UNCHANGED <<saved, announced>>
    BY <1>3 DEF Refresh, PanelTypeOK
  <2> QED BY <2>1, <2>3, <2>4, <2>5, RestartTyped DEF PanelTypeOK, OthersRest
<1>4. ASSUME ServeRefresh(m) PROVE Goal
  <2>1. [Idle EXCEPT !.phase = "refreshed", !.revision = saved] \in Action
    BY <1>2 DEF Idle, Action, NoReceipt, Receipt
  <2> QED BY <1>2, <1>4, <2>1, ActionTyped DEF ServeRefresh
<1>5. ASSUME HandleRefresh(m) PROVE Goal
  <2>1. action[m].revision \in Nat /\ Idle \in Action
    BY <1>1, PhaseTyped DEF Action
  <2>2. /\ action' \in [Member -> Action]
        /\ \A n \in Member \ {m} : action'[n] = action[n]
    BY <1>5, <2>1, SetActionTyped DEF HandleRefresh
  <2>3. Restart(m, action[m].revision) /\ UNCHANGED <<saved, announced, roomRevision, scoped, pending, bounds>>
    BY <1>5 DEF HandleRefresh
  <2> QED BY <2>1, <2>2, <2>3, RestartTyped DEF PanelTypeOK, OthersRest
<1>6. ASSUME RefreshFails(m) PROVE Goal
  <2>1. [action[m] EXCEPT !.phase = "unverified"] \in Action
    BY <1>1, PhaseTyped
  <2>2. refreshes' \in 0..Refreshes /\ failed' \subseteq RequestKind
    BY <1>6, FailsTyped DEF RefreshFails, RequestKind
  <2> QED BY <1>2, <1>6, <2>1, <2>2, ActionTyped DEF RefreshFails, Enter
<1>7. ASSUME Apply(m) PROVE Goal
  <2>1. [action[m] EXCEPT !.phase = "apply"] \in Action
    BY <1>1, PhaseTyped
  <2> QED BY <1>2, <1>7, <2>1, ActionTyped DEF Apply, Enter
<1>8. ASSUME Applied(m) PROVE Goal
  <2>1. Idle \in Action /\ Verified(m) \in State
    BY <1>1, PhaseTyped DEF Verified, State
  <2>2. pending' \in [Member -> Nat]
    BY <1>2, <1>8 DEF Applied
  <2> QED BY <1>2, <1>8, <2>1, <2>2, ActionTyped DEF Applied
<1>9. ASSUME ApplyFails(m) PROVE Goal
  BY <1>1, <1>2, <1>9, PhaseTyped, ActionTyped DEF ApplyFails
<1> QED BY <1>3, <1>4, <1>5, <1>6, <1>7, <1>8, <1>9 DEF RefreshStep

\* So do the saves of a shared revision.
LEMMA ShareTyped ==
  ASSUME PanelTypeOK, NEW m \in Member, ShareStep(m)
  PROVE  PanelTypeOK' /\ OthersRest(m) /\ announced' = announced
<1> DEFINE Goal == PanelTypeOK' /\ OthersRest(m) /\ announced' = announced
<1> USE DEF server, panel, bounds
<1>1. action[m] \in Action /\ Idle \in Action /\ shown[m] \in Nat
  BY PhaseTyped DEF PanelTypeOK
<1>2. refreshes \in 0..Refreshes /\ failed \subseteq RequestKind /\ saved \in Nat
      /\ pending \in [Member -> Nat]
  BY DEF PanelTypeOK
<1>3. ASSUME Share(m) PROVE Goal
  <2>1. [Idle EXCEPT !.phase = "put", !.base = shown[m]] \in Action
    BY <1>1 DEF Idle, Action
  <2> QED BY <1>2, <1>3, <2>1, ActionTyped DEF Share
<1>4. ASSUME ServePut(m) PROVE Goal
  <2>1. [action[m] EXCEPT !.phase = "saved", !.revision = saved + 1] \in Action
    <3>1. saved + 1 \in Nat
      BY <1>2
    <3> QED BY <1>1, <3>1 DEF Action
  <2>2. saved' \in Nat
    BY <1>2, <1>4 DEF ServePut, Save
  <2> QED BY <1>2, <1>4, <2>1, <2>2, ActionTyped DEF ServePut, Save
<1>5. ASSUME PutAnswerLost(m) PROVE Goal
  <2>1. refreshes' \in 0..Refreshes /\ failed' \subseteq RequestKind
    BY <1>5, FailsTyped DEF PutAnswerLost, RequestKind
  <2>2. saved' \in Nat
    BY <1>2, <1>5 DEF PutAnswerLost, Save
  <2> QED BY <1>1, <1>2, <1>5, <2>1, <2>2, ActionTyped DEF PutAnswerLost, Save
<1>6. ASSUME PutFails(m) PROVE Goal
  <2>1. refreshes' \in 0..Refreshes /\ failed' \subseteq RequestKind
    BY <1>6, FailsTyped DEF PutFails, RequestKind
  <2> QED BY <1>1, <1>2, <1>6, <2>1, ActionTyped DEF PutFails
<1>7. ASSUME RefusePut(m) PROVE Goal
  <2>1. [action[m] EXCEPT !.phase = "refused", !.revision = saved] \in Action
    BY <1>1, <1>2 DEF Action
  <2> QED BY <1>2, <1>7, <2>1, ActionTyped DEF RefusePut
<1>8. ASSUME HandleRefused(m) \/ HandleSaved(m) PROVE Goal
  <2>1. action[m].revision \in Nat
    BY <1>1 DEF Action
  <2>2. PICK record \in Action : SetAction(m, record)
    <3>1. CASE HandleRefused(m)
      BY <1>1, <3>1 DEF HandleRefused
    <3>2. CASE HandleSaved(m)
      <4>1. \A phase \in {"announce", "baseline"} : [action[m] EXCEPT !.phase = phase] \in Action
        BY <1>1, PhaseTyped
      <4> QED BY <3>2, <4>1 DEF HandleSaved, Enter
    <3> QED BY <1>8, <3>1, <3>2
  <2>3. /\ Restart(m, action[m].revision)
        /\ UNCHANGED <<saved, announced, roomRevision, scoped, bounds>>
    BY <1>8 DEF HandleRefused, HandleSaved, Reload
  <2>4. pending' \in [Member -> Nat]
    BY <1>2, <1>8, <2>1 DEF HandleRefused, HandleSaved, Reload
  <2> QED BY <2>1, <2>2, <2>3, <2>4, SetActionTyped, RestartTyped DEF PanelTypeOK, OthersRest
<1> QED BY <1>3, <1>4, <1>5, <1>6, <1>7, <1>8 DEF ShareStep

\* So do the announcements.
LEMMA AnnounceTyped ==
  ASSUME PanelTypeOK, NEW m \in Member, AnnounceStep(m)
  PROVE  PanelTypeOK' /\ OthersRest(m) /\ saved' = saved
<1> DEFINE Goal == PanelTypeOK' /\ OthersRest(m) /\ saved' = saved
<1> USE DEF server, panel, bounds
<1>1. action[m] \in Action /\ Idle \in Action
  BY PhaseTyped DEF PanelTypeOK
<1>2. /\ refreshes \in 0..Refreshes /\ failed \subseteq RequestKind /\ saved \in Nat
      /\ pending \in [Member -> Nat] /\ roomRevision[m] \in Nat
  BY DEF PanelTypeOK
<1>3. /\ action[m].revision \in Nat /\ action[m].expected \in Nat /\ action[m].receipt \in Receipt
      /\ action[m].receipt.revision \in Nat
  BY <1>1 DEF Action, Receipt
<1>4. NoReceipt \in Receipt
  BY DEF NoReceipt, Receipt
<1>5. ASSUME NEW phase, NEW answered \in {"baselined", "reconciled"},
             ServeShareRead(m, phase, answered)
      PROVE  Goal
  <2>1. RoomReceipt(action[m].expected) \in Receipt
    BY <1>3, ReceiptTyped
  <2>2. [action[m] EXCEPT !.phase = answered,
                          !.receipt = RoomReceipt(action[m].expected)] \in Action
    BY <1>1, <2>1 DEF Action
  <2> QED BY <1>2, <1>5, <2>2, ActionTyped DEF ServeShareRead
<1>6. ASSUME HandleBaseline(m) PROVE Goal
  <2>1. [action[m] EXCEPT !.phase = "announce", !.receipt = NoReceipt] \in Action
    BY <1>1, <1>4 DEF Action
  <2>2. /\ action' \in [Member -> Action]
        /\ \A n \in Member \ {m} : action'[n] = action[n]
    BY <1>6, <2>1, SetActionTyped DEF HandleBaseline
  <2>3. /\ roomRevision' \in [Member -> Nat] /\ scoped' \in [Member -> BOOLEAN]
        /\ \A n \in Member \ {m} : roomRevision'[n] = roomRevision[n]
    BY <1>3, <1>6 DEF HandleBaseline, PanelTypeOK
  <2>4. UNCHANGED <<saved, announced, shown, pending, state, reader, refreshes, failed>>
    BY <1>6 DEF HandleBaseline
  <2> QED BY <2>2, <2>3, <2>4 DEF PanelTypeOK, OthersRest
<1>7. ASSUME Announce(m) PROVE Goal
  <2>1. [action[m] EXCEPT !.phase = "append", !.expected = roomRevision[m]] \in Action
    BY <1>1, <1>2 DEF Action
  <2> QED BY <1>2, <1>7, <2>1, ActionTyped DEF Announce
<1>8. ASSUME ServeAppend(m) \/ AppendAnswerLost(m) PROVE Goal
  <2>1. /\ announced' = Append(announced, action[m].revision)
        /\ UNCHANGED <<saved, shown, roomRevision, scoped, pending, reader>>
    BY <1>8 DEF ServeAppend, AppendAnswerLost, AppendEvent
  <2>2. announced' \in Seq(Nat) /\ Len(announced) + 1 \in Nat
    BY <1>3, <2>1 DEF PanelTypeOK
  <2>3. refreshes' \in 0..Refreshes /\ failed' \subseteq RequestKind
    BY <1>2, <1>8, FailsTyped DEF ServeAppend, AppendAnswerLost, RequestKind
  <2>4. state' \in [Member -> State] /\ \A n \in Member \ {m} : state'[n] = state[n]
    BY <1>8 DEF ServeAppend, AppendAnswerLost, PanelTypeOK, State
  <2>5. [action[m] EXCEPT !.phase = "appended", !.expected = Len(announced) + 1] \in Action
    BY <1>1, <2>2 DEF Action
  <2>6. PICK record \in Action : SetAction(m, record)
    BY <1>1, <1>8, <2>5 DEF ServeAppend, AppendAnswerLost
  <2> QED BY <2>1, <2>2, <2>3, <2>4, <2>6, SetActionTyped DEF PanelTypeOK, OthersRest
<1>9. ASSUME RejectAppend(m) PROVE Goal
  <2>1. [action[m] EXCEPT !.phase = "reconcile"] \in Action
    BY <1>1, PhaseTyped
  <2> QED BY <1>2, <1>9, <2>1, ActionTyped DEF RejectAppend, Enter
<1>10. ASSUME HandleReconciled(m) PROVE Goal
  <2>1. [action[m] EXCEPT !.phase = "append", !.retried = TRUE,
                          !.expected = action[m].receipt.revision] \in Action
    BY <1>1, <1>3 DEF Action
  <2> QED BY <1>2, <1>10, <2>1, ActionTyped DEF HandleReconciled
<1>11. ASSUME AnnounceFails(m) PROVE Goal
  <2>1. refreshes' \in 0..Refreshes /\ failed' \subseteq RequestKind
    BY <1>2, <1>11, FailsTyped DEF AnnounceFails, RequestKind
  <2>2. "unavailable" \in State
    BY DEF State
  <2> QED BY <1>1, <1>2, <1>11, <2>1, <2>2, ActionTyped DEF AnnounceFails
<1>12. ASSUME HandleAppended(m) PROVE Goal
  <2>1. /\ roomRevision' \in [Member -> Nat] /\ scoped' \in [Member -> BOOLEAN]
        /\ \A n \in Member \ {m} : roomRevision'[n] = roomRevision[n]
    BY <1>3, <1>12 DEF HandleAppended, PanelTypeOK
  <2>2. [action[m] EXCEPT !.phase = "loading"] \in Action
    BY <1>1, PhaseTyped
  <2>3. PICK record \in Action : SetAction(m, record)
    BY <1>1, <1>12, <2>2 DEF HandleAppended, Enter
  <2>4. pending' \in [Member -> Nat]
    BY <1>2, <1>12 DEF HandleAppended
  <2>5. state' \in [Member -> State] /\ \A n \in Member \ {m} : state'[n] = state[n]
    BY <1>12 DEF HandleAppended, PanelTypeOK, State
  <2>6. UNCHANGED <<saved, announced, shown, reader, refreshes, failed>>
    BY <1>12 DEF HandleAppended
  <2> QED BY <2>1, <2>3, <2>4, <2>5, <2>6, SetActionTyped DEF PanelTypeOK, OthersRest
<1>13. ASSUME ServeShareReload(m) PROVE Goal
  <2>1. [Idle EXCEPT !.phase = "loaded", !.base = action[m].revision, !.revision = saved] \in Action
    BY <1>2, <1>3 DEF Idle, Action, NoReceipt, Receipt
  <2> QED BY <1>2, <1>13, <2>1, ActionTyped DEF ServeShareReload
<1>14. ASSUME HandleShareReload(m) PROVE Goal
  <2>1. /\ Restart(m, action[m].revision) /\ SetAction(m, Idle)
        /\ UNCHANGED <<saved, announced, roomRevision, scoped, bounds>>
    BY <1>14 DEF HandleShareReload, Reload
  <2>2. pending' \in [Member -> Nat]
    BY <1>2, <1>3, <1>14 DEF HandleShareReload, Reload
  <2> QED BY <1>1, <1>3, <2>1, <2>2, SetActionTyped, RestartTyped DEF PanelTypeOK, OthersRest
<1> QED BY <1>5, <1>6, <1>7, <1>8, <1>9, <1>10, <1>11, <1>12, <1>13, <1>14 DEF AnnounceStep

\* Every panel opens typed, with nothing shown and nothing announced.
LEMMA PanelInitTyped == PanelInit => PanelTypeOK
<1> SUFFICES ASSUME PanelInit PROVE PanelTypeOK
  OBVIOUS
<1>1. NoRead \in Read /\ [Idle EXCEPT !.phase = "refresh"] \in Action
  BY DEF NoRead, Read, Idle, Action, NoReceipt, Receipt
<1>2. 0 \in 0..Refreshes
  BY PanelAssumption
<1>3. announced \in Seq(Nat)
  BY DEF PanelInit
<1>4. reader \in [Member -> [Thread -> Read]] /\ action \in [Member -> Action]
  BY <1>1 DEF PanelInit
<1>5. /\ saved \in Nat /\ shown \in [Member -> Nat] /\ roomRevision \in [Member -> Nat]
      /\ scoped \in [Member -> BOOLEAN] /\ pending \in [Member -> Nat]
      /\ state \in [Member -> State]
  BY DEF PanelInit, State
<1>6. refreshes \in 0..Refreshes /\ failed \subseteq RequestKind
  BY <1>2 DEF PanelInit
<1> QED BY <1>3, <1>4, <1>5, <1>6 DEF PanelTypeOK

-----------------------------------------------------------------------------
(* The panels: what a step does to the saved and the announced revisions *)

\* No revision is saved or announced, and no share comes to announce another.
AnnouncesAsBefore(m) ==
  /\ UNCHANGED <<saved, announced>>
  /\ Announcing(m)' => Announcing(m) /\ action'[m].revision = action[m].revision

\* The team API saves a revision, which its share announces if it hears of it.
SavesNext(m) ==
  /\ action[m].phase = "put"
  /\ saved' = saved + 1 /\ announced' = announced
  /\ Announcing(m)' => action'[m].revision = saved + 1

\* The room takes the revision of a share, which announces it no more.
AppendsOwn(m) ==
  /\ Announcing(m) /\ ~Announcing(m)'
  /\ saved' = saved /\ announced' = Append(announced, action[m].revision)

\* Every step is one of the three (shareProject, upsertTeamWorkspaceProject, append).
LEMMA AnnouncingEffect ==
  ASSUME PanelTypeOK, NEW m \in Member,
         ReaderStep(m) \/ RefreshStep(m) \/ ShareStep(m) \/ AnnounceStep(m)
  PROVE  AnnouncesAsBefore(m) \/ SavesNext(m) \/ AppendsOwn(m)
<1> USE DEF server, panel, bounds
<1>1. action[m] \in Action /\ action \in [Member -> Action] /\ Idle \in Action
  BY PhaseTyped DEF PanelTypeOK
<1>2. CASE ReaderStep(m)
  BY <1>2, ReaderTyped DEF AnnouncesAsBefore, Announcing
<1>3. ASSUME UNCHANGED <<saved, announced>>,
             action'[m].phase \in {"idle", "refresh", "refreshed", "unverified", "apply", "put",
                                   "refused", "appended", "loading", "loaded"}
      PROVE  AnnouncesAsBefore(m)
  BY <1>3 DEF AnnouncesAsBefore, Announcing
<1>4. ASSUME UNCHANGED <<saved, announced>>, Announcing(m),
             action'[m].revision = action[m].revision
      PROVE  AnnouncesAsBefore(m)
  BY <1>4 DEF AnnouncesAsBefore
<1> USE DEF SetAction, Enter
<1>5. CASE RefreshStep(m)
  <2>1. UNCHANGED <<saved, announced>>
    BY <1>5, RefreshTyped
  <2>2. action'[m].phase \in {"idle", "refresh", "refreshed", "unverified", "apply"}
    <3>1. CASE Refresh(m) \/ RefreshFails(m)
      BY <1>1, <3>1 DEF Refresh, RefreshFails, Action
    <3>2. CASE ServeRefresh(m)
      BY <1>1, <3>2 DEF ServeRefresh, Idle
    <3>3. CASE HandleRefresh(m) \/ Applied(m) \/ ApplyFails(m)
      BY <1>1, <3>3 DEF HandleRefresh, Applied, ApplyFails, Idle
    <3>4. CASE Apply(m)
      BY <1>1, <3>4 DEF Apply, Action
    <3> QED BY <1>5, <3>1, <3>2, <3>3, <3>4 DEF RefreshStep
  <2> QED BY <1>3, <2>1, <2>2
<1>6. CASE ShareStep(m)
  <2>1. CASE Share(m) \/ PutFails(m) \/ RefusePut(m) \/ HandleRefused(m)
    <3>1. UNCHANGED <<saved, announced>>
      BY <2>1 DEF Share, PutFails, RefusePut, HandleRefused
    <3>2. action'[m].phase \in {"idle", "put", "refused"}
      BY <1>1, <2>1 DEF Share, PutFails, RefusePut, HandleRefused, Idle, Action
    <3> QED BY <1>3, <3>1, <3>2
  <2>2. CASE ServePut(m)
    <3>1. action'[m].revision = saved + 1
      BY <1>1, <2>2 DEF ServePut, Action
    <3> QED BY <2>2, <3>1 DEF ServePut, Save, SavesNext
  <2>3. CASE PutAnswerLost(m)
    <3>1. action'[m].phase = "idle"
      BY <1>1, <2>3 DEF PutAnswerLost, Idle
    <3> QED BY <2>3, <3>1 DEF PutAnswerLost, Save, SavesNext, Announcing
  <2>4. CASE HandleSaved(m)
    <3>1. UNCHANGED <<saved, announced>> /\ Announcing(m)
      BY <2>4 DEF HandleSaved, Announcing
    <3>2. action'[m].revision = action[m].revision
      BY <1>1, <2>4 DEF HandleSaved, Action
    <3> QED BY <1>4, <3>1, <3>2
  <2> QED BY <1>6, <2>1, <2>2, <2>3, <2>4 DEF ShareStep
<1>7. CASE AnnounceStep(m)
  <2>1. CASE ServeAppend(m) \/ AppendAnswerLost(m)
    <3>1. AppendEvent(m)
      BY <2>1 DEF ServeAppend, AppendAnswerLost
    <3>2. action'[m].phase \in {"appended", "idle"}
      BY <1>1, <2>1 DEF ServeAppend, AppendAnswerLost, Idle, Action
    <3> QED BY <3>1, <3>2 DEF AppendEvent, AppendsOwn, Announcing
  <2>2. CASE \/ ServeShareRead(m, "baseline", "baselined") \/ HandleBaseline(m) \/ Announce(m)
             \/ RejectAppend(m) \/ ServeShareRead(m, "reconcile", "reconciled")
             \/ HandleReconciled(m)
    <3>1. Announcing(m) /\ UNCHANGED <<saved, announced>>
      BY <2>2 DEF ServeShareRead, HandleBaseline, Announce, RejectAppend, HandleReconciled, Announcing
    <3>2. action'[m].revision = action[m].revision
      <4>1. CASE \/ ServeShareRead(m, "baseline", "baselined")
                 \/ ServeShareRead(m, "reconcile", "reconciled")
        BY <1>1, <4>1 DEF ServeShareRead, Action
      <4>2. CASE HandleBaseline(m)
        BY <1>1, <4>2 DEF HandleBaseline, Action
      <4>3. CASE Announce(m)
        BY <1>1, <4>3 DEF Announce, Action
      <4>4. CASE RejectAppend(m) \/ HandleReconciled(m)
        BY <1>1, <4>4 DEF RejectAppend, HandleReconciled, Action
      <4> QED BY <2>2, <4>1, <4>2, <4>3, <4>4
    <3> QED BY <1>4, <3>1, <3>2
  <2>3. CASE AnnounceFails(m) \/ HandleAppended(m) \/ ServeShareReload(m) \/ HandleShareReload(m)
    <3>1. UNCHANGED <<saved, announced>>
      BY <2>3 DEF AnnounceFails, HandleAppended, ServeShareReload, HandleShareReload
    <3>2. action'[m].phase \in {"idle", "loading", "loaded"}
      BY <1>1, <2>3 DEF AnnounceFails, HandleAppended, ServeShareReload, HandleShareReload,
                        Idle, Action
    <3> QED BY <1>3, <3>1, <3>2
  <2> QED BY <1>7, <2>1, <2>2, <2>3 DEF AnnounceStep
<1> QED BY <1>2, <1>5, <1>6, <1>7

-----------------------------------------------------------------------------
(* The panels: announcements are of saved revisions, once each *)

\* The room's events are indexed from 1.
LEMMA RoomTyped ==
  ASSUME PanelTypeOK
  PROVE  /\ Len(announced) \in Nat /\ DOMAIN announced = 1..Len(announced)
         /\ \A i \in DOMAIN announced : announced[i] \in Nat
         /\ saved \in Nat
         /\ \A m \in Member : action[m].revision \in Nat
BY DEF PanelTypeOK, Action

\* What a step of the room adds to it (append).
LEMMA AppendExtends ==
  ASSUME PanelTypeOK, NEW revision \in Nat, announced' = Append(announced, revision)
  PROVE  /\ Len(announced') = Len(announced) + 1
         /\ DOMAIN announced' = 1..(Len(announced) + 1)
         /\ \A i \in DOMAIN announced : announced'[i] = announced[i]
         /\ announced'[Len(announced) + 1] = revision
BY DEF PanelTypeOK

\* Each revision has one share at most that announces it, and one event.
LEMMA AnnouncementsPreserved ==
  ASSUME PanelInv, NEW m \in Member, OthersRest(m),
         AnnouncesAsBefore(m) \/ SavesNext(m) \/ AppendsOwn(m)
  PROVE  AnnouncedOnce' /\ \A n \in Member : Announces(n)'
<1>1. /\ PanelTypeOK /\ AnnouncedOnce /\ saved \in Nat
      /\ DOMAIN announced = 1..Len(announced) /\ Len(announced) \in Nat
      /\ \A i \in DOMAIN announced : announced[i] \in Nat
      /\ \A n \in Member : Announces(n) /\ action[n].revision \in Nat
  BY RoomTyped DEF PanelInv
<1>2. \A n \in Member \ {m} : /\ Announcing(n)' <=> Announcing(n)
                              /\ action'[n].revision = action[n].revision
  BY DEF OthersRest, Announcing
<1>3. CASE AnnouncesAsBefore(m)
  <2>1. AnnouncedOnce'
    BY <1>1, <1>3 DEF AnnouncesAsBefore, AnnouncedOnce
  <2>2. ASSUME NEW n \in Member PROVE Announces(n)'
    BY <1>1, <1>2, <1>3 DEF AnnouncesAsBefore, Announces
  <2> QED BY <2>1, <2>2
<1>4. CASE SavesNext(m)
  <2>1. saved' = saved + 1 /\ announced' = announced /\ m \in Writer
    BY <1>4 DEF SavesNext, PanelInv, ViewerFits, Member
  <2>2. \A i \in DOMAIN announced : announced[i] \in 1..saved
    BY <1>1 DEF AnnouncedOnce
  <2>3. AnnouncedOnce'
    BY <1>1, <2>1, <2>2 DEF AnnouncedOnce
  <2>4. Announces(m)'
    <3>1. \A n \in Member \ {m} : Announcing(n) => action[n].revision # saved + 1
      BY <1>1 DEF Announces
    <3> QED BY <1>1, <1>2, <1>4, <2>1, <2>2, <3>1 DEF SavesNext, Announces
  <2>5. ASSUME NEW n \in Member \ {m} PROVE Announces(n)'
    <3>1. Announcing(n) => action[n].revision \in 1..saved
      BY <1>1 DEF Announces
    <3>2. Announcing(n) => action[n].revision # saved + 1 /\ action[n].revision \in 1..(saved + 1)
      BY <1>1, <3>1
    <3> QED BY <1>1, <1>2, <1>4, <2>1, <3>2 DEF SavesNext, Announces
  <2> QED BY <2>3, <2>4, <2>5
<1>5. CASE AppendsOwn(m)
  <2>1. /\ Announcing(m) /\ ~Announcing(m)' /\ saved' = saved
        /\ announced' = Append(announced, action[m].revision)
    BY <1>5 DEF AppendsOwn
  <2>2. /\ action[m].revision \in 1..saved
        /\ \A i \in DOMAIN announced : announced[i] # action[m].revision
        /\ \A n \in Member \ {m} : Announcing(n) => action[n].revision # action[m].revision
    BY <1>1, <2>1 DEF Announces
  <2>3. /\ DOMAIN announced' = 1..(Len(announced) + 1)
        /\ \A i \in DOMAIN announced : announced'[i] = announced[i]
        /\ announced'[Len(announced) + 1] = action[m].revision
    BY <1>1, <2>1, AppendExtends
  <2>4. \A i \in DOMAIN announced' : i \in DOMAIN announced \/ i = Len(announced) + 1
    BY <1>1, <2>3
  <2>5. AnnouncedOnce'
    BY <1>1, <2>1, <2>2, <2>3, <2>4 DEF AnnouncedOnce
  <2>6. ASSUME NEW n \in Member PROVE Announces(n)'
    BY <1>1, <1>2, <2>1, <2>2, <2>3, <2>4 DEF Announces
  <2> QED BY <2>5, <2>6
<1> QED BY <1>3, <1>4, <1>5

-----------------------------------------------------------------------------
(* The panels: no panel is ahead of the team *)

\* The revision an action carries is one the team API has saved.
LEMMA RevisionFits ==
  ASSUME PanelInv, NEW m \in Member,
         ReaderStep(m) \/ RefreshStep(m) \/ ShareStep(m) \/ AnnounceStep(m)
  PROVE  /\ saved \in Nat /\ saved' \in Nat /\ saved <= saved'
         /\ action'[m].revision <= saved'
<1> USE DEF SetAction, Enter, server, panel, bounds
<1>1. /\ PanelTypeOK /\ action[m] \in Action /\ action \in [Member -> Action]
      /\ action[m].revision \in Nat /\ action[m].revision <= saved /\ saved \in Nat
  BY RoomTyped DEF PanelInv, PanelTypeOK, ShownFits
<1>2. saved' \in Nat /\ (saved' = saved \/ saved' = saved + 1) /\ saved <= saved'
  BY <1>1, AnnouncingEffect DEF AnnouncesAsBefore, SavesNext, AppendsOwn
<1> DEFINE Kept == action'[m].revision \in {0, action[m].revision, saved}
<1>3. ASSUME Kept PROVE action'[m].revision <= saved'
  BY <1>1, <1>2, <1>3
<1>4. CASE ReaderStep(m)
  BY <1>1, <1>2, <1>4, ReaderTyped
<1>5. ASSUME RefreshStep(m) PROVE Kept
  <2>1. ASSUME Refresh(m) \/ RefreshFails(m) \/ Apply(m) PROVE Kept
    BY <1>1, <2>1 DEF Refresh, RefreshFails, Apply, Action
  <2>2. ASSUME ServeRefresh(m) PROVE Kept
    BY <1>1, <2>2 DEF ServeRefresh, Idle
  <2>3. ASSUME HandleRefresh(m) \/ Applied(m) \/ ApplyFails(m) PROVE Kept
    BY <1>1, <2>3 DEF HandleRefresh, Applied, ApplyFails, Idle
  <2> QED BY <1>5, <2>1, <2>2, <2>3 DEF RefreshStep
<1>6. ASSUME ServePut(m) PROVE action'[m].revision <= saved'
  <2>1. action'[m].revision = saved + 1 /\ saved' = saved + 1
    BY <1>1, <1>6 DEF ServePut, Save, Action
  <2> QED BY <1>1, <2>1
<1>7. ASSUME ShareStep(m), ~ServePut(m) PROVE Kept
  <2>1. ASSUME PutAnswerLost(m) \/ PutFails(m) \/ HandleRefused(m) PROVE Kept
    BY <1>1, <2>1 DEF PutAnswerLost, PutFails, HandleRefused, Idle
  <2>2. ASSUME Share(m) PROVE Kept
    BY <1>1, <2>2 DEF Share, Idle
  <2>3. ASSUME RefusePut(m) PROVE Kept
    BY <1>1, <2>3 DEF RefusePut, Action
  <2>4. ASSUME HandleSaved(m) PROVE Kept
    BY <1>1, <2>4 DEF HandleSaved, Action
  <2> QED BY <1>7, <2>1, <2>2, <2>3, <2>4 DEF ShareStep
<1>8. ASSUME AnnounceStep(m) PROVE Kept
  <2>1. ASSUME NEW phase, NEW answered, ServeShareRead(m, phase, answered) PROVE Kept
    BY <1>1, <2>1 DEF ServeShareRead, Action
  <2>2. ASSUME HandleBaseline(m) PROVE Kept
    BY <1>1, <2>2 DEF HandleBaseline, Action
  <2>3. ASSUME Announce(m) PROVE Kept
    BY <1>1, <2>3 DEF Announce, Action
  <2>4. ASSUME RejectAppend(m) PROVE Kept
    BY <1>1, <2>4 DEF RejectAppend, Action
  <2>5. ASSUME HandleReconciled(m) PROVE Kept
    BY <1>1, <2>5 DEF HandleReconciled, Action
  <2>6. ASSUME ServeAppend(m) PROVE Kept
    BY <1>1, <2>6 DEF ServeAppend, Action
  <2>7. ASSUME HandleAppended(m) PROVE Kept
    BY <1>1, <2>7 DEF HandleAppended, Idle, Action
  <2>8. ASSUME AppendAnswerLost(m) \/ AnnounceFails(m) \/ HandleShareReload(m) PROVE Kept
    BY <1>1, <2>8 DEF AppendAnswerLost, AnnounceFails, HandleShareReload, Idle
  <2>9. ASSUME ServeShareReload(m) PROVE Kept
    BY <1>1, <2>9 DEF ServeShareReload, Idle
  <2> QED BY <1>8, <2>1, <2>2, <2>3, <2>4, <2>5, <2>6, <2>7, <2>8, <2>9 DEF AnnounceStep
<1> HIDE DEF Kept
<1> QED BY <1>1, <1>2, <1>3, <1>4, <1>5, <1>6, <1>7, <1>8

\* What is shown and read of a member is left alone.
LEMMA StillFits ==
  ASSUME PanelInv, NEW n \in Member, saved' \in Nat, saved <= saved',
         shown'[n] = shown[n], reader'[n] = reader[n], action'[n].revision <= saved'
  PROVE  ShownFits(n)'
<1>1. /\ saved \in Nat /\ shown[n] \in Nat /\ shown[n] <= saved
      /\ \A t \in Thread : reader[n][t].loaded \in Nat /\ reader[n][t].loaded <= saved
      /\ shown[n] = 0 => \A t \in Thread : reader[n][t].phase = "off"
  BY DEF PanelInv, PanelTypeOK, Read, ShownFits
<1>2. shown[n] <= saved' /\ \A t \in Thread : reader[n][t].loaded <= saved'
  BY <1>1
<1> QED BY <1>1, <1>2 DEF ShownFits

\* A replaced workspace shows what is saved, and its threads start again.
LEMMA RestartFits ==
  ASSUME PanelInv, NEW m \in Member, NEW revision \in Nat, Restart(m, revision),
         revision <= saved', saved' \in Nat, action'[m].revision <= saved'
  PROVE  ShownFits(m)'
<1>1. /\ shown'[m] = revision
      /\ reader'[m].poll = NoRead
      /\ reader'[m].establish = IF revision = 0 THEN NoRead ELSE [NoRead EXCEPT !.phase = "sent"]
  BY RestartTyped DEF PanelInv
<1>2. /\ reader'[m].poll.phase = "off" /\ reader'[m].poll.loaded = 0
      /\ reader'[m].establish.loaded = 0
      /\ revision = 0 => reader'[m].establish.phase = "off"
  BY <1>1 DEF NoRead
<1>3. 0 <= saved'
  OBVIOUS
<1>4. \A t \in Thread : /\ reader'[m][t].loaded <= saved'
                        /\ revision = 0 => reader'[m][t].phase = "off"
  BY <1>2, <1>3 DEF Thread
<1> QED BY <1>1, <1>4 DEF ShownFits

\* What ReaderTyped, RefreshTyped, ShareTyped and AnnounceTyped say together.
LEMMA PanelStepTyped ==
  ASSUME PanelTypeOK, NEW m \in Member,
         ReaderStep(m) \/ RefreshStep(m) \/ ShareStep(m) \/ AnnounceStep(m)
  PROVE  PanelTypeOK' /\ OthersRest(m)
BY ReaderTyped, RefreshTyped, ShareTyped, AnnounceTyped

\* The threads' steps: only what shows a project reads, and what a viewer's
\* threads load is no older than what it shows (poll, establish, reload).
LEMMA ReaderFits ==
  ASSUME PanelInv, NEW m \in Member, ReaderStep(m)
  PROVE  ShownFits(m)' /\ (m \in Viewer => ViewerFits(m)')
<1> DEFINE Goal == ShownFits(m)' /\ (m \in Viewer => ViewerFits(m)')
<1>1. /\ PanelTypeOK /\ ShownFits(m) /\ (m \in Viewer => ViewerFits(m))
      /\ saved \in Nat /\ shown[m] \in Nat
      /\ \A t \in Thread : reader[m][t] \in Read /\ reader[m][t].loaded \in Nat
  BY RoomTyped DEF PanelInv, PanelTypeOK, Read
<1>2. /\ action' = action /\ saved' = saved /\ action'[m].revision <= saved'
  BY <1>1, ReaderTyped DEF ShownFits
<1>3. ASSUME NEW t \in Thread, reader[m][t].phase # "off" PROVE shown[m] # 0
  BY <1>1, <1>3 DEF ShownFits
<1>4. ASSUME NEW t \in Thread, NEW read \in Read, SetRead(m, t, read), shown' = shown,
             shown[m] # 0, read.loaded <= saved,
             read.phase = "loaded" => read.loaded >= shown[m]
      PROVE  Goal
  <2>1. reader'[m][t] = read /\ \A u \in Thread \ {t} : reader'[m][u] = reader[m][u]
    BY <1>1, <1>4, SetReadTyped
  <2>2. ShownFits(m)'
    BY <1>1, <1>2, <1>4, <2>1 DEF ShownFits
  <2>3. ASSUME m \in Viewer PROVE ViewerFits(m)'
    BY <1>1, <1>2, <1>4, <2>1, <2>3 DEF ViewerFits
  <2> QED BY <2>2, <2>3
<1>5. NoRead \in Read /\ NoRead.loaded = 0 /\ NoRead.phase = "off" /\ 0 <= saved
  BY <1>1 DEF NoRead, Read, NoReceipt, Receipt
<1>6. ASSUME StartPoll(m) PROVE Goal
  <2> DEFINE read == [NoRead EXCEPT !.phase = "sent", !.after = roomRevision[m]]
  <2>1. read \in Read /\ read.loaded = 0 /\ read.phase = "sent"
    BY <1>1, <1>5 DEF PanelTypeOK, NoRead, Read
  <2>2. SetRead(m, "poll", read) /\ shown[m] # 0 /\ shown' = shown /\ "poll" \in Thread
    BY <1>6 DEF StartPoll, panel, Thread
  <2> HIDE DEF read
  <2> QED BY <1>4, <1>5, <2>1, <2>2
<1>7. ASSUME NEW t \in Thread, ServeRead(m, t) PROVE Goal
  <2> DEFINE read == [reader[m][t] EXCEPT !.phase = "answered",
                                          !.receipt = RoomReceipt(reader[m][t].after)]
  <2>1. RoomReceipt(reader[m][t].after) \in Receipt
    BY <1>1, ReceiptTyped DEF Read
  <2>2. read \in Read /\ read.loaded = reader[m][t].loaded /\ read.phase = "answered"
    BY <1>1, <2>1 DEF Read
  <2>3. SetRead(m, t, read) /\ shown[m] # 0 /\ shown' = shown /\ reader[m][t].loaded <= saved
    BY <1>1, <1>3, <1>7 DEF ServeRead, panel, ShownFits
  <2> HIDE DEF read
  <2> QED BY <1>4, <2>2, <2>3
<1>8. ASSUME NEW t \in Thread, HandleRead(m, t) \/ ReadFails(m, t) PROVE Goal
  <2>1. [NoRead EXCEPT !.phase = "loading"] \in Read /\
        [NoRead EXCEPT !.phase = "loading"].loaded = 0 /\
        [NoRead EXCEPT !.phase = "loading"].phase = "loading"
    BY <1>5 DEF NoRead, Read
  <2>2. PICK read \in Read : SetRead(m, t, read) /\ read.loaded = 0 /\ read.phase # "loaded"
    BY <1>5, <1>8, <2>1 DEF HandleRead, ReadFails
  <2>3. shown[m] # 0 /\ shown' = shown
    BY <1>3, <1>8 DEF HandleRead, ReadFails
  <2> QED BY <1>4, <1>5, <2>2, <2>3
<1>9. ASSUME NEW t \in Thread, ServeReload(m, t) PROVE Goal
  <2> DEFINE read == [NoRead EXCEPT !.phase = "loaded", !.loaded = saved]
  <2>1. read \in Read /\ read.loaded = saved
    BY <1>1, <1>5 DEF NoRead, Read
  <2>2. SetRead(m, t, read) /\ shown[m] # 0 /\ shown' = shown /\ shown[m] <= saved
    BY <1>1, <1>3, <1>9 DEF ServeReload, panel, ShownFits
  <2> HIDE DEF read
  <2> QED BY <1>1, <1>4, <2>1, <2>2
<1>10. ASSUME NEW t \in Thread, HandleReload(m, t) PROVE Goal
  <2> DEFINE loaded == reader[m][t].loaded
  <2>1. Restart(m, loaded) /\ loaded \in Nat /\ loaded <= saved' /\ shown[m] # 0
        /\ reader[m][t].phase = "loaded"
    BY <1>1, <1>2, <1>3, <1>10 DEF HandleReload, Reload, ShownFits
  <2>2. ShownFits(m)'
    BY <1>1, <1>2, <2>1, RestartFits
  <2>3. ASSUME m \in Viewer PROVE ViewerFits(m)'
    <3>1. loaded >= shown[m]
      BY <1>1, <2>1, <2>3 DEF ViewerFits
    <3>2. loaded # 0 /\ action[m].phase \in {"idle", "apply"}
      BY <1>1, <2>1, <2>3, <3>1 DEF ViewerFits
    <3>3. /\ shown'[m] = loaded
          /\ reader'[m].poll = NoRead
          /\ reader'[m].establish = [NoRead EXCEPT !.phase = "sent"]
      BY <1>1, <2>1, <3>2, RestartTyped
    <3>4. \A u \in Thread : reader'[m][u].phase # "loaded"
      BY <3>3 DEF Thread, NoRead
    <3> QED BY <1>2, <3>2, <3>3, <3>4 DEF ViewerFits
  <2> QED BY <2>2, <2>3
<1> QED BY <1>6, <1>7, <1>8, <1>9, <1>10 DEF ReaderStep

\* The refreshes: a panel that refreshes shows nothing until it has its answer.
LEMMA RefreshFits ==
  ASSUME PanelInv, NEW m \in Member, RefreshStep(m)
  PROVE  ShownFits(m)' /\ (m \in Viewer => ViewerFits(m)')
<1> DEFINE Goal == ShownFits(m)' /\ (m \in Viewer => ViewerFits(m)')
<1> USE DEF server, panel, bounds, SetAction, Enter
<1>1. /\ PanelTypeOK /\ ShownFits(m) /\ (m \in Viewer => ViewerFits(m))
      /\ action \in [Member -> Action] /\ action[m] \in Action
      /\ shown[m] \in Nat
      /\ action[m].revision \in Nat /\ action[m].revision <= saved
  BY RoomTyped DEF PanelInv, PanelTypeOK, ShownFits
<1>2. /\ saved' = saved /\ saved' \in Nat /\ saved <= saved' /\ action'[m].revision <= saved'
  BY <1>1, RefreshTyped, RevisionFits
<1>3. ASSUME UNCHANGED <<shown, reader>>,
             \/ action'[m].phase \in {"refreshed", "unverified"} /\ action[m].phase = "refresh"
             \/ action'[m].phase = "apply" /\ shown[m] # 0
             \/ action'[m].phase = "idle" /\ action[m].phase = "apply",
             state' = state \/ action[m].phase = "apply"
      PROVE  Goal
  <2>1. ShownFits(m)'
    BY <1>2, <1>3, StillFits
  <2>2. ASSUME m \in Viewer PROVE ViewerFits(m)'
    BY <1>1, <1>3, <2>2 DEF ViewerFits
  <2> QED BY <2>1, <2>2
<1>4. ASSUME NEW revision \in Nat, Restart(m, revision), revision <= saved',
             \/ action'[m].phase = "refresh" /\ revision = 0
             \/ action'[m].phase = "idle"
      PROVE  Goal
  <2>1. ShownFits(m)'
    BY <1>2, <1>4, RestartFits
  <2>2. /\ shown'[m] = revision
        /\ reader'[m].poll = NoRead
        /\ reader'[m].establish = IF revision = 0 THEN NoRead ELSE [NoRead EXCEPT !.phase = "sent"]
        /\ state'[m] \in {"checking", "setup-required"}
    BY <1>1, <1>4, RestartTyped
  <2>3. \A u \in Thread : reader'[m][u].phase # "loaded"
    BY <2>2 DEF Thread, NoRead
  <2>4. ViewerFits(m)'
    BY <1>4, <2>2, <2>3 DEF ViewerFits
  <2> QED BY <2>1, <2>4
<1>5. ASSUME Refresh(m) PROVE Goal
  <2>1. Restart(m, 0) /\ action'[m].phase = "refresh" /\ 0 <= saved'
    BY <1>1, <1>2, <1>5 DEF Refresh, Action
  <2> QED BY <1>4, <2>1
<1>6. ASSUME HandleRefresh(m) PROVE Goal
  <2>1. Restart(m, action[m].revision) /\ action'[m].phase = "idle"
    BY <1>1, <1>6 DEF HandleRefresh, Idle
  <2> QED BY <1>1, <1>2, <1>4, <2>1
<1>7. ASSUME ServeRefresh(m) PROVE Goal
  <2>1. action[m].phase = "refresh" /\ action'[m].phase = "refreshed"
    BY <1>1, <1>7 DEF ServeRefresh, Idle
  <2> QED BY <1>3, <1>7, <2>1 DEF ServeRefresh
<1>8. ASSUME RefreshFails(m) PROVE Goal
  <2>1. action[m].phase = "refresh" /\ action'[m].phase = "unverified"
    BY <1>1, <1>8 DEF RefreshFails, Action
  <2> QED BY <1>3, <1>8, <2>1 DEF RefreshFails
<1>9. ASSUME Apply(m) PROVE Goal
  <2>1. action'[m].phase = "apply"
    BY <1>1, <1>9 DEF Apply, Action
  <2> QED BY <1>3, <1>9, <2>1 DEF Apply
<1>10. ASSUME Applied(m) \/ ApplyFails(m) PROVE Goal
  <2>1. action[m].phase = "apply" /\ action'[m].phase = "idle" /\ UNCHANGED <<shown, reader>>
    BY <1>1, <1>10 DEF Applied, ApplyFails, Idle
  <2> QED BY <1>3, <2>1
<1> QED BY <1>5, <1>6, <1>7, <1>8, <1>9, <1>10 DEF RefreshStep

\* The shares: no viewer takes part in them.
LEMMA WritersFit ==
  ASSUME PanelInv, NEW m \in Member, ShareStep(m) \/ AnnounceStep(m)
  PROVE  ShownFits(m)' /\ m \notin Viewer
<1> USE DEF server, panel, bounds
<1>1. /\ PanelTypeOK /\ ShownFits(m) /\ action[m].revision \in Nat /\ action[m].revision <= saved
  BY RoomTyped DEF PanelInv, ShownFits
<1>2. /\ saved \in Nat /\ saved' \in Nat /\ saved <= saved' /\ action'[m].revision <= saved'
  BY RevisionFits
<1>3. m \notin Viewer
  <2>1. \/ m \in Writer
        \/ action[m].phase \notin {"idle", "refresh", "refreshed", "unverified", "apply"}
    BY DEF ShareStep, Share, ServePut, PutAnswerLost, Save, PutFails, RefusePut, HandleRefused,
           HandleSaved, AnnounceStep, ServeShareRead, HandleBaseline, Announce, ServeAppend,
           AppendAnswerLost, AppendEvent, RejectAppend, HandleReconciled, AnnounceFails,
           HandleAppended, ServeShareReload, HandleShareReload
  <2> QED BY <2>1, PanelAssumption DEF PanelInv, ViewerFits
<1>4. \/ UNCHANGED <<shown, reader>>
      \/ Restart(m, action[m].revision)
  BY DEF ShareStep, Share, ServePut, PutAnswerLost, Save, PutFails, RefusePut, HandleRefused,
         HandleSaved, AnnounceStep, ServeShareRead, HandleBaseline, Announce, ServeAppend,
         AppendAnswerLost, AppendEvent, RejectAppend, HandleReconciled, AnnounceFails,
         HandleAppended, ServeShareReload, HandleShareReload, Reload
<1>5. CASE UNCHANGED <<shown, reader>>
  BY <1>2, <1>3, <1>5, StillFits
<1>6. CASE Restart(m, action[m].revision)
  <2>1. action[m].revision <= saved'
    BY <1>1, <1>2
  <2> QED BY <1>1, <1>2, <1>3, <1>6, <2>1, RestartFits
<1> QED BY <1>4, <1>5, <1>6

\* Every step of every member preserves the panels' invariant.
LEMMA PanelNextPreserves == PanelInv /\ [PanelNext]_panelVars => PanelInv'
<1> SUFFICES ASSUME PanelInv, [PanelNext]_panelVars PROVE PanelInv'
  OBVIOUS
<1>1. CASE UNCHANGED panelVars
  BY <1>1 DEF panelVars, server, panel, bounds, PanelInv, PanelTypeOK, AnnouncedOnce, Announces,
              Announcing, ShownFits, ViewerFits
<1>2. ASSUME NEW m \in Member,
             ReaderStep(m) \/ RefreshStep(m) \/ ShareStep(m) \/ AnnounceStep(m)
      PROVE  PanelInv'
  <2>1. PanelTypeOK' /\ OthersRest(m) /\ PanelTypeOK
    BY <1>2, PanelStepTyped DEF PanelInv
  <2>2. AnnouncedOnce' /\ \A n \in Member : Announces(n)'
    BY <1>2, <2>1, AnnouncingEffect, AnnouncementsPreserved
  <2>3. ShownFits(m)' /\ (m \in Viewer => ViewerFits(m)')
    BY <1>2, ReaderFits, RefreshFits, WritersFit
  <2>4. saved' \in Nat /\ saved <= saved' /\ saved \in Nat
    BY <1>2, RevisionFits
  <2>5. ASSUME NEW n \in Member \ {m} PROVE ShownFits(n)'
    <3>1. action'[n].revision <= saved'
      <4>1. action[n].revision \in Nat /\ action[n].revision <= saved
        BY <2>1, RoomTyped DEF PanelInv, ShownFits
      <4>2. action'[n].revision = action[n].revision
        BY <2>1 DEF OthersRest
      <4> QED BY <2>4, <4>1, <4>2
    <3> QED BY <2>1, <2>4, <3>1, StillFits DEF OthersRest
  <2>6. ASSUME NEW n \in Viewer, n # m PROVE ViewerFits(n)'
    BY <2>1, <2>6 DEF PanelInv, ViewerFits, OthersRest, Member
  <2> QED BY <2>1, <2>2, <2>3, <2>5, <2>6 DEF PanelInv
<1> QED BY <1>1, <1>2 DEF PanelNext

\* Every panel opens with nothing shown.
LEMMA PanelInitEstablishes == PanelInit => PanelInv
<1> SUFFICES ASSUME PanelInit PROVE PanelInv
  OBVIOUS
<1>1. PanelTypeOK
  BY PanelInitTyped
<1>2. AnnouncedOnce
  BY DEF PanelInit, AnnouncedOnce
<1>3. ASSUME NEW m \in Member
      PROVE  /\ action[m].phase = "refresh" /\ action[m].revision = 0 /\ shown[m] = 0
             /\ saved = 0 /\ state[m] = "checking"
             /\ \A t \in Thread : reader[m][t].loaded = 0 /\ reader[m][t].phase = "off"
  BY DEF PanelInit, Idle, NoRead
<1>4. ASSUME NEW m \in Member PROVE Announces(m) /\ ShownFits(m)
  BY <1>3 DEF Announces, Announcing, ShownFits
<1>5. ASSUME NEW v \in Viewer PROVE ViewerFits(v)
  BY <1>3 DEF ViewerFits, Member
<1> QED BY <1>1, <1>2, <1>4, <1>5 DEF PanelInv

-----------------------------------------------------------------------------
(* The panels: theorems *)

LEMMA PanelInvariance == PanelSpec => []PanelInv
BY PanelInitEstablishes, PanelNextPreserves, PTL DEF PanelSpec

\* The panels, the room and the team API keep their types through every
\* interleaving of reads, reloads, refreshes, shares and failed requests.
THEOREM PanelsTypeCorrect == PanelSpec => []PanelTypeOK
<1>1. PanelInv => PanelTypeOK
  BY DEF PanelInv
<1> QED BY <1>1, PanelInvariance, PTL

\* Every event of the room announces a saved revision, and no revision is
\* announced twice: a share whose append met a conflict or lost its answer never
\* appends what is already there (shareProject, reconcileCollaborationAppend).
THEOREM AnnouncementsStayOnce == PanelSpec => []AnnouncedOnce
<1>1. PanelInv => AnnouncedOnce
  BY DEF PanelInv
<1> QED BY <1>1, PanelInvariance, PTL

\* What the threads and the refreshes of a viewer show.
LEMMA ViewerShows ==
  ASSUME PanelInv, NEW v \in Viewer, ReaderStep(v) \/ RefreshStep(v), shown'[v] # 0
  PROVE  shown'[v] >= shown[v]
<1> USE DEF server, panel, bounds
<1>1. /\ PanelTypeOK /\ ViewerFits(v) /\ v \in Member /\ shown[v] \in Nat
      /\ \A t \in Thread : reader[v][t].loaded \in Nat
      /\ action[v].revision \in Nat
  BY RoomTyped DEF PanelInv, PanelTypeOK, Read, Member
<1>2. CASE shown' = shown
  BY <1>1, <1>2
<1>3. ASSUME NEW t \in Thread, HandleReload(v, t) PROVE shown'[v] >= shown[v]
  <2>1. /\ Restart(v, reader[v][t].loaded) /\ reader[v][t].loaded >= shown[v]
    BY <1>1, <1>3 DEF HandleReload, Reload, ViewerFits
  <2> QED BY <1>1, <2>1, RestartTyped
<1>4. CASE HandleRefresh(v)
  <2>1. /\ Restart(v, action[v].revision) /\ shown[v] = 0
    BY <1>1, <1>4 DEF HandleRefresh, ViewerFits
  <2>2. shown'[v] = action[v].revision
    BY <1>1, <2>1, RestartTyped
  <2> QED BY <1>1, <2>1, <2>2
<1>5. CASE Refresh(v)
  <2>1. Restart(v, 0)
    BY <1>5 DEF Refresh
  <2> QED BY <1>1, <2>1, RestartTyped
<1>6. CASE ReaderStep(v)
  <2>1. \/ shown' = shown
        \/ \E t \in Thread : HandleReload(v, t)
    BY <1>6 DEF ReaderStep, StartPoll, ServeRead, HandleRead, ServeReload, ReadFails
  <2> QED BY <1>2, <1>3, <2>1
<1>7. CASE RefreshStep(v)
  <2>1. shown' = shown \/ HandleRefresh(v) \/ Refresh(v)
    BY <1>7 DEF RefreshStep, ServeRefresh, RefreshFails, Apply, Applied, ApplyFails
  <2> QED BY <1>2, <1>4, <1>5, <2>1
<1> QED BY <1>6, <1>7

\* The revision a viewer is shown never goes back, whatever late answers and
\* aborted reloads the two reader threads meet (replaceWorkspace, reload).
THEOREM ViewersNeverRegress == PanelSpec => ViewerNeverRegresses
<1>1. ASSUME PanelInv, [PanelNext]_panelVars
      PROVE  \A v \in Viewer : shown'[v] # 0 => shown'[v] >= shown[v]
  <2> SUFFICES ASSUME NEW v \in Viewer, shown'[v] # 0 PROVE shown'[v] >= shown[v]
    OBVIOUS
  <2>1. v \in Member /\ shown[v] \in Nat
    BY <1>1 DEF PanelInv, PanelTypeOK, Member
  <2>2. CASE UNCHANGED panelVars
    BY <2>1, <2>2 DEF panelVars, panel
  <2>3. ASSUME NEW m \in Member,
               ReaderStep(m) \/ RefreshStep(m) \/ ShareStep(m) \/ AnnounceStep(m)
        PROVE  shown'[v] >= shown[v]
    <3>1. CASE m = v
      BY <1>1, <2>3, <3>1, ViewerShows, WritersFit
    <3>2. CASE m # v
      BY <1>1, <2>1, <2>3, <3>2, PanelStepTyped DEF OthersRest, PanelInv
    <3> QED BY <3>1, <3>2
  <2> QED BY <1>1, <2>2, <2>3 DEF PanelNext
<1>2. PanelInv /\ [PanelNext]_panelVars =>
        [\A v \in Viewer : shown'[v] # 0 => shown'[v] >= shown[v]]_panelVars
  BY <1>1
<1> QED BY <1>2, PanelInvariance, PTL DEF PanelSpec, ViewerNeverRegresses

-----------------------------------------------------------------------------
(* The panels: how far the announcements are out of order *)

LEMMA OlderIsFinite ==
  ASSUME PanelTypeOK, NEW i
  PROVE  IsFiniteSet(Older(i)) /\ Cardinality(Older(i)) \in Nat
<1>1. IsFiniteSet(1..saved) /\ Older(i) \in SUBSET (1..saved)
  BY FS_Interval DEF PanelTypeOK, Older
<1> QED BY <1>1, FS_Subset, FS_CardinalityType

\* What is older than an event and still to come was being announced already.
LEMMA OlderOnlyShrinks ==
  ASSUME PanelInv, NEW m \in Member, OthersRest(m),
         AnnouncesAsBefore(m) \/ SavesNext(m) \/ AppendsOwn(m),
         NEW i \in DOMAIN announced
  PROVE  /\ i \in DOMAIN announced' /\ announced'[i] = announced[i]
         /\ Older(i)' \subseteq Older(i)
<1>1. /\ PanelTypeOK /\ saved \in Nat /\ Len(announced) \in Nat
      /\ DOMAIN announced = 1..Len(announced)
      /\ announced[i] \in 1..saved
      /\ action[m].revision \in Nat
      /\ Writer \subseteq Member
  BY RoomTyped DEF PanelInv, AnnouncedOnce, Member
<1>2. ASSUME NEW w \in Writer, w # m, Announcing(w)'
      PROVE  Announcing(w) /\ action'[w].revision = action[w].revision
  BY <1>1, <1>2 DEF OthersRest, Announcing
<1>3. CASE AnnouncesAsBefore(m)
  BY <1>1, <1>2, <1>3 DEF AnnouncesAsBefore, Older
<1>4. CASE SavesNext(m)
  <2>1. announced' = announced /\ saved' = saved + 1
    BY <1>4 DEF SavesNext
  <2>2. ASSUME NEW r \in Older(i)' PROVE r \in Older(i)
    <3>1. r \in 1..saved /\ r < announced[i]
      BY <1>1, <2>1, <2>2 DEF Older
    <3>2. CASE \E j \in DOMAIN announced : j > i /\ announced[j] = r
      BY <3>1, <3>2 DEF Older
    <3>3. CASE \E w \in Writer : Announcing(w)' /\ action'[w].revision = r
      <4>1. PICK w \in Writer : Announcing(w)' /\ action'[w].revision = r
        BY <3>3
      <4>2. w # m
        BY <1>1, <1>4, <3>1, <4>1 DEF SavesNext
      <4> QED BY <1>2, <3>1, <4>1, <4>2 DEF Older
    <3> QED BY <2>1, <2>2, <3>2, <3>3 DEF Older
  <2> QED BY <2>1, <2>2
<1>5. CASE AppendsOwn(m)
  <2>1. /\ Announcing(m) /\ ~Announcing(m)' /\ saved' = saved /\ m \in Writer
        /\ announced' = Append(announced, action[m].revision)
    BY <1>5 DEF AppendsOwn, PanelInv, Announces
  <2>2. /\ DOMAIN announced' = 1..(Len(announced) + 1)
        /\ \A j \in DOMAIN announced : announced'[j] = announced[j]
        /\ announced'[Len(announced) + 1] = action[m].revision
    BY <1>1, <2>1, AppendExtends
  <2>3. i \in DOMAIN announced' /\ announced'[i] = announced[i]
    BY <1>1, <2>2
  <2>4. ASSUME NEW r \in Older(i)' PROVE r \in Older(i)
    <3>1. r \in 1..saved /\ r < announced[i]
      BY <1>1, <2>1, <2>3, <2>4 DEF Older
    <3>2. ASSUME NEW j \in DOMAIN announced', j > i, announced'[j] = r PROVE r \in Older(i)
      <4>1. CASE j \in DOMAIN announced
        BY <2>2, <3>1, <3>2, <4>1 DEF Older
      <4>2. CASE j = Len(announced) + 1
        BY <2>1, <2>2, <3>1, <3>2, <4>2 DEF Older
      <4> QED BY <1>1, <2>2, <3>2, <4>1, <4>2
    <3>3. ASSUME NEW w \in Writer, Announcing(w)', action'[w].revision = r PROVE r \in Older(i)
      BY <1>2, <2>1, <3>1, <3>3 DEF Older
    <3> QED BY <2>4, <3>2, <3>3 DEF Older
  <2> QED BY <2>3, <2>4
<1> QED BY <1>3, <1>4, <1>5

\* A new event is behind at most one older revision of each of the other writers.
LEMMA FewOlderPreserved ==
  ASSUME PanelInv, PanelTypeOK', FewOlder, IsFiniteSet(Writer),
         NEW m \in Member, OthersRest(m),
         AnnouncesAsBefore(m) \/ SavesNext(m) \/ AppendsOwn(m)
  PROVE  FewOlder'
<1>1. PanelTypeOK /\ Len(announced) \in Nat /\ DOMAIN announced = 1..Len(announced)
  BY RoomTyped DEF PanelInv
<1>2. Cardinality(Writer) \in Nat
  BY FS_CardinalityType
<1>3. ASSUME NEW i \in DOMAIN announced PROVE Cardinality(Older(i)') < Cardinality(Writer)
  <2>1. Older(i)' \subseteq Older(i)
    BY OlderOnlyShrinks
  <2>2. IsFiniteSet(Older(i)) /\ Cardinality(Older(i)) \in Nat
    BY <1>1, OlderIsFinite
  <2>3. Cardinality(Older(i)') <= Cardinality(Older(i)) /\ IsFiniteSet(Older(i)')
    BY <2>1, <2>2, FS_Subset
  <2>4. Cardinality(Older(i)') \in Nat
    BY <2>3, FS_CardinalityType
  <2> QED BY <1>2, <2>2, <2>3, <2>4 DEF FewOlder
<1>4. CASE announced' = announced
  BY <1>3, <1>4 DEF FewOlder
<1>5. CASE AppendsOwn(m)
  <2>1. /\ ~Announcing(m)' /\ m \in Writer /\ action[m].revision \in Nat
        /\ announced' = Append(announced, action[m].revision)
    BY <1>1, <1>5, RoomTyped DEF AppendsOwn, PanelInv, Announces
  <2>2. DOMAIN announced' = 1..(Len(announced) + 1)
    BY <1>1, <2>1, AppendExtends
  <2>0. PICK new \in Nat : new = Len(announced) + 1
    BY <1>1
  <2> DEFINE others == Writer \ {m}
             older == Older(new)'
             announcer == [r \in older |-> CHOOSE w \in others : action'[w].revision = r]
  <2>3. ASSUME NEW r \in older PROVE \E w \in others : action'[w].revision = r
    BY <1>1, <2>0, <2>1, <2>2, <2>3 DEF Older
  <2>4. ASSUME NEW r \in older PROVE announcer[r] \in others /\ action'[announcer[r]].revision = r
    BY <2>3, <2>4
  <2>5. announcer \in [older -> others]
    BY <2>4
  <2> HIDE DEF announcer, older, others
  <2>6. announcer \in Injection(older, others)
    BY <2>4, <2>5 DEF Injection, IsInjective
  <2>7. IsFiniteSet(others) /\ Cardinality(others) = Cardinality(Writer) - 1
    BY <2>1, FS_RemoveElement DEF others
  <2>8. IsFiniteSet(older) /\ Cardinality(older) <= Cardinality(others)
    BY <2>6, <2>7, FS_Injection
  <2>9. Cardinality(Older(new)') < Cardinality(Writer)
    <3>1. Cardinality(older) < Cardinality(Writer)
      BY <1>2, <2>7, <2>8, FS_CardinalityType
    <3> QED BY <3>1 DEF older
  <2>10. \A i \in DOMAIN announced' : i \in DOMAIN announced \/ i = new
    BY <1>1, <2>0, <2>2
  <2> QED BY <1>3, <2>9, <2>10 DEF FewOlder
<1> QED BY <1>4, <1>5 DEF AnnouncesAsBefore, SavesNext

-----------------------------------------------------------------------------
(* The panels: what a read of the room misses *)

\* With no more writers than the room keeps events, what a read from the start has
\* missed is older than some event that it returns (readReceipt).
LEMMA WindowIsComplete ==
  ASSUME PanelInv, FewOlder, IsFiniteSet(Writer), Cardinality(Writer) <= RetainedEvents
  PROVE  Complete(RoomReceipt(0))
<1>1. /\ PanelTypeOK /\ AnnouncedOnce /\ Len(announced) \in Nat
      /\ DOMAIN announced = 1..Len(announced)
      /\ \A i \in 1..Len(announced) : announced[i] \in 1..saved
      /\ saved \in Nat /\ RetainedEvents \in Nat \ {0}
  BY RoomTyped, PanelAssumption DEF PanelInv, AnnouncedOnce
<1>2. WindowStart \in Nat \ {0}
  BY <1>1 DEF WindowStart
<1>3. RoomReceipt(0).news = {announced[j] : j \in WindowStart..Len(announced)}
  <2>1. {j \in WindowStart..Len(announced) : j > 0} = WindowStart..Len(announced)
    BY <1>1, <1>2
  <2> QED BY <2>1 DEF RoomReceipt
<1>4. RoomReceipt(0).revision = Len(announced)
  BY DEF RoomReceipt
<1> SUFFICES ASSUME NEW i \in 1..Len(announced)
             PROVE  \E r \in RoomReceipt(0).news : announced[i] <= r
  BY <1>4 DEF Complete
<1>5. CASE i >= WindowStart
  BY <1>1, <1>2, <1>3, <1>5
<1>6. ASSUME i < WindowStart,
             \A j \in WindowStart..Len(announced) : announced[j] < announced[i]
      PROVE  FALSE
  <2> DEFINE window == WindowStart..Len(announced)
             event  == [j \in window |-> announced[j]]
  <2>1. WindowStart = Len(announced) - RetainedEvents + 1 /\ Len(announced) > RetainedEvents
    BY <1>1, <1>6 DEF WindowStart
  <2>2. ASSUME NEW j \in window
        PROVE  /\ j \in DOMAIN announced /\ announced[j] \in 1..saved
               /\ announced[j] < announced[i] /\ j > i
    BY <1>1, <1>2, <1>6, <2>2
  <2>3. event \in [window -> Older(i)]
    BY <2>2 DEF Older
  <2>4. \A j, k \in window : announced[j] = announced[k] => j = k
    BY <1>1, <2>2 DEF AnnouncedOnce
  <2>5. event \in Injection(window, Older(i))
    BY <2>3, <2>4 DEF Injection, IsInjective
  <2>6. Cardinality(window) = RetainedEvents
    BY <1>1, <1>2, <2>1, FS_Interval
  <2> HIDE DEF window, event
  <2>7. /\ IsFiniteSet(Older(i)) /\ Cardinality(Older(i)) \in Nat
        /\ Cardinality(window) <= Cardinality(Older(i))
    BY <1>1, <2>5, OlderIsFinite, FS_Injection
  <2>8. Cardinality(Writer) \in Nat /\ Cardinality(Older(i)) < Cardinality(Writer)
    BY <1>1, FS_CardinalityType DEF FewOlder
  <2> QED BY <1>1, <2>6, <2>7, <2>8
<1>7. ASSUME NEW j \in WindowStart..Len(announced) PROVE announced[j] \in Nat
  BY <1>1, <1>2, <1>7
<1>8. CASE i < WindowStart
  <2>1. PICK j \in WindowStart..Len(announced) : ~(announced[j] < announced[i])
    BY <1>6, <1>8
  <2>2. announced[j] \in RoomReceipt(0).news
    BY <1>3
  <2>3. announced[j] \in Nat /\ announced[i] \in Nat
    BY <1>1, <1>7
  <2>4. announced[i] <= announced[j]
    BY <2>1, <2>3
  <2> QED BY <2>2, <2>4
<1> QED BY <1>1, <1>2, <1>5, <1>8

\* A read with no news has passed no event (readReceipt).
LEMMA NoNewsIsNoEvent ==
  ASSUME PanelTypeOK, NEW after \in Nat, RoomReceipt(after).news = {}
  PROVE  Len(announced) <= after
<1>1. /\ Len(announced) \in Nat /\ RetainedEvents \in Nat \ {0}
  BY RoomTyped, PanelAssumption
<1>2. ASSUME Len(announced) > after
      PROVE  Len(announced) \in {i \in WindowStart..Len(announced) : i > after}
  BY <1>1, <1>2 DEF WindowStart
<1>3. ASSUME Len(announced) > after PROVE announced[Len(announced)] \in RoomReceipt(after).news
  BY <1>2, <1>3 DEF RoomReceipt
<1> QED BY <1>1, <1>3

-----------------------------------------------------------------------------
(* The panels: the cursor and what is shown *)

\* The room only grows, and what has failed stays so.
LEMMA RoomOnlyGrows ==
  ASSUME PanelTypeOK, NEW m \in Member,
         AnnouncesAsBefore(m) \/ SavesNext(m) \/ AppendsOwn(m)
  PROVE  /\ Len(announced) \in Nat /\ Len(announced') \in Nat
         /\ Len(announced) <= Len(announced')
         /\ \A i \in 1..Len(announced) : announced'[i] = announced[i]
<1>1. /\ Len(announced) \in Nat /\ DOMAIN announced = 1..Len(announced)
      /\ action[m].revision \in Nat
  BY RoomTyped
<1>2. CASE announced' = announced
  BY <1>1, <1>2
<1>3. CASE announced' = Append(announced, action[m].revision)
  BY <1>1, <1>3, AppendExtends
<1> QED BY <1>2, <1>3 DEF AnnouncesAsBefore, SavesNext, AppendsOwn

LEMMA FailedOnlyGrows ==
  ASSUME NEW m \in Member,
         ReaderStep(m) \/ RefreshStep(m) \/ ShareStep(m) \/ AnnounceStep(m)
  PROVE  failed \subseteq failed'
<1> USE DEF bounds, Fails
<1>1. CASE ReaderStep(m)
  BY <1>1 DEF ReaderStep, StartPoll, ServeRead, HandleRead, ServeReload, HandleReload, ReadFails
<1>2. CASE RefreshStep(m)
  BY <1>2 DEF RefreshStep, Refresh, ServeRefresh, HandleRefresh, RefreshFails, Apply, Applied,
              ApplyFails
<1>3. CASE ShareStep(m)
  BY <1>3 DEF ShareStep, Share, ServePut, PutAnswerLost, PutFails, RefusePut, HandleRefused,
              HandleSaved
<1>4. CASE AnnounceStep(m)
  BY <1>4 DEF AnnounceStep, ServeShareRead, HandleBaseline, Announce, ServeAppend,
              AppendAnswerLost, RejectAppend, HandleReconciled, AnnounceFails, HandleAppended,
              ServeShareReload, HandleShareReload
<1> QED BY <1>1, <1>2, <1>3, <1>4

\* A viewer whose threads, cursor and workspace a step leaves alone.
LEMMA ViewerUntouched ==
  ASSUME PanelTypeOK, NEW v \in Viewer, ReadsFit(v), Follows(v),
         Len(announced) \in Nat, Len(announced') \in Nat, Len(announced) <= Len(announced'),
         \A i \in 1..Len(announced) : announced'[i] = announced[i],
         shown'[v] = shown[v], roomRevision'[v] = roomRevision[v], reader'[v] = reader[v],
         failed \subseteq failed'
  PROVE  ReadsFit(v)' /\ Follows(v)'
<1>1. /\ v \in Member /\ shown[v] \in Nat /\ roomRevision[v] \in Nat
      /\ \A t \in Thread : /\ reader[v][t] \in Read
                           /\ reader[v][t].after \in Nat /\ reader[v][t].receipt \in Receipt
                           /\ reader[v][t].receipt.revision \in Nat
      /\ "poll" \in Thread /\ "establish" \in Thread
  BY DEF PanelTypeOK, Member, Read, Receipt, Thread
<1>2. /\ roomRevision[v] <= Len(announced')
      /\ \A t \in Thread : /\ reader[v][t].after <= Len(announced')
                           /\ reader[v][t].receipt.revision <= Len(announced')
  BY <1>1 DEF ReadsFit
<1>3. ASSUME NEW revision \in Nat, revision <= Len(announced)
      PROVE  \A i \in 1..revision : announced'[i] = announced[i]
  BY <1>3
<1>4. reader[v].establish.phase = "answered" => Complete(reader[v].establish.receipt)'
  <2>1. reader[v].establish.receipt.revision \in Nat
        /\ reader[v].establish.receipt.revision <= Len(announced)
    BY <1>1 DEF ReadsFit
  <2> QED BY <1>3, <2>1 DEF ReadsFit, Complete
<1>5. ReadsFit(v)'
  BY <1>2, <1>4 DEF ReadsFit
<1>6. Settling(v)' <=> Settling(v)
  BY DEF Settling, CallsForReload
<1>7. NothingFailed' => NothingFailed
  BY DEF NothingFailed
<1>8. roomRevision[v] <= Len(announced) /\ reader[v].poll.after <= Len(announced)
  BY <1>1 DEF ReadsFit
<1>9. /\ Current(v)' <=> Current(v)
      /\ Covered(v, reader[v].poll.after)' <=> Covered(v, reader[v].poll.after)
  BY <1>1, <1>3, <1>8 DEF Current, Covered
<1>10. Follows(v)'
  BY <1>6, <1>7, <1>9 DEF Follows
<1> QED BY <1>5, <1>10

\* A viewer whose effect runs again reads the room from the start.
LEMMA ViewerRestarts ==
  ASSUME PanelTypeOK, NEW v \in Viewer, ReadsFit(v), NEW revision \in Nat, Restart(v, revision),
         roomRevision'[v] \in {0, roomRevision[v]}, announced' = announced
  PROVE  ReadsFit(v)' /\ Follows(v)'
<1>1. /\ shown'[v] = revision
      /\ reader'[v].poll = NoRead
      /\ reader'[v].establish = IF revision = 0 THEN NoRead ELSE [NoRead EXCEPT !.phase = "sent"]
  BY RestartTyped DEF Member
<1>2. Len(announced) \in Nat /\ roomRevision'[v] <= Len(announced)
  BY RoomTyped DEF ReadsFit
<1>3. /\ reader'[v].poll.phase = "off" /\ reader'[v].poll.after = 0
      /\ reader'[v].poll.receipt.revision = 0
      /\ reader'[v].establish.after = 0 /\ reader'[v].establish.receipt.revision = 0
      /\ reader'[v].establish.phase = IF revision = 0 THEN "off" ELSE "sent"
  BY <1>1 DEF NoRead, NoReceipt
<1>4. ReadsFit(v)'
  <2>1. \A t \in Thread : reader'[v][t].after = 0 /\ reader'[v][t].receipt.revision = 0
    BY <1>3 DEF Thread
  <2>2. 0 <= Len(announced)
    BY <1>2
  <2> QED BY <1>2, <1>3, <2>1, <2>2 DEF ReadsFit
<1>5. Follows(v)'
  BY <1>1, <1>3 DEF Follows, Settling
<1> QED BY <1>4, <1>5

\* A step of a viewer's poll leaves the establishing read as it was.
LEMMA PollMoves ==
  ASSUME PanelTypeOK, NEW v \in Viewer, ReadsFit(v), NEW read \in Read,
         SetRead(v, "poll", read), shown' = shown, announced' = announced,
         roomRevision'[v] <= Len(announced),
         read.after <= Len(announced), read.receipt.revision <= Len(announced),
         read.phase = "answered" /\ read.receipt.news = {} => read.receipt.revision <= read.after,
         NothingFailed' /\ shown[v] # 0 /\ ~Settling(v) =>
           /\ Covered(v, roomRevision'[v]) \/ read.phase \in {"loading", "loaded"}
           /\ read.phase \in {"sent", "answered"} => Covered(v, read.after)
  PROVE  ReadsFit(v)' /\ Follows(v)'
<1>1. v \in Member /\ "poll" \in Thread /\ "establish" \in Thread \ {"poll"}
  BY DEF Member, Thread
<1>2. reader'[v].poll = read /\ reader'[v].establish = reader[v].establish
  BY <1>1, SetReadTyped
<1>3. ReadsFit(v)'
  <2>1. \A t \in Thread : /\ reader'[v][t].after <= Len(announced)
                          /\ reader'[v][t].receipt.revision <= Len(announced)
    BY <1>1, <1>2 DEF ReadsFit, Thread
  <2>2. reader'[v].establish.phase = "answered" => Complete(reader'[v].establish.receipt)
    BY <1>2 DEF ReadsFit
  <2>3. Complete(reader[v].establish.receipt)' <=> Complete(reader'[v].establish.receipt)
    BY DEF Complete
  <2> QED BY <1>2, <2>1, <2>2, <2>3 DEF ReadsFit
<1>4. Settling(v)' <=> Settling(v)
  BY <1>2 DEF Settling, CallsForReload
<1>5. /\ Current(v)' <=> Covered(v, roomRevision'[v])
      /\ Covered(v, reader[v].poll.after)' <=> Covered(v, read.after)
  BY <1>2 DEF Current, Covered
<1> QED BY <1>2, <1>3, <1>4, <1>5 DEF Follows

\* A step of the establishing read leaves the poll as it was.
LEMMA EstablishMoves ==
  ASSUME PanelTypeOK, NEW v \in Viewer, ReadsFit(v), NEW read \in Read,
         SetRead(v, "establish", read), shown' = shown, announced' = announced,
         roomRevision'[v] <= Len(announced),
         read.after = 0, read.receipt.revision <= Len(announced),
         read.phase = "answered" => Complete(read.receipt),
         \/ /\ read.phase # "off"
            /\ read.phase = "answered" =>
                 read.receipt.gap \/ \E r \in read.receipt.news : r > shown[v]
         \/ NothingFailed' /\ shown[v] # 0 =>
              /\ Covered(v, roomRevision'[v]) \/ reader[v].poll.phase \in {"loading", "loaded"}
              /\ reader[v].poll.phase \in {"sent", "answered"} => Covered(v, reader[v].poll.after)
  PROVE  ReadsFit(v)' /\ Follows(v)'
<1>1. v \in Member /\ "establish" \in Thread /\ "poll" \in Thread \ {"establish"}
  BY DEF Member, Thread
<1>2. reader'[v].establish = read /\ reader'[v].poll = reader[v].poll
  BY <1>1, SetReadTyped
<1>3. ReadsFit(v)'
  <2>1. Len(announced) \in Nat /\ read.after <= Len(announced)
    BY RoomTyped
  <2>2. \A t \in Thread : /\ reader'[v][t].after <= Len(announced)
                          /\ reader'[v][t].receipt.revision <= Len(announced)
    BY <1>1, <1>2, <2>1 DEF ReadsFit, Thread
  <2>3. reader'[v].establish.phase = "answered" => Complete(reader'[v].establish.receipt)
    BY <1>2
  <2>4. Complete(reader[v].establish.receipt)' <=> Complete(reader'[v].establish.receipt)
    BY DEF Complete
  <2> QED BY <1>2, <2>2, <2>3, <2>4 DEF ReadsFit
<1>4. Settling(v)' <=> /\ read.phase # "off"
                       /\ read.phase = "answered" =>
                            read.receipt.gap \/ \E r \in read.receipt.news : r > shown[v]
  BY <1>2 DEF Settling, CallsForReload
<1>5. /\ Current(v)' <=> Covered(v, roomRevision'[v])
      /\ Covered(v, reader[v].poll.after)' <=> Covered(v, reader[v].poll.after)
  BY <1>2 DEF Current, Covered
<1> QED BY <1>2, <1>3, <1>4, <1>5 DEF Follows

\* An answer of which nothing is newer than what is shown, and which is complete.
LEMMA CompleteIsCovered ==
  ASSUME PanelTypeOK, NEW v \in Viewer, NEW answer \in Receipt, Complete(answer),
         answer.revision <= Len(announced),
         \A r \in answer.news : ~(r > shown[v]),
         NEW revision \in Nat, revision <= answer.revision
  PROVE  Covered(v, revision)
<1>1. /\ shown[v] \in Nat /\ answer.revision \in Nat /\ answer.news \subseteq Nat
      /\ Len(announced) \in Nat
      /\ \A i \in 1..Len(announced) : announced[i] \in Nat
  BY DEF PanelTypeOK, Member, Receipt
<1> SUFFICES ASSUME NEW i \in 1..revision PROVE announced[i] <= shown[v]
  BY DEF Covered
<1>2. i \in 1..answer.revision /\ i \in 1..Len(announced)
  BY <1>1
<1>3. PICK r \in answer.news : announced[i] <= r
  BY <1>2 DEF Complete
<1>4. r \in Nat /\ r <= shown[v] /\ announced[i] \in Nat
  BY <1>1, <1>2, <1>3
<1> QED BY <1>1, <1>3, <1>4

\* What a viewer's threads do keeps its cursor behind what it shows or is about
\* to load (poll, establish, reload, failHonestly).
LEMMA ReaderFollows ==
  ASSUME FollowInv, IsFiniteSet(Writer), Cardinality(Writer) <= RetainedEvents,
         NEW v \in Viewer, ReaderStep(v)
  PROVE  ReadsFit(v)' /\ Follows(v)'
<1> DEFINE Goal == ReadsFit(v)' /\ Follows(v)'
<1> USE DEF server, panel, bounds
<1>1. /\ PanelInv /\ PanelTypeOK /\ FewOlder /\ ReadsFit(v) /\ Follows(v) /\ ShownFits(v)
      /\ v \in Member /\ "poll" \in Thread /\ "establish" \in Thread
      /\ Len(announced) \in Nat /\ announced' = announced
      /\ roomRevision[v] \in Nat /\ roomRevision[v] <= Len(announced)
      /\ failed \subseteq failed'
  BY ReaderTyped, RoomTyped, FailedOnlyGrows
     DEF FollowInv, PanelInv, PanelTypeOK, ReadsFit, Member, Thread
<1>2. ASSUME NEW t \in Thread
      PROVE  /\ reader[v][t] \in Read /\ reader[v][t].after \in Nat
             /\ reader[v][t].after <= Len(announced)
             /\ reader[v][t].receipt \in Receipt /\ reader[v][t].receipt.revision \in Nat
             /\ reader[v][t].receipt.revision <= Len(announced)
             /\ reader[v][t].loaded \in Nat
  BY <1>1 DEF PanelTypeOK, ReadsFit, Read, Receipt
<1>3. NothingFailed' => NothingFailed
  BY <1>1 DEF NothingFailed
<1>4. /\ NoRead \in Read /\ NoRead.after = 0 /\ NoRead.receipt.revision = 0
      /\ NoRead.phase = "off" /\ 0 <= Len(announced)
  BY <1>1 DEF NoRead, Read, NoReceipt, Receipt
<1>5. ASSUME NEW loaded \in Nat
      PROVE  LET loads    == [NoRead EXCEPT !.phase = "loading"]
                 reloaded == [NoRead EXCEPT !.phase = "loaded", !.loaded = loaded]
             IN  /\ loads \in Read /\ loads.phase = "loading"
                 /\ loads.after = 0 /\ loads.receipt.revision = 0
                 /\ reloaded \in Read /\ reloaded.phase = "loaded"
                 /\ reloaded.after = 0 /\ reloaded.receipt.revision = 0
  BY <1>4 DEF NoRead, Read, NoReceipt
<1>6. CASE StartPoll(v)
  <2> DEFINE read == [NoRead EXCEPT !.phase = "sent", !.after = roomRevision[v]]
  <2>1. /\ read \in Read /\ read.phase = "sent" /\ read.after = roomRevision[v]
        /\ read.receipt.revision = 0
    BY <1>1, <1>4 DEF NoRead, Read, NoReceipt
  <2>2. /\ SetRead(v, "poll", read) /\ shown' = shown /\ roomRevision' = roomRevision
        /\ reader[v].poll.phase = "off"
    BY <1>6 DEF StartPoll
  <2>3. NothingFailed' /\ shown[v] # 0 /\ ~Settling(v) => Covered(v, roomRevision[v])
    BY <1>1, <1>3, <2>2 DEF Follows, Current, Covered
  <2> HIDE DEF read
  <2> QED BY <1>1, <1>4, <2>1, <2>2, <2>3, PollMoves
<1>7. CASE ServeRead(v, "poll")
  <2> DEFINE answer == RoomReceipt(reader[v].poll.after)
             read == [reader[v].poll EXCEPT !.phase = "answered", !.receipt = answer]
  <2>1. /\ answer \in Receipt /\ answer.revision = Len(announced)
        /\ answer.news = {} => answer.revision <= reader[v].poll.after
    BY <1>1, <1>2, ReceiptTyped, NoNewsIsNoEvent
  <2> HIDE DEF answer
  <2>2. /\ read \in Read /\ read.phase = "answered" /\ read.receipt = answer
        /\ read.after = reader[v].poll.after
    BY <1>1, <1>2, <2>1 DEF Read
  <2>3. /\ SetRead(v, "poll", read) /\ shown' = shown /\ roomRevision' = roomRevision
        /\ reader[v].poll.phase = "sent"
    BY <1>7 DEF ServeRead, answer
  <2>4. NothingFailed' /\ shown[v] # 0 /\ ~Settling(v) =>
          Covered(v, roomRevision[v]) /\ Covered(v, reader[v].poll.after)
    BY <1>1, <1>3, <2>3 DEF Follows, Current, Covered
  <2>5. read.after <= Len(announced) /\ read.receipt.revision <= Len(announced)
    BY <1>1, <1>2, <2>1, <2>2
  <2> HIDE DEF read
  <2> QED BY <1>1, <2>1, <2>2, <2>3, <2>4, <2>5, PollMoves
<1>8. CASE ServeRead(v, "establish")
  <2> DEFINE answer == RoomReceipt(0)
             read == [reader[v].establish EXCEPT !.phase = "answered", !.receipt = answer]
  <2>1. /\ answer \in Receipt /\ answer.revision = Len(announced) /\ Complete(answer)
    BY <1>1, ReceiptTyped, WindowIsComplete
  <2> HIDE DEF answer
  <2>2. /\ read \in Read /\ read.phase = "answered" /\ read.receipt = answer
        /\ read.after = 0
    BY <1>1, <1>2, <2>1 DEF Read, ReadsFit
  <2>3. SetRead(v, "establish", read) /\ shown' = shown /\ roomRevision' = roomRevision
    BY <1>1, <1>8 DEF ServeRead, answer, ReadsFit
  <2>4. \/ answer.gap \/ \E r \in answer.news : r > shown[v]
        \/ Covered(v, roomRevision[v]) /\ Covered(v, reader[v].poll.after)
    BY <1>1, <1>2, <2>1, CompleteIsCovered
  <2>5. Len(announced) <= Len(announced)
    BY <1>1
  <2> HIDE DEF read
  <2> QED BY <1>1, <2>1, <2>2, <2>3, <2>4, <2>5, EstablishMoves
<1>9. CASE HandleRead(v, "poll")
  <2>1. /\ roomRevision'[v] = reader[v].poll.receipt.revision /\ shown' = shown
        /\ reader[v].poll.phase = "answered"
        /\ CallsForReload(v, "poll") <=>
             reader[v].poll.receipt.gap \/ reader[v].poll.receipt.news # {}
    BY <1>1, <1>9 DEF HandleRead, PanelTypeOK, CallsForReload
  <2>2. CASE CallsForReload(v, "poll")
    <3>1. SetRead(v, "poll", [NoRead EXCEPT !.phase = "loading"])
      BY <1>9, <2>2 DEF HandleRead
    <3> QED BY <1>1, <1>2, <1>4, <1>5, <2>1, <3>1, PollMoves
  <2>3. CASE ~CallsForReload(v, "poll")
    <3>1. SetRead(v, "poll", NoRead)
      BY <1>9, <2>3 DEF HandleRead
    <3>2. reader[v].poll.receipt.revision <= reader[v].poll.after
      BY <1>1, <2>1, <2>3 DEF ReadsFit
    <3>3. Covered(v, reader[v].poll.after) => Covered(v, roomRevision'[v])
      BY <1>1, <1>2, <2>1, <3>2 DEF Covered
    <3>4. NothingFailed' /\ shown[v] # 0 /\ ~Settling(v) => Covered(v, roomRevision'[v])
      BY <1>1, <1>3, <2>1, <3>3 DEF Follows
    <3> QED BY <1>1, <1>2, <1>4, <2>1, <3>1, <3>4, PollMoves
  <2> QED BY <2>2, <2>3
<1>10. CASE HandleRead(v, "establish")
  <2> DEFINE answer == reader[v].establish.receipt
  <2>1. /\ roomRevision'[v] = answer.revision /\ shown' = shown
        /\ reader[v].establish.phase = "answered"
        /\ CallsForReload(v, "establish") <=>
             answer.gap \/ \E r \in answer.news : r > shown[v]
    BY <1>1, <1>10 DEF HandleRead, PanelTypeOK, CallsForReload
  <2>2. CASE CallsForReload(v, "establish")
    <3>1. SetRead(v, "establish", [NoRead EXCEPT !.phase = "loading"])
      BY <1>10, <2>2 DEF HandleRead
    <3> QED BY <1>1, <1>2, <1>4, <1>5, <2>1, <3>1, EstablishMoves
  <2>3. CASE ~CallsForReload(v, "establish")
    <3>1. SetRead(v, "establish", NoRead)
      BY <1>10, <2>3 DEF HandleRead
    <3>2. Covered(v, answer.revision)
      BY <1>1, <1>2, <2>1, <2>3, CompleteIsCovered DEF ReadsFit
    <3>3. ~Settling(v)
      BY <2>1, <2>3 DEF Settling
    <3>4. NothingFailed' /\ shown[v] # 0 =>
            (reader[v].poll.phase \in {"sent", "answered"} => Covered(v, reader[v].poll.after))
      BY <1>1, <1>3, <3>3 DEF Follows
    <3> QED BY <1>1, <1>2, <1>4, <2>1, <3>1, <3>2, <3>4, EstablishMoves
  <2> QED BY <2>2, <2>3
<1>11. CASE ServeReload(v, "poll")
  <2>1. /\ SetRead(v, "poll", [NoRead EXCEPT !.phase = "loaded", !.loaded = saved])
        /\ shown' = shown /\ roomRevision' = roomRevision /\ saved \in Nat
    BY <1>1, <1>11 DEF ServeReload, PanelTypeOK
  <2> QED BY <1>1, <1>4, <1>5, <2>1, PollMoves
<1>12. CASE ServeReload(v, "establish")
  <2>1. /\ SetRead(v, "establish", [NoRead EXCEPT !.phase = "loaded", !.loaded = saved])
        /\ shown' = shown /\ roomRevision' = roomRevision /\ saved \in Nat
    BY <1>1, <1>12 DEF ServeReload, PanelTypeOK
  <2> QED BY <1>1, <1>4, <1>5, <2>1, EstablishMoves
<1>13. ASSUME NEW t \in Thread, HandleReload(v, t) PROVE Goal
  <2>1. Restart(v, reader[v][t].loaded) /\ roomRevision' = roomRevision
    BY <1>13 DEF HandleReload, Reload
  <2> QED BY <1>1, <1>2, <2>1, ViewerRestarts
<1>14. ASSUME NEW t \in Thread, ReadFails(v, t) PROVE Goal
  <2>1. ~NothingFailed'
    BY <1>14 DEF ReadFails, Fails, NothingFailed
  <2>2. SetRead(v, t, NoRead) /\ shown' = shown /\ roomRevision' = roomRevision
    BY <1>14 DEF ReadFails
  <2>3. CASE t = "poll"
    BY <1>1, <1>4, <2>1, <2>2, <2>3, PollMoves
  <2>4. CASE t = "establish"
    BY <1>1, <1>4, <2>1, <2>2, <2>4, EstablishMoves
  <2> QED BY <2>3, <2>4 DEF Thread
<1>15. \A t \in Thread : t = "poll" \/ t = "establish"
  BY DEF Thread
<1> QED BY <1>6, <1>7, <1>8, <1>9, <1>10, <1>11, <1>12, <1>13, <1>14, <1>15 DEF ReaderStep

\* A refresh of a viewer starts its threads again or leaves them alone.
LEMMA RefreshFollows ==
  ASSUME FollowInv, NEW v \in Viewer, RefreshStep(v)
  PROVE  ReadsFit(v)' /\ Follows(v)'
<1> USE DEF server, panel
<1>1. /\ PanelTypeOK /\ ReadsFit(v) /\ Follows(v) /\ v \in Member
      /\ Len(announced) \in Nat /\ announced' = announced /\ Len(announced) <= Len(announced)
      /\ failed \subseteq failed'
      /\ action[v].revision \in Nat
  BY RefreshTyped, RoomTyped, FailedOnlyGrows DEF FollowInv, PanelInv, Member
<1>2. CASE UNCHANGED <<shown, roomRevision, reader>>
  BY <1>1, <1>2, ViewerUntouched
<1>3. CASE HandleRefresh(v)
  <2>1. Restart(v, action[v].revision) /\ roomRevision' = roomRevision
    BY <1>3 DEF HandleRefresh
  <2> QED BY <1>1, <2>1, ViewerRestarts
<1>4. CASE Refresh(v)
  <2>1. Restart(v, 0) /\ roomRevision'[v] = 0
    BY <1>1, <1>4 DEF Refresh, PanelTypeOK
  <2> QED BY <1>1, <2>1, ViewerRestarts
<1>5. UNCHANGED <<shown, roomRevision, reader>> \/ HandleRefresh(v) \/ Refresh(v)
  BY DEF RefreshStep, ServeRefresh, RefreshFails, Apply, Applied, ApplyFails
<1> QED BY <1>2, <1>3, <1>4, <1>5

\* Every step of every member preserves the viewers' invariant.
LEMMA FollowNextPreserves ==
  ASSUME IsFiniteSet(Writer), Cardinality(Writer) <= RetainedEvents
  PROVE  FollowInv /\ [PanelNext]_panelVars => FollowInv'
<1> SUFFICES ASSUME FollowInv, [PanelNext]_panelVars PROVE FollowInv'
  OBVIOUS
<1>1. PanelInv' /\ PanelInv /\ PanelTypeOK
  BY PanelNextPreserves DEF FollowInv, PanelInv
<1>2. CASE UNCHANGED panelVars
  <2>1. UNCHANGED <<announced, saved, action, shown, roomRevision, reader, failed>>
    BY <1>2 DEF panelVars, server, panel, bounds
  <2>2. FewOlder'
    BY <2>1 DEF FollowInv, FewOlder, Older, Announcing
  <2>3. Len(announced) \in Nat /\ Len(announced) <= Len(announced)
    BY <1>1, RoomTyped
  <2>4. ASSUME NEW v \in Viewer PROVE ReadsFit(v)' /\ Follows(v)'
    BY <1>1, <2>1, <2>3, ViewerUntouched DEF FollowInv
  <2> QED BY <1>1, <2>2, <2>4 DEF FollowInv
<1>3. ASSUME NEW m \in Member,
             ReaderStep(m) \/ RefreshStep(m) \/ ShareStep(m) \/ AnnounceStep(m)
      PROVE  FollowInv'
  <2>1. /\ OthersRest(m) /\ PanelTypeOK'
        /\ AnnouncesAsBefore(m) \/ SavesNext(m) \/ AppendsOwn(m)
    BY <1>1, <1>3, PanelStepTyped, AnnouncingEffect
  <2>2. FewOlder'
    BY <1>1, <2>1, FewOlderPreserved DEF FollowInv
  <2>3. ASSUME NEW v \in Viewer, v # m PROVE ReadsFit(v)' /\ Follows(v)'
    <3>1. /\ shown'[v] = shown[v] /\ roomRevision'[v] = roomRevision[v]
          /\ reader'[v] = reader[v]
      BY <2>1, <2>3 DEF OthersRest, Member
    <3>2. /\ Len(announced) \in Nat /\ Len(announced') \in Nat
          /\ Len(announced) <= Len(announced')
          /\ \A i \in 1..Len(announced) : announced'[i] = announced[i]
      BY <1>1, <2>1, RoomOnlyGrows
    <3>3. failed \subseteq failed'
      BY <1>3, FailedOnlyGrows
    <3> QED BY <1>1, <3>1, <3>2, <3>3, ViewerUntouched DEF FollowInv
  <2>4. ASSUME m \in Viewer PROVE ReadsFit(m)' /\ Follows(m)'
    <3>1. ReaderStep(m) \/ RefreshStep(m)
      BY <1>1, <1>3, <2>4, WritersFit
    <3> QED BY <2>4, <3>1, ReaderFollows, RefreshFollows
  <2> QED BY <1>1, <2>2, <2>3, <2>4 DEF FollowInv
<1> QED BY <1>2, <1>3 DEF PanelNext

LEMMA FollowInitEstablishes == PanelInit => FollowInv
<1> SUFFICES ASSUME PanelInit PROVE FollowInv
  OBVIOUS
<1>1. PanelInv
  BY PanelInitEstablishes
<1>2. announced = <<>> /\ Len(announced) = 0 /\ DOMAIN announced = {}
  BY DEF PanelInit
<1>3. FewOlder
  BY <1>2 DEF FewOlder
<1>4. ASSUME NEW v \in Viewer PROVE ReadsFit(v) /\ Follows(v)
  <2>1. /\ shown[v] = 0 /\ roomRevision[v] = 0
        /\ \A t \in Thread : reader[v][t] = NoRead
    BY DEF PanelInit, Member
  <2>2. \A t \in Thread : /\ reader[v][t].after = 0 /\ reader[v][t].receipt.revision = 0
                          /\ reader[v][t].phase = "off"
    BY <2>1 DEF NoRead, NoReceipt
  <2>3. ReadsFit(v)
    BY <1>2, <2>1, <2>2 DEF ReadsFit, Thread
  <2>4. Follows(v)
    BY <2>1 DEF Follows
  <2> QED BY <2>3, <2>4
<1> QED BY <1>1, <1>3, <1>4 DEF FollowInv

\* A viewer's panel at rest shows every event its cursor has passed, through every
\* interleaving of its two threads, its refreshes and the writers' shares (poll,
\* establish).  No more members write than the room keeps events: of the events of
\* more writers a read may miss one that is newer than all it returns.
THEOREM ViewersStayCurrent ==
  ASSUME IsFiniteSet(Writer), Cardinality(Writer) <= RetainedEvents
  PROVE  PanelSpec => []ViewerIsCurrent
<1>1. FollowInv => ViewerIsCurrent
  <2> SUFFICES ASSUME FollowInv, NothingFailed, NEW v \in Viewer, AtRest(v),
                      state[v] = "read-only"
               PROVE  Current(v)
    BY DEF ViewerIsCurrent
  <2>1. shown[v] # 0
    BY DEF FollowInv, PanelInv, ViewerFits
  <2>2. reader[v].establish.phase = "off" /\ reader[v].poll.phase = "off"
    BY DEF AtRest, Thread
  <2> QED BY <2>1, <2>2 DEF FollowInv, Follows, Settling
<1>2. PanelInit => FollowInv
  BY FollowInitEstablishes
<1>3. FollowInv /\ [PanelNext]_panelVars => FollowInv'
  BY FollowNextPreserves
<1> QED BY <1>1, <1>2, <1>3, PTL DEF PanelSpec

=============================================================================
