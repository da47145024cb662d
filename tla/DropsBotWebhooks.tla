--------------------------- MODULE DropsBotWebhooks ---------------------------
(***************************************************************************)
(* The Drops Bot callback of one project (db/dropsbot-webhooks.ts and its  *)
(* routes): its owner creates, rotates, revokes and lists a connection     *)
(* while the provider delivers events to the secret URLs it was given,     *)
(* late, repeatedly and in any order.  In D1 every statement or batch is a *)
(* step of its own; in the blob store an operation reads the whole state   *)
(* and swaps it.  No route passes a legacy owner, so none is modelled.     *)
(***************************************************************************)
EXTENDS Naturals, FiniteSets

CONSTANTS Request, Event, NoEvent,
          MaxEvents,       \* MAX_EVENTS_PER_CONNECTION
          MaxAttempts,     \* attempts of a mutation of the blob state
          MaxMade,         \* bounds the owner's changes, and so the ids and secrets made
          MaxDeliveries    \* bounds the deliveries, and so the clock

VARIABLES backend,     \* "d1" or "blob"
          inbox,       \* the project's connection, if there is one
          events,      \* the stored events, each with its connection
          version,     \* how often the blob was put; 0 is no blob
          made,        \* how many changes the owner asked for: each numbers its secret
          clock,       \* how many deliveries have arrived: receivedAt
          urls,        \* the <<id, secret>> disclosed to the owner
          request,     \* per request slot: what it asks
          step,        \* per request slot: its next storage call
          held,        \* per request slot: what it read
          attempt,     \* per request slot: the attempts it has spent
          accepted,    \* per event: how often the present connection answered "accepted"
          delivered    \* the events delivered under the present secret

asked == <<request, step, held, attempt>>
vars == <<backend, inbox, events, version, made, clock, urls, asked, accepted, delivered>>

ASSUME WebhooksAssumption ==
  /\ NoEvent \notin Event
  /\ MaxEvents \in Nat \ {0} /\ MaxAttempts \in Nat \ {0}
  /\ MaxMade \in Nat /\ MaxDeliveries \in Nat

Evidence == [event : Event, at : Nat]
NoEvidence == [event |-> NoEvent, at |-> 0]
Inbox == [id : Nat \ {0}, secret : Nat \ {0}, last : Evidence \cup {NoEvidence}]
NoInbox == [id |-> 0, secret |-> 0, last |-> NoEvidence]
Receipt == [id : Nat \ {0}, event : Event, at : Nat]

Ask == [op : {"create", "rotate"}, secret : Nat \ {0}]
         \cup [op : {"accept"}, id : Nat \ {0}, secret : Nat \ {0}, event : Event, at : Nat]
         \cup [op : {"revoke", "list", "none"}]
NoAsk == [op |-> "none"]
Held == [inbox : Inbox \cup {NoInbox}, events : SUBSET Receipt, version : Nat]
Nothing == [inbox |-> NoInbox, events |-> {}, version |-> 0]
NoneAccepted == [e \in Event |-> 0]

TypeOK ==
  /\ backend \in {"d1", "blob"}
  /\ inbox \in Inbox \cup {NoInbox}
  /\ events \subseteq Receipt /\ Cardinality(events) <= MaxEvents
  /\ version \in Nat /\ made \in Nat /\ clock \in Nat
  /\ urls \subseteq Nat \X Nat
  /\ request \in [Request -> Ask]
  /\ step \in [Request -> {"idle", "find", "insert", "rotate", "revoke", "row", "events",
                           "seek", "evidence", "count", "batch", "judge", "again",
                           "duplicate", "accepted", "get", "put", "reread"}]
  /\ held \in [Request -> Held]
  /\ attempt \in [Request -> 0..MaxAttempts]
  /\ accepted \in [Event -> Nat]
  /\ delivered \subseteq Event

Init ==
  /\ backend \in {"d1", "blob"}
  /\ inbox = NoInbox /\ events = {}
  /\ version = 0 /\ made = 0 /\ clock = 0
  /\ urls = {}
  /\ request = [r \in Request |-> NoAsk]
  /\ step = [r \in Request |-> "idle"]
  /\ held = [r \in Request |-> Nothing]
  /\ attempt = [r \in Request |-> 0]
  /\ accepted = NoneAccepted /\ delivered = {}

-----------------------------------------------------------------------------
(* What an operation makes of a connection and its events.                 *)

\* The connection is the one the URL names, and the URL's secret is its present one.
Opens(box, q) == box.id = q.id /\ box.secret = q.secret

Of(id, log) == {x \in log : x.id = id}
Has(log, q) == \E x \in Of(q.id, log) : x.event = q.event
Full(log, q) == Cardinality(Of(q.id, log)) >= MaxEvents

EvidenceOf(x) == [event |-> x.event, at |-> x.at]
ReceiptOf(q) == [id |-> q.id, event |-> q.event, at |-> q.at]

Created(q) == [id |-> q.secret, secret |-> q.secret, last |-> NoEvidence]

\* Mutant: a rotation keeps the evidence of callbacks to the old URL.
RotatedSecret(box, q) == [box EXCEPT !.secret = q.secret]

Rotated(box, q) == [box EXCEPT !.secret = q.secret, !.last = NoEvidence]

Outcome(box, log, q) ==
  CASE q.op = "create" -> IF box = NoInbox THEN "created" ELSE "exists"
    [] q.op = "rotate" -> IF box = NoInbox THEN "not-found" ELSE "rotated"
    [] q.op = "revoke" -> IF box = NoInbox THEN "not-found" ELSE "revoked"
    [] q.op = "accept" -> IF ~Opens(box, q) THEN "not-found"
                          ELSE IF Has(log, q) THEN "duplicate"
                          ELSE IF Full(log, q) THEN "capacity" ELSE "accepted"

InboxAfter(box, log, q) ==
  CASE Outcome(box, log, q) = "created" -> Created(q)
    [] Outcome(box, log, q) = "rotated" -> Rotated(box, q)
    [] Outcome(box, log, q) = "revoked" -> NoInbox
    [] Outcome(box, log, q) \in {"accepted", "duplicate"} -> [box EXCEPT !.last = EvidenceOf(q)]
    [] OTHER -> box

EventsAfter(box, log, q) ==
  CASE Outcome(box, log, q) = "revoked" -> {}
    [] Outcome(box, log, q) = "accepted" -> log \cup {ReceiptOf(q)}
    [] OTHER -> log

\* The newest event of a connection: ORDER BY received_at DESC LIMIT 1.
Newest(log) == CHOOSE x \in log : \A y \in log : y.at <= x.at

-----------------------------------------------------------------------------
Working(r, at) == step[r] = at
Goto(r, at) == step' = [step EXCEPT ![r] = at] /\ UNCHANGED <<request, held, attempt>>
End(r) ==
  /\ request' = [request EXCEPT ![r] = NoAsk]
  /\ step' = [step EXCEPT ![r] = "idle"]
  /\ held' = [held EXCEPT ![r] = Nothing]
  /\ attempt' = [attempt EXCEPT ![r] = 0]
Hold(r, at, h) ==
  /\ held' = [held EXCEPT ![r] = h]
  /\ step' = [step EXCEPT ![r] = at]
  /\ UNCHANGED <<request, attempt>>

\* What a mutation of the store leaves for the events delivered under the secret.
Delivers(q, box) ==
  delivered' = IF box.secret # inbox.secret THEN {}
               ELSE IF q.op = "accept" /\ box.last # inbox.last
                 THEN delivered \cup {q.event} ELSE delivered

\* A revoked connection takes its events with it, and what was answered for them.
Remaining(box) == IF box = NoInbox THEN NoneAccepted ELSE accepted
AnsweredAccepted(e) == [accepted EXCEPT ![e] = @ + 1]

Kept == UNCHANGED <<inbox, events, version, delivered>>
Bystanders == UNCHANGED <<backend, made, clock>>
Quiet == UNCHANGED <<urls, accepted>>

\* A request arrives.
Begin(r, q) ==
  /\ Working(r, "idle")
  /\ request' = [request EXCEPT ![r] = q]
  /\ step' = [step EXCEPT ![r] = IF backend = "blob" THEN "get"
                                 ELSE IF q.op = "list" THEN "row" ELSE "find"]
  /\ UNCHANGED <<backend, held, attempt>> /\ Kept /\ Quiet

\* The owner creates or rotates with a new secret, or revokes; a created connection has
\* a new id too.
BeginChange(r) ==
  /\ made < MaxMade
  /\ made' = made + 1
  /\ \/ \E op \in {"create", "rotate"} : Begin(r, [op |-> op, secret |-> made'])
     \/ Begin(r, [op |-> "revoke"])
  /\ UNCHANGED clock

BeginList(r) == Begin(r, [op |-> "list"]) /\ UNCHANGED <<made, clock>>

\* The provider delivers an event to a URL the owner was given at some time.
BeginDelivery(r) ==
  /\ clock < MaxDeliveries
  /\ clock' = clock + 1
  /\ \E u \in urls, e \in Event :
       Begin(r, [op |-> "accept", id |-> u[1], secret |-> u[2], event |-> e, at |-> clock'])
  /\ UNCHANGED made

-----------------------------------------------------------------------------
(* D1: the owner's operations.                                             *)

Next1(q) == CASE q.op = "create" -> "insert" [] q.op = "rotate" -> "rotate" [] OTHER -> "revoke"

\* claimOwnedD1Connection, and the early answers on what it finds.
FindOwned(r) ==
  /\ Working(r, "find") /\ request[r].op # "accept"
  /\ IF (inbox = NoInbox) = (request[r].op = "create")
       THEN Hold(r, Next1(request[r]), [Nothing EXCEPT !.inbox = inbox])
       ELSE End(r)
  /\ Kept /\ Quiet /\ Bystanders

\* INSERT OR IGNORE: one connection per owner and project.  The answer, and with it
\* the URL, may be lost.
Insert(r) ==
  /\ Working(r, "insert")
  /\ inbox' = IF inbox = NoInbox THEN Created(request[r]) ELSE inbox
  /\ urls' \in {urls, IF inbox = NoInbox
                        THEN urls \cup {<<request[r].secret, request[r].secret>>} ELSE urls}
  /\ Delivers(request[r], inbox')
  /\ End(r)
  /\ UNCHANGED <<events, version, accepted>> /\ Bystanders

\* UPDATE ... WHERE id: a connection revoked meanwhile answers "not-found".
Rotate(r) ==
  /\ Working(r, "rotate")
  /\ LET found == inbox.id = held[r].inbox.id
     IN  /\ inbox' = IF found THEN Rotated(inbox, request[r]) ELSE inbox
         /\ IF found THEN Goto(r, "row") ELSE End(r)
  /\ Delivers(request[r], inbox')
  /\ UNCHANGED <<events, version>> /\ Quiet /\ Bystanders

\* The batch of two DELETEs, both by the id that was found.
Revoke(r) ==
  /\ Working(r, "revoke")
  /\ events' = events \ Of(held[r].inbox.id, events)
  /\ inbox' = IF inbox.id = held[r].inbox.id THEN NoInbox ELSE inbox
  /\ Delivers(request[r], inbox')
  /\ accepted' = Remaining(inbox')
  /\ End(r)
  /\ UNCHANGED <<version, urls>> /\ Bystanders

\* listDropsBotWebhookProject: the row, then its events.
ListRow(r) ==
  /\ Working(r, "row")
  /\ IF inbox = NoInbox THEN End(r) ELSE Hold(r, "events", [Nothing EXCEPT !.inbox = inbox])
  /\ Kept /\ Quiet /\ Bystanders

\* A connection whose evidence is not among the events is refused (sanitizedConnection).
Sound(box, log) == box.last = NoEvidence \/ \E x \in log : x.event = box.last.event

\* The answer of a rotation discloses the new URL of the connection it lists.
ListEvents(r) ==
  /\ Working(r, "events")
  /\ LET box == held[r].inbox
         q == request[r]
     IN  urls' = IF q.op = "rotate" /\ Sound(box, Of(box.id, events))
                   THEN urls \cup {<<box.id, q.secret>>} ELSE urls
  /\ End(r)
  /\ Kept /\ UNCHANGED accepted /\ Bystanders

-----------------------------------------------------------------------------
(* D1: a delivery.                                                         *)

FindDelivered(r) ==
  /\ Working(r, "find") /\ request[r].op = "accept"
  /\ IF Opens(inbox, request[r]) THEN Goto(r, "seek") ELSE End(r)
  /\ Kept /\ Quiet /\ Bystanders

Seek(r) ==
  /\ Working(r, "seek")
  /\ Goto(r, IF Has(events, request[r]) THEN "evidence" ELSE "count")
  /\ Kept /\ Quiet /\ Bystanders

\* recordD1CallbackEvidence: the evidence of an event stored before.
RecordEvidence(r) ==
  /\ Working(r, "evidence")
  /\ LET q == request[r]
     IN  /\ inbox' = IF Opens(inbox, q) THEN [inbox EXCEPT !.last = EvidenceOf(q)] ELSE inbox
         /\ delivered' = IF Opens(inbox, q) THEN delivered \cup {q.event} ELSE delivered
         /\ IF Opens(inbox, q) THEN Goto(r, "duplicate") ELSE End(r)
  /\ UNCHANGED <<events, version>> /\ Quiet /\ Bystanders

CountEvents(r) ==
  /\ Working(r, "count")
  /\ IF Full(events, request[r]) THEN End(r) ELSE Goto(r, "batch")
  /\ Kept /\ Quiet /\ Bystanders

\* Mutant: the INSERT without its EXISTS.
InsertsUnopened(q) == ~Has(events, q) /\ ~Full(events, q)

\* Mutant: the table without its key of connection and content.
InsertsAgain(q) == ~Full(events, q) /\ Opens(inbox, q)

\* INSERT OR IGNORE ... WHERE COUNT(*) < ? AND EXISTS.
Inserts(q) == ~Has(events, q) /\ ~Full(events, q) /\ Opens(inbox, q)

\* The batch: the INSERT, and the evidence set to the newest event stored.
Batch(r) ==
  /\ Working(r, "batch")
  /\ LET q == request[r]
         told == Opens(inbox, q) /\ Has(events', q)
     IN  /\ events' = IF Inserts(q) THEN events \cup {ReceiptOf(q)} ELSE events
         /\ inbox' = IF told THEN [inbox EXCEPT !.last = EvidenceOf(Newest(Of(q.id, events')))]
                             ELSE inbox
         /\ delivered' = IF told THEN delivered \cup {q.event} ELSE delivered
         /\ Goto(r, IF Inserts(q) THEN "accepted" ELSE "judge")
  /\ UNCHANGED version /\ Quiet /\ Bystanders

\* Nothing inserted: was the secret replaced, was the event there, or was it full?
Judge(r) ==
  /\ Working(r, "judge")
  /\ IF Opens(inbox, request[r]) THEN Goto(r, "again") ELSE End(r)
  /\ Kept /\ Quiet /\ Bystanders

SeekAgain(r) ==
  /\ Working(r, "again")
  /\ IF Has(events, request[r]) THEN Goto(r, "duplicate") ELSE End(r)
  /\ Kept /\ Quiet /\ Bystanders

\* latestD1CallbackEvidence ends the answer; it throws when the connection is gone.
Answer(r) ==
  /\ step[r] \in {"accepted", "duplicate"}
  /\ accepted' = IF Working(r, "accepted") /\ inbox.id = request[r].id
                   THEN AnsweredAccepted(request[r].event) ELSE accepted
  /\ End(r)
  /\ Kept /\ UNCHANGED urls /\ Bystanders

-----------------------------------------------------------------------------
(* The blob store: mutateBlobState, and the listing's plain read.          *)

Get(r) ==
  /\ Working(r, "get")
  /\ IF \/ request[r].op = "list"
        \/ request[r].op # "list" /\ Outcome(inbox, events, request[r]) = "capacity"
       THEN End(r)
       ELSE Hold(r, "put", [inbox |-> inbox, events |-> events, version |-> version])
  /\ Kept /\ Quiet /\ Bystanders

\* Mutant: the put overwrites whatever is stored.
Overwrites(r) == TRUE

\* ifMatch, or allowOverwrite false when there was no blob.
Matches(r) == version = held[r].version

Store(r) ==
  LET h == held[r]
  IN  /\ inbox' = InboxAfter(h.inbox, h.events, request[r])
      /\ events' = EventsAfter(h.inbox, h.events, request[r])
      /\ version' = version + 1
      /\ Delivers(request[r], inbox')

PutAnswered(r) ==
  /\ Working(r, "put") /\ Matches(r)
  /\ Store(r)
  /\ LET q == request[r]
         outcome == Outcome(held[r].inbox, held[r].events, q)
     IN  /\ urls' = IF outcome \in {"created", "rotated"}
                      THEN urls \cup {<<inbox'.id, inbox'.secret>>} ELSE urls
         /\ accepted' = IF outcome = "accepted" THEN AnsweredAccepted(q.event) ELSE Remaining(inbox')
  /\ End(r)
  /\ Bystanders

\* Another attempt, or the error of the last one.
Again(r) ==
  IF attempt[r] + 1 < MaxAttempts
    THEN /\ attempt' = [attempt EXCEPT ![r] = @ + 1]
         /\ step' = [step EXCEPT ![r] = "get"]
         /\ held' = [held EXCEPT ![r] = Nothing]
         /\ UNCHANGED request
    ELSE End(r)

\* An error that is no precondition failure: only where no blob was read does a second
\* read decide whether another put came first.
Unclear(r) == IF held[r].version = 0 THEN Goto(r, "reread") ELSE End(r)

PutUnanswered(r) ==
  /\ Working(r, "put") /\ Matches(r)
  /\ Store(r)
  /\ Unclear(r)
  /\ accepted' = Remaining(inbox')
  /\ UNCHANGED urls /\ Bystanders

PutRefused(r) ==
  /\ Working(r, "put") /\ ~Matches(r)
  /\ IF held[r].version = 0 THEN Goto(r, "reread") ELSE Again(r)
  /\ Kept /\ Quiet /\ Bystanders

PutFails(r) ==
  /\ Working(r, "put")
  /\ Unclear(r)
  /\ Kept /\ Quiet /\ Bystanders

Reread(r) ==
  /\ Working(r, "reread")
  /\ IF version # 0 THEN Again(r) ELSE End(r)
  /\ Kept /\ Quiet /\ Bystanders

\* Any other storage call fails and the request answers with an error.
Fails(r) ==
  /\ step[r] \notin {"idle", "put"}
  /\ End(r)
  /\ Kept /\ Quiet /\ Bystanders

-----------------------------------------------------------------------------
Owner(r) == \/ FindOwned(r) \/ Insert(r) \/ Rotate(r) \/ Revoke(r)
            \/ ListRow(r) \/ ListEvents(r)
Delivery(r) == \/ FindDelivered(r) \/ Seek(r) \/ RecordEvidence(r) \/ CountEvents(r)
               \/ Batch(r) \/ Judge(r) \/ SeekAgain(r) \/ Answer(r)
Blob(r) == \/ Get(r) \/ PutAnswered(r) \/ PutUnanswered(r) \/ PutRefused(r)
           \/ PutFails(r) \/ Reread(r)

Next == \E r \in Request :
          \/ BeginChange(r) \/ BeginList(r) \/ BeginDelivery(r)
          \/ Owner(r) \/ Delivery(r) \/ Blob(r) \/ Fails(r)

Spec == Init /\ [][Next]_vars

-----------------------------------------------------------------------------
(* Properties.                                                             *)

\* The stored events belong to the connection there is, an event is stored once, and the
\* evidence shown to the owner is a stored event that came over the present URL (the
\* UPDATEs at 400-407 and 1007-1025; the rotate route: "The previous secret stopped
\* working when this URL was issued").
EvidenceIsPresent ==
  /\ \A x \in events : x.id = inbox.id
  /\ \A x, y \in events : x.event = y.event => x = y
  /\ inbox.last # NoEvidence =>
       /\ inbox.last.event \in delivered
       /\ \E x \in events : x.event = inbox.last.event

\* An event answered as accepted stays until its connection is revoked.
AcceptedIsKept ==
  \A e \in Event : accepted[e] > 0 => \E x \in events : x.event = e

\* Of all deliveries of an event to a connection, at once or after one another, no more
\* than one is answered "accepted": the key of the table makes one INSERT win (26-29, 986).
AcceptedOnce == \A e \in Event : accepted[e] <= 1

\* An event is stored only by a delivery to the present URL, whatever rotated or was
\* revoked since the request began.
StoredUnderCapability ==
  [][\A r \in Request : events' # events /\ step'[r] # step[r] =>
       \/ events' = {}
       \/ /\ request[r].op = "accept" /\ Opens(inbox, request[r])
          /\ events' = events \cup {ReceiptOf(request[r])}]_vars
=============================================================================
