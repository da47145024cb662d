------------------------- MODULE DropsBotWebhooksProofs -------------------------
(***************************************************************************)
(* The evidence of a callback is a stored event of the present URL, an     *)
(* event is accepted once and then kept, and nothing is stored without the *)
(* present capability, for any number of requests, events, attempts and    *)
(* changes, in both backends.                                              *)
(***************************************************************************)
EXTENDS DropsBotWebhooks, FiniteSetTheorems, WellFoundedInduction, TLAPS

Steps == {"idle", "find", "insert", "rotate", "revoke", "row", "events", "seek", "evidence",
          "count", "batch", "judge", "again", "duplicate", "accepted", "get", "put", "reread"}
Change == {"create", "rotate"}

Typed == TypeOK /\ IsFiniteSet(events)

(***************************************************************************)
(* Ids, secrets and times count up, so what is made next is not in use.    *)
(***************************************************************************)
Numbered ==
  /\ inbox.id <= made
  /\ \A u \in urls : u[1] \in 1..made /\ u[2] \in 1..made
  /\ \A x \in events : x.at <= clock

\* Which request is at which storage call.
StepsFit(r) ==
  /\ backend = "d1" => step[r] \notin {"get", "put", "reread"}
  /\ backend = "blob" => step[r] \in {"idle", "get", "put", "reread"}
  /\ step[r] = "insert" => request[r].op = "create"
  /\ step[r] = "rotate" => request[r].op = "rotate"
  /\ step[r] \in {"rotate", "events"} => held[r].inbox # NoInbox
  /\ step[r] = "revoke" => request[r].op = "revoke"
  /\ step[r] \in {"row", "events"} => request[r].op \in {"list", "rotate"}
  /\ step[r] \in {"seek", "evidence", "count", "batch", "judge", "again", "duplicate", "accepted"}
       => request[r].op = "accept"
  /\ step[r] \in {"find", "put"} => request[r].op # "list"
  /\ step[r] = "idle" <=> request[r].op = "none"

NumbersFit(r) ==
  /\ request[r].op \in Change => request[r].secret <= made
  /\ request[r].op = "accept" =>
       <<request[r].id, request[r].secret>> \in urls /\ request[r].at <= clock
  /\ held[r].inbox.id <= made
  /\ held[r].version <= version
  /\ step[r] = "put" /\ held[r].version = version =>
       held[r].inbox = inbox /\ held[r].events = events

\* In D1 a connection is created with an id, and rotated to a secret, nobody was given.
ChangesAhead(r) ==
  backend = "d1" =>
    /\ request[r].op = "create" /\ step[r] \in {"find", "insert"} =>
         inbox.id # request[r].secret /\ \A u \in urls : u[1] # request[r].secret
    /\ request[r].op = "rotate" /\ step[r] \in {"find", "rotate"} =>
         \A u \in urls : u[2] # request[r].secret

(***************************************************************************)
(* In D1 a delivery past its lookups still finds what it found while its   *)
(* connection is there; and what was stored under an older URL arrived     *)
(* before every delivery to the present one, so the newest event the batch *)
(* shows as evidence came over the present URL.                            *)
(***************************************************************************)
Older(x, at) == x.event \in delivered \/ x.at < at

DeliveryFits(r) ==
  backend = "d1" /\ request[r].op = "accept" =>
    /\ step[r] \in {"evidence", "accepted"} /\ inbox.id = request[r].id => Has(events, request[r])
    /\ step[r] = "accepted" /\ inbox.id = request[r].id => accepted[request[r].event] = 0
    /\ Opens(inbox, request[r]) => \A x \in events : Older(x, request[r].at)
    /\ Opens(inbox, request[r]) /\ step[r] \in {"count", "batch"} =>
         \A x, y \in events : y.event = request[r].event => Older(x, y.at)

Apart(q, r) ==
  /\ request[q].op \in Change /\ request[r].op \in Change => request[q].secret # request[r].secret
  /\ backend = "d1" /\ request[r].op = "create" /\ step[r] \in {"find", "insert"} =>
       held[q].inbox.id # request[r].secret
  /\ backend = "d1" /\ step[q] = "accepted" /\ step[r] = "accepted"
       /\ inbox.id = request[q].id /\ inbox.id = request[r].id =>
       request[q].event # request[r].event

Fits(r) == StepsFit(r) /\ NumbersFit(r) /\ ChangesAhead(r) /\ DeliveryFits(r)

IInv ==
  /\ Typed /\ Numbered
  /\ \A r \in Request : Fits(r)
  /\ \A q, r \in Request : q # r => Apart(q, r)
  /\ EvidenceIsPresent /\ AcceptedIsKept /\ AcceptedOnce

-----------------------------------------------------------------------------
(* Lemmas about the values                                                 *)

LEMMA Asks ==
  /\ \A q \in Ask : q.op \in {"create", "rotate", "accept", "revoke", "list", "none"}
  /\ \A q \in Ask : q.op \in Change => q.secret \in Nat \ {0}
  /\ \A q \in Ask : q.op = "accept" =>
       q.id \in Nat \ {0} /\ q.secret \in Nat \ {0} /\ q.event \in Event /\ q.at \in Nat
  /\ \A n \in Nat \ {0}, op \in Change : [op |-> op, secret |-> n] \in Ask
  /\ [op |-> "revoke"] \in Ask /\ [op |-> "list"] \in Ask /\ NoAsk \in Ask
  /\ \A i, n \in Nat \ {0}, e \in Event, t \in Nat :
       [op |-> "accept", id |-> i, secret |-> n, event |-> e, at |-> t] \in Ask
BY DEF Ask, NoAsk, Change

LEMMA Boxes ==
  /\ \A b \in Inbox \cup {NoInbox} :
       b.id \in Nat /\ b.secret \in Nat /\ b.last \in Evidence \cup {NoEvidence}
  /\ \A b \in Inbox \cup {NoInbox} : b.id = 0 <=> b = NoInbox
  /\ NoInbox.id = 0 /\ NoInbox.secret = 0 /\ NoInbox.last = NoEvidence
  /\ Nothing \in Held /\ Nothing.inbox = NoInbox /\ Nothing.events = {} /\ Nothing.version = 0
  /\ \A h \in Held : h.inbox \in Inbox \cup {NoInbox} /\ h.events \subseteq Receipt
                       /\ h.version \in Nat
  /\ \A x \in Receipt : x.id \in Nat \ {0} /\ x.event \in Event /\ x.at \in Nat
  /\ \A x \in Receipt : EvidenceOf(x) \in Evidence
  /\ \A x \in Evidence : x.event \in Event /\ x # NoEvidence
BY WebhooksAssumption
DEF Inbox, NoInbox, Nothing, Held, Receipt, EvidenceOf, Evidence, NoEvidence

\* What a delivery stores, and what it shows.
LEMMA Delivered ==
  ASSUME NEW q \in Ask, q.op = "accept"
  PROVE  /\ ReceiptOf(q) \in Receipt /\ ReceiptOf(q).id = q.id
         /\ ReceiptOf(q).event = q.event /\ ReceiptOf(q).at = q.at
         /\ EvidenceOf(q) \in Evidence /\ EvidenceOf(q).event = q.event
         /\ EvidenceOf(q) # NoEvidence
BY Asks, WebhooksAssumption DEF ReceiptOf, Receipt, EvidenceOf, Evidence, NoEvidence

LEMMA Changed ==
  /\ \A q \in Ask : q.op = "create" =>
       /\ Created(q) \in Inbox /\ Created(q).id = q.secret /\ Created(q).secret = q.secret
       /\ Created(q).last = NoEvidence
  /\ \A b \in Inbox, q \in Ask : q.op = "rotate" =>
       /\ Rotated(b, q) \in Inbox /\ Rotated(b, q).id = b.id /\ Rotated(b, q).secret = q.secret
       /\ Rotated(b, q).last = NoEvidence
  /\ \A b \in Inbox, e \in Evidence :
       /\ [b EXCEPT !.last = e] \in Inbox
       /\ [b EXCEPT !.last = e].id = b.id /\ [b EXCEPT !.last = e].secret = b.secret
       /\ [b EXCEPT !.last = e].last = e
BY Asks DEF Created, Rotated, Inbox, Change, NoEvidence

\* The stored events of the connection that a URL opens are all there are.
LEMMA OfAll ==
  ASSUME IInv, NEW q \in Ask, q.op = "accept", q.id = inbox.id
  PROVE  Of(q.id, events) = events
BY DEF IInv, EvidenceIsPresent, Of

\* The newest of a non-empty set of events.
LEMMA NewestOf ==
  ASSUME NEW log, IsFiniteSet(log), log \subseteq Receipt, log # {}
  PROVE  Newest(log) \in log /\ \A y \in log : y.at <= Newest(log).at
<1> DEFINE Later(x) == {y \in log : y.at > x.at}
           all == {Later(x) : x \in log}
<1>1. all \subseteq FiniteSubsetsOf(log) /\ all # {}
  <2>1. \A x \in log : IsFiniteSet(Later(x)) BY FS_Subset
  <2> QED BY <2>1 DEF FiniteSubsetsOf
<1>2. PICK S \in all : \A T \in all : <<T, S>> \notin StrictSubsetOrdering(log)
  <2> HIDE DEF all
  <2> QED BY <1>1, FS_StrictSubsetOrderingWellFounded, WFMin
<1>3. PICK x \in log : S = Later(x) OBVIOUS
<1>4. \A y \in log : y.at \in Nat BY Boxes
<1>5. ASSUME NEW y \in log, y.at > x.at PROVE FALSE
  <2>1. Later(y) \subseteq Later(x) /\ y \in Later(x) /\ y \notin Later(y)
    BY <1>4, <1>5
  <2>2. <<Later(y), Later(x)>> \in StrictSubsetOrdering(log)
    BY <2>1 DEF StrictSubsetOrdering
  <2> QED BY <1>2, <1>3, <2>2
<1>6. \A y \in log : y.at <= x.at BY <1>4, <1>5
<1> QED BY <1>6 DEF Newest

-----------------------------------------------------------------------------
(* The end of a step                                                       *)

AskedTyped ==
  /\ request' \in [Request -> Ask] /\ step' \in [Request -> Steps]
  /\ held' \in [Request -> Held] /\ attempt' \in [Request -> 0..MaxAttempts]

Others(r) ==
  \A q \in Request \ {r} :
    request'[q] = request[q] /\ step'[q] = step[q] /\ held'[q] = held[q]

LEMMA EndStep ==
  ASSUME Typed, NEW r \in Request, End(r)
  PROVE  /\ AskedTyped /\ Others(r)
         /\ step'[r] = "idle" /\ request'[r] = NoAsk /\ held'[r] = Nothing
<1>1. 0 \in 0..MaxAttempts BY WebhooksAssumption
<1> QED BY <1>1, Asks, Boxes DEF End, AskedTyped, Others, Typed, TypeOK, Steps

LEMMA GotoStep ==
  ASSUME Typed, NEW r \in Request, NEW at \in Steps, Goto(r, at)
  PROVE  /\ AskedTyped /\ Others(r)
         /\ step'[r] = at /\ request'[r] = request[r] /\ held'[r] = held[r]
BY DEF Goto, AskedTyped, Others, Typed, TypeOK, Steps

LEMMA HoldStep ==
  ASSUME Typed, NEW r \in Request, NEW at \in Steps, NEW h \in Held, Hold(r, at, h)
  PROVE  /\ AskedTyped /\ Others(r)
         /\ step'[r] = at /\ request'[r] = request[r] /\ held'[r] = h
BY DEF Hold, AskedTyped, Others, Typed, TypeOK, Steps

\* A step that stores nothing and discloses nothing.
LEMMA QuietStep ==
  ASSUME IInv, NEW r \in Request, AskedTyped, Others(r), Kept, Quiet, backend' = backend,
         made' \in Nat, made <= made', clock' \in Nat, clock <= clock',
         Fits(r)', \A q \in Request \ {r} : Apart(q, r)' /\ Apart(r, q)'
  PROVE  IInv'
<1> USE DEF IInv, Kept, Quiet
<1>1. Typed' BY DEF Typed, TypeOK, AskedTyped, Steps
<1>2. Numbered'
  <2>1. \A x \in events : x.at \in Nat BY Boxes DEF Typed, TypeOK
  <2>2. \A u \in urls : u[1] \in Nat /\ u[2] \in Nat BY DEF Typed, TypeOK
  <2>3. inbox.id \in Nat /\ made \in Nat /\ clock \in Nat BY Boxes DEF Typed, TypeOK
  <2> QED BY <2>1, <2>2, <2>3 DEF Numbered
<1>3. ASSUME NEW q \in Request, q # r PROVE Fits(q)'
  <2>1. Fits(q) /\ request'[q] = request[q] /\ step'[q] = step[q] /\ held'[q] = held[q]
    BY <1>3 DEF Others
  <2>2. StepsFit(q)' BY <2>1 DEF Fits, StepsFit
  <2>3. NumbersFit(q)'
    <3>1. request[q] \in Ask /\ held[q] \in Held /\ made \in Nat /\ clock \in Nat
      BY DEF Typed, TypeOK
    <3> QED BY <2>1, <3>1, Asks, Boxes DEF Fits, NumbersFit
  <2>4. ChangesAhead(q)' BY <2>1 DEF Fits, ChangesAhead
  <2>5. DeliveryFits(q)' BY <2>1 DEF Fits, DeliveryFits, Has, Of, Opens, Older
  <2> QED BY <2>2, <2>3, <2>4, <2>5 DEF Fits
<1>4. ASSUME NEW q \in Request, NEW p \in Request, q # p PROVE Apart(q, p)'
  <2>1. CASE q = r \/ p = r BY <1>4, <2>1
  <2>2. CASE q # r /\ p # r BY <1>4, <2>2 DEF Apart, Others
  <2> QED BY <2>1, <2>2
<1>5. EvidenceIsPresent' /\ AcceptedIsKept' /\ AcceptedOnce'
  BY DEF EvidenceIsPresent, AcceptedIsKept, AcceptedOnce
<1> QED BY <1>1, <1>2, <1>3, <1>4, <1>5

\* The same, where a request goes on or ends with what it had.
LEMMA MovedStep ==
  ASSUME IInv, NEW r \in Request, AskedTyped, Others(r), Kept, Quiet, Bystanders,
         \/ request'[r] = request[r]
         \/ request'[r] = NoAsk /\ step'[r] = "idle",
         held'[r].inbox \in {held[r].inbox, inbox, NoInbox},
         held'[r].version <= version,
         step'[r] = "put" /\ held'[r].version = version =>
           held'[r].inbox = inbox /\ held'[r].events = events,
         StepsFit(r)',
         step'[r] # "accepted",
         backend = "d1" /\ step'[r] = "evidence" => Has(events, request[r]),
         backend = "d1" /\ step'[r] = "count" => ~Has(events, request[r]),
         step'[r] = "batch" => step[r] = "count",
         backend = "d1" /\ step'[r] \in {"find", "insert"} => step[r] = "find",
         backend = "d1" /\ step'[r] = "rotate" => step[r] = "find"
  PROVE  IInv'
<1> USE DEF IInv, Kept, Quiet, Bystanders
<1>0. Fits(r) /\ request[r] \in Ask /\ held[r] \in Held /\ inbox \in Inbox \cup {NoInbox}
  BY DEF Typed, TypeOK
<1>1. NumbersFit(r)'
  <2>1. NumbersFit(r) /\ made \in Nat /\ made' = made /\ clock' = clock
    BY <1>0 DEF Fits, Typed, TypeOK
  <2>2. held'[r].inbox.id <= made
    BY <1>0, <2>1, Boxes DEF NumbersFit, Numbered
  <2>3. CASE request'[r] = request[r]
    BY <2>1, <2>2, <2>3 DEF NumbersFit
  <2>4. CASE request'[r] = NoAsk /\ step'[r] = "idle"
    <3>1. request'[r].op \notin Change /\ request'[r].op # "accept"
      BY <2>4 DEF NoAsk, Change
    <3> QED BY <2>1, <2>2, <2>4, <3>1 DEF NumbersFit
  <2> QED BY <2>3, <2>4
<1>2. ChangesAhead(r)' BY <1>0 DEF ChangesAhead, Fits, NoAsk
<1>3. DeliveryFits(r)'
  BY <1>0 DEF DeliveryFits, Fits, NoAsk, Has, Of, Opens, Older, EvidenceIsPresent
<1>4. ASSUME NEW q \in Request \ {r} PROVE Apart(q, r)' /\ Apart(r, q)'
  <2>1. Apart(q, r) /\ Apart(r, q) OBVIOUS
  <2>2. /\ request'[q] = request[q] /\ step'[q] = step[q] /\ held'[q] = held[q]
        /\ ChangesAhead(q) /\ request[q] \in Ask
    BY DEF Others, Fits, Typed, TypeOK
  <2>3. Apart(q, r)' BY <2>1, <2>2 DEF Apart, NoAsk, Change
  <2>4. Apart(r, q)'
    <3>1. ASSUME backend = "d1", request[q].op = "create", step[q] \in {"find", "insert"}
          PROVE  held'[r].inbox.id # request[q].secret
      <4>1. request[q].secret # 0 BY <2>2, <3>1, Asks DEF Change
      <4>2. held[r].inbox.id # request[q].secret BY <2>1, <3>1 DEF Apart
      <4>3. inbox.id # request[q].secret BY <2>2, <3>1 DEF ChangesAhead
      <4> QED BY <4>1, <4>2, <4>3, Boxes
    <3> QED BY <2>1, <2>2, <3>1 DEF Apart, NoAsk, Change
  <2> QED BY <2>3, <2>4
<1> QED BY <1>1, <1>2, <1>3, <1>4, QuietStep DEF Fits, Typed, TypeOK

LEMMA EndsPreserve ==
  ASSUME IInv, NEW r \in Request, End(r), Kept, Quiet, Bystanders
  PROVE  IInv'
<1>1. /\ AskedTyped /\ Others(r)
      /\ step'[r] = "idle" /\ request'[r] = NoAsk /\ held'[r] = Nothing
  BY EndStep DEF IInv
<1>2. StepsFit(r)' BY <1>1 DEF StepsFit, Bystanders, NoAsk
<1>3. 0 <= version BY DEF IInv, Typed, TypeOK
<1> QED BY <1>1, <1>2, <1>3, Boxes, MovedStep

LEMMA GoesPreserve ==
  ASSUME IInv, NEW r \in Request, NEW at \in Steps, Goto(r, at), Kept, Quiet, Bystanders,
         step[r] # "idle",
         at \notin {"idle", "find", "insert", "rotate", "revoke", "row", "events", "accepted",
                    "get", "put"},
         backend = "d1" => at # "reread",
         backend = "blob" => at = "reread",
         at # "reread" => request[r].op = "accept",
         at = "evidence" => Has(events, request[r]),
         at = "count" => ~Has(events, request[r]),
         at = "batch" => step[r] = "count"
  PROVE  IInv'
<1>1. /\ AskedTyped /\ Others(r)
      /\ step'[r] = at /\ request'[r] = request[r] /\ held'[r] = held[r]
  BY GotoStep DEF IInv
<1>2. StepsFit(r)' BY <1>1 DEF StepsFit, Bystanders, IInv, Fits
<1>3. held[r].version <= version BY DEF IInv, Fits, NumbersFit
<1> QED BY <1>1, <1>2, <1>3, MovedStep

\* The statements that read in D1.
LEMMA FindsPreserve ==
  ASSUME IInv, NEW r \in Request,
         \/ FindOwned(r) \/ ListRow(r) \/ FindDelivered(r) \/ Seek(r) \/ CountEvents(r)
         \/ Judge(r) \/ SeekAgain(r)
  PROVE  IInv'
<1> USE DEF IInv
<1>0. /\ Kept /\ Quiet /\ Bystanders /\ step[r] # "idle" /\ StepsFit(r)
      /\ backend \in {"d1", "blob"} /\ request[r] \in Ask
  BY DEF FindOwned, ListRow, FindDelivered, Seek, CountEvents, Judge, SeekAgain, Working, Fits,
         Typed, TypeOK
<1>1. backend = "d1"
  BY <1>0 DEF FindOwned, ListRow, FindDelivered, Seek, CountEvents, Judge, SeekAgain, Working,
              StepsFit
<1>2. CASE End(r) BY <1>0, <1>2, EndsPreserve
<1>3. ASSUME NEW at \in {"insert", "rotate", "revoke", "events"},
             Hold(r, at, [Nothing EXCEPT !.inbox = inbox]),
             at = "insert" => request[r].op = "create" /\ step[r] = "find",
             at = "rotate" => request[r].op = "rotate" /\ step[r] = "find",
             at \in {"rotate", "events"} => inbox # NoInbox,
             at = "revoke" => request[r].op = "revoke",
             at = "events" => request[r].op \in {"list", "rotate"}
      PROVE  IInv'
  <2> DEFINE h == [Nothing EXCEPT !.inbox = inbox]
  <2>1. h \in Held /\ h.inbox = inbox /\ h.version = 0
    BY DEF Nothing, Held, Typed, TypeOK
  <2> HIDE DEF h
  <2>2. /\ AskedTyped /\ Others(r) /\ step'[r] = at /\ request'[r] = request[r]
        /\ held'[r] = h
    BY <1>3, <2>1, HoldStep DEF Steps, h
  <2>3. StepsFit(r)' BY <1>0, <1>1, <1>3, <2>1, <2>2 DEF StepsFit, Bystanders, Kept
  <2>4. 0 <= version BY DEF Typed, TypeOK
  <2> QED BY <1>0, <1>3, <2>1, <2>2, <2>3, <2>4, MovedStep
<1>4. CASE FindOwned(r)
  <2>1. CASE (inbox = NoInbox) # (request[r].op = "create")
    BY <1>2, <1>4, <2>1 DEF FindOwned
  <2>2. CASE (inbox = NoInbox) = (request[r].op = "create")
    <3>1. /\ Hold(r, Next1(request[r]), [Nothing EXCEPT !.inbox = inbox]) /\ step[r] = "find"
          /\ request[r].op \in {"create", "rotate", "revoke"}
      BY <1>0, <1>4, <2>2, Asks DEF FindOwned, Working, StepsFit
    <3>2. CASE request[r].op = "create" BY <1>3, <3>1, <3>2 DEF Next1
    <3>3. CASE request[r].op = "rotate"
      <4>1. Next1(request[r]) = "rotate" /\ inbox # NoInbox BY <2>2, <3>3 DEF Next1
      <4> QED BY <1>3, <3>1, <3>3, <4>1
    <3>4. CASE request[r].op = "revoke" BY <1>3, <3>1, <3>4 DEF Next1
    <3> QED BY <3>1, <3>2, <3>3, <3>4
  <2> QED BY <2>1, <2>2
<1>5. CASE ListRow(r)
  <2>1. request[r].op \in {"list", "rotate"} BY <1>0, <1>5 DEF ListRow, Working, StepsFit
  <2> QED BY <1>2, <1>3, <1>5, <2>1 DEF ListRow
<1>6. CASE FindDelivered(r)
  BY <1>0, <1>1, <1>2, <1>6, GoesPreserve DEF FindDelivered, Steps
<1>7. CASE Seek(r)
  <2>1. request[r].op = "accept" BY <1>0, <1>7 DEF Seek, Working, StepsFit
  <2>2. CASE Has(events, request[r])
    BY <1>0, <1>1, <1>7, <2>1, <2>2, GoesPreserve DEF Seek, Steps
  <2>3. CASE ~Has(events, request[r])
    BY <1>0, <1>1, <1>7, <2>1, <2>3, GoesPreserve DEF Seek, Steps
  <2> QED BY <2>2, <2>3
<1>8. CASE CountEvents(r)
  <2>1. request[r].op = "accept" /\ step[r] = "count"
    BY <1>0, <1>8 DEF CountEvents, Working, StepsFit
  <2> QED BY <1>0, <1>1, <1>2, <1>8, <2>1, GoesPreserve DEF CountEvents, Steps
<1>9. CASE Judge(r)
  <2>1. request[r].op = "accept" BY <1>0, <1>9 DEF Judge, Working, StepsFit
  <2> QED BY <1>0, <1>1, <1>2, <1>9, <2>1, GoesPreserve DEF Judge, Steps
<1>10. CASE SeekAgain(r)
  <2>1. request[r].op = "accept" BY <1>0, <1>10 DEF SeekAgain, Working, StepsFit
  <2> QED BY <1>0, <1>1, <1>2, <1>10, <2>1, GoesPreserve DEF SeekAgain, Steps
<1> QED BY <1>4, <1>5, <1>6, <1>7, <1>8, <1>9, <1>10

\* The calls of the blob store that store nothing, and failures.
LEMMA UnstoredPreserves ==
  ASSUME IInv, NEW r \in Request,
         Get(r) \/ PutRefused(r) \/ PutFails(r) \/ Reread(r) \/ Fails(r)
  PROVE  IInv'
<1> USE DEF IInv
<1>0. /\ Kept /\ Quiet /\ Bystanders /\ step[r] # "idle" /\ StepsFit(r)
      /\ backend \in {"d1", "blob"} /\ request[r] \in Ask
  BY DEF Get, PutRefused, PutFails, Reread, Fails, Working, Fits, Typed, TypeOK
<1>1. CASE End(r) BY <1>0, <1>1, EndsPreserve
<1>2. CASE Get(r) /\ ~End(r)
  <2> DEFINE h == [inbox |-> inbox, events |-> events, version |-> version]
  <2>1. /\ h \in Held /\ h.inbox = inbox /\ h.events = events /\ h.version = version
        /\ version \in Nat
    BY DEF Held, Typed, TypeOK
  <2>2. Hold(r, "put", h) /\ request[r].op # "list" /\ backend = "blob"
    BY <1>0, <1>2 DEF Get, Working, StepsFit
  <2> HIDE DEF h
  <2>3. /\ AskedTyped /\ Others(r) /\ step'[r] = "put" /\ request'[r] = request[r]
        /\ held'[r] = h
    BY <2>1, <2>2, HoldStep DEF Steps
  <2>4. StepsFit(r)' BY <1>0, <2>2, <2>3 DEF StepsFit, Bystanders
  <2> QED BY <1>0, <2>1, <2>2, <2>3, <2>4, MovedStep
<1>3. CASE Again(r) /\ ~End(r) /\ step[r] \in {"put", "reread"}
  <2>1. /\ attempt[r] + 1 < MaxAttempts
        /\ attempt' = [attempt EXCEPT ![r] = @ + 1]
        /\ step' = [step EXCEPT ![r] = "get"]
        /\ held' = [held EXCEPT ![r] = Nothing]
        /\ UNCHANGED request
    BY <1>3 DEF Again
  <2>2. attempt[r] + 1 \in 0..MaxAttempts
    <3>1. attempt[r] \in 0..MaxAttempts BY DEF Typed, TypeOK
    <3> QED BY <2>1, <3>1, WebhooksAssumption
  <2>3. /\ AskedTyped /\ Others(r) /\ step'[r] = "get" /\ request'[r] = request[r]
        /\ held'[r] = Nothing /\ backend # "d1"
    BY <1>0, <1>3, <2>1, <2>2, Boxes DEF AskedTyped, Others, Typed, TypeOK, Steps, StepsFit
  <2>4. StepsFit(r)' BY <1>0, <2>3 DEF StepsFit, Bystanders
  <2>5. 0 <= version BY DEF Typed, TypeOK
  <2> QED BY <1>0, <2>3, <2>4, <2>5, Boxes, MovedStep
<1>4. CASE Goto(r, "reread") /\ step[r] = "put"
  <2>1. backend = "blob" BY <1>0, <1>4 DEF StepsFit
  <2> QED BY <1>0, <1>4, <2>1, GoesPreserve DEF Steps
<1> QED
  BY <1>1, <1>2, <1>3, <1>4 DEF PutRefused, PutFails, Unclear, Reread, Fails, Working

LEMMA InitIInv == ASSUME Init PROVE IInv
<1>1. 0 \in 0..MaxAttempts BY WebhooksAssumption
<1>2. Typed
  BY <1>1, Boxes, Asks, FS_EmptySet, WebhooksAssumption
  DEF Init, NoneAccepted, Typed, TypeOK
<1>3. Numbered BY Boxes DEF Init, Numbered
<1>4. \A r \in Request : Fits(r)
  BY Boxes DEF Init, Fits, StepsFit, NumbersFit, ChangesAhead, DeliveryFits, NoAsk, Change
<1>5. \A q, r \in Request : q # r => Apart(q, r)
  BY DEF Init, Apart, NoAsk, Change
<1>6. EvidenceIsPresent /\ AcceptedIsKept /\ AcceptedOnce
  BY Boxes DEF Init, NoneAccepted, EvidenceIsPresent, AcceptedIsKept, AcceptedOnce
<1> QED BY <1>2, <1>3, <1>4, <1>5, <1>6 DEF IInv

\* A request arrives.
LEMMA BeginPreserves ==
  ASSUME IInv, NEW r \in Request, BeginChange(r) \/ BeginList(r) \/ BeginDelivery(r)
  PROVE  IInv'
<1> USE DEF IInv
<1>0. /\ backend \in {"d1", "blob"} /\ made \in Nat /\ clock \in Nat
      /\ request \in [Request -> Ask] /\ Fits(r) /\ inbox.id \in Nat
  BY Boxes DEF Typed, TypeOK
<1>1. ASSUME NEW q \in Ask, Begin(r, q), q.op # "none"
      PROVE  /\ AskedTyped /\ Others(r) /\ Kept /\ Quiet /\ backend' = backend
             /\ request'[r] = q /\ held'[r] = held[r] /\ StepsFit(r)'
             /\ step'[r] \in {"get", "row", "find"}
  <2>1. /\ AskedTyped /\ Others(r) /\ Kept /\ Quiet /\ backend' = backend
        /\ request'[r] = q /\ held'[r] = held[r]
        /\ step'[r] = IF backend = "blob" THEN "get" ELSE IF q.op = "list" THEN "row" ELSE "find"
    BY <1>1 DEF Begin, AskedTyped, Others, Typed, TypeOK, Steps
  <2> QED BY <1>0, <1>1, <2>1 DEF StepsFit
<1>2. \A q \in Request : held[q].inbox.id \in Nat /\ held[q].inbox.id <= made
  BY Boxes DEF Typed, TypeOK, Fits, NumbersFit
<1>3. \A q \in Request : request[q].op \in Change => request[q].secret \in Nat /\ request[q].secret <= made
  BY <1>0, Asks DEF Fits, NumbersFit
<1>4. /\ \A u \in urls : u[1] \in Nat \ {0} /\ u[2] \in Nat \ {0}
      /\ \A u \in urls : u[1] <= made /\ u[2] <= made
  BY <1>0 DEF Numbered
<1>5. ASSUME NEW op \in Change, Begin(r, [op |-> op, secret |-> made + 1]), made' = made + 1,
             clock' = clock
      PROVE  IInv'
  <2> DEFINE q == [op |-> op, secret |-> made + 1]
  <2>1. q \in Ask /\ q.op = op /\ q.op # "none" /\ q.op # "accept" /\ q.secret = made + 1
    <3>1. made + 1 \in Nat \ {0} BY <1>0
    <3>2. q \in Ask BY <3>1, Asks
    <3> QED BY <3>2 DEF Change
  <2>2. /\ AskedTyped /\ Others(r) /\ Kept /\ Quiet /\ backend' = backend
        /\ request'[r] = q /\ held'[r] = held[r] /\ StepsFit(r)'
        /\ step'[r] \in {"get", "row", "find"}
    BY <1>1, <1>5, <2>1
  <2> HIDE DEF q
  <2>3. NumbersFit(r)'
    BY <1>0, <1>2, <1>5, <2>1, <2>2 DEF Kept, Fits, NumbersFit
  <2>4. ChangesAhead(r)'
    BY <1>0, <1>4, <2>1, <2>2 DEF Kept, Quiet, Numbered, ChangesAhead
  <2>5. DeliveryFits(r)' BY <2>1, <2>2 DEF DeliveryFits
  <2>6. ASSUME NEW p \in Request \ {r} PROVE Apart(p, r)' /\ Apart(r, p)'
    <3>1. request'[p] = request[p] /\ step'[p] = step[p] /\ held'[p] = held[p] /\ Apart(r, p)
      BY <2>2 DEF Others
    <3>2. Apart(p, r)' BY <1>0, <1>2, <1>3, <2>1, <2>2, <3>1 DEF Apart
    <3>3. Apart(r, p)' BY <1>0, <1>3, <2>1, <2>2, <3>1 DEF Apart
    <3> QED BY <3>2, <3>3
  <2> QED BY <1>0, <1>5, <2>2, <2>3, <2>4, <2>5, <2>6, QuietStep DEF Fits
<1>6. ASSUME NEW op \in {"revoke", "list"}, Begin(r, [op |-> op]), made' \in {made, made + 1},
             clock' = clock
      PROVE  IInv'
  <2> DEFINE q == [op |-> op]
  <2>1. /\ q \in Ask /\ q.op # "none" /\ q.op # "accept" /\ q.op \notin Change
    BY Asks DEF Change
  <2>2. /\ AskedTyped /\ Others(r) /\ Kept /\ Quiet /\ backend' = backend
        /\ request'[r] = q /\ held'[r] = held[r] /\ StepsFit(r)'
        /\ step'[r] \in {"get", "row", "find"}
    BY <1>1, <1>6, <2>1
  <2> HIDE DEF q
  <2>3. NumbersFit(r)'
    BY <1>0, <1>2, <1>6, <2>1, <2>2 DEF Kept, Fits, NumbersFit
  <2>4. ChangesAhead(r)' /\ DeliveryFits(r)'
    BY <2>1, <2>2 DEF ChangesAhead, DeliveryFits, Change
  <2>5. ASSUME NEW p \in Request \ {r} PROVE Apart(p, r)' /\ Apart(r, p)'
    <3>1. request'[p] = request[p] /\ step'[p] = step[p] /\ held'[p] = held[p] /\ Apart(r, p)
      BY <2>2 DEF Others
    <3> QED BY <2>1, <2>2, <3>1 DEF Apart, Change
  <2> QED BY <1>0, <1>6, <2>2, <2>3, <2>4, <2>5, QuietStep DEF Fits
<1>7. ASSUME NEW u \in urls, NEW e \in Event, clock' = clock + 1, made' = made,
             Begin(r, [op |-> "accept", id |-> u[1], secret |-> u[2], event |-> e, at |-> clock + 1])
      PROVE  IInv'
  <2> DEFINE q == [op |-> "accept", id |-> u[1], secret |-> u[2], event |-> e, at |-> clock + 1]
  <2>1. /\ q \in Ask /\ q.op = "accept" /\ q.op # "none" /\ q.op \notin Change
        /\ <<q.id, q.secret>> \in urls /\ q.at = clock + 1
    <3>1. u \in Nat \X Nat BY DEF Typed, TypeOK
    <3>2. u = <<u[1], u[2]>> BY <3>1
    <3>3. clock + 1 \in Nat BY <1>0
    <3>4. q \in Ask BY <1>4, <3>3, Asks
    <3> QED BY <3>2, <3>4 DEF Change
  <2>2. /\ AskedTyped /\ Others(r) /\ Kept /\ Quiet /\ backend' = backend
        /\ request'[r] = q /\ held'[r] = held[r] /\ StepsFit(r)'
        /\ step'[r] \in {"get", "row", "find"}
    BY <1>1, <1>7, <2>1
  <2> HIDE DEF q
  <2>3. NumbersFit(r)'
    BY <1>0, <1>2, <1>7, <2>1, <2>2 DEF Kept, Quiet, Fits, NumbersFit
  <2>4. ChangesAhead(r)' BY <2>1, <2>2 DEF ChangesAhead
  <2>5. DeliveryFits(r)'
    <3>1. \A x \in events : x.at \in Nat /\ x.at <= clock
      BY Boxes DEF Typed, TypeOK, Numbered
    <3> QED BY <1>0, <2>1, <2>2, <3>1 DEF DeliveryFits, Kept, Older
  <2>6. ASSUME NEW p \in Request \ {r} PROVE Apart(p, r)' /\ Apart(r, p)'
    <3>1. request'[p] = request[p] /\ step'[p] = step[p] /\ held'[p] = held[p] /\ Apart(r, p)
      BY <2>2 DEF Others
    <3> QED BY <2>1, <2>2, <3>1 DEF Apart, Change
  <2> QED BY <1>0, <1>7, <2>2, <2>3, <2>4, <2>5, <2>6, QuietStep DEF Fits
<1>8. CASE BeginChange(r)
  BY <1>0, <1>5, <1>6, <1>8 DEF BeginChange, Change
<1>9. CASE BeginList(r) BY <1>6, <1>9 DEF BeginList
<1>10. CASE BeginDelivery(r)
  BY <1>7, <1>10 DEF BeginDelivery
<1> QED BY <1>8, <1>9, <1>10

-----------------------------------------------------------------------------
(* The statements that write in D1                                         *)

LEMMA StoreStep ==
  ASSUME IInv, NEW r \in Request, backend = "d1", AskedTyped, Others(r), Bystanders,
         version' = version, inbox' \in Inbox \cup {NoInbox},
         events' \subseteq Receipt, IsFiniteSet(events'), Cardinality(events') <= MaxEvents,
         urls' \subseteq Nat \X Nat, accepted' \in [Event -> Nat], delivered' \subseteq Event,
         Numbered', urls \subseteq urls',
         \/ request'[r] = request[r]
         \/ request'[r] = NoAsk /\ step'[r] = "idle",
         held'[r].inbox \in {held[r].inbox, NoInbox},
         held'[r].version <= version,
         StepsFit(r)', step'[r] \notin {"find", "insert"},
         \A q \in Request : step'[q] # "idle" => ChangesAhead(q)' /\ DeliveryFits(q)',
         \A q \in Request : request[q].op = "accept" /\ inbox'.id = request[q].id
                              => inbox.id = request[q].id,
         step'[r] = "accepted" =>
           \A q \in Request \ {r} : step[q] = "accepted" /\ inbox.id = request[q].id
                                      => request[q].event # request[r].event,
         EvidenceIsPresent', AcceptedIsKept', AcceptedOnce'
  PROVE  IInv'
<1> USE DEF IInv, Bystanders
<1>1. Typed' BY DEF Typed, TypeOK, AskedTyped, Steps
<1>2. ASSUME NEW q \in Request PROVE Fits(q)'
  <2>0. Fits(q) /\ request[q] \in Ask /\ step'[q] \in Steps /\ inbox.id \in Nat /\ made \in Nat
    BY Boxes DEF Typed, TypeOK, AskedTyped
  <2>1. StepsFit(q)' BY <2>0 DEF Fits, StepsFit, Others
  <2>2. NumbersFit(q)'
    <3>1. /\ request'[q] = request[q] \/ request'[q] = NoAsk
          /\ held'[q].inbox \in {held[q].inbox, NoInbox} /\ held'[q].version <= version
      BY <2>0 DEF Others, Fits, NumbersFit
    <3>2. step'[q] # "put" BY <2>1 DEF StepsFit
    <3>3. NoAsk.op \notin Change /\ NoAsk.op # "accept" BY DEF NoAsk, Change
    <3>4. 0 <= made BY <2>0
    <3> QED BY <2>0, <3>1, <3>2, <3>3, <3>4, Boxes DEF Fits, NumbersFit
  <2>3. CASE step'[q] # "idle" BY <2>1, <2>2, <2>3 DEF Fits
  <2>4. CASE step'[q] = "idle"
    <3>1. ChangesAhead(q)' BY <2>4 DEF ChangesAhead
    <3>2. DeliveryFits(q)' BY <2>1, <2>4 DEF DeliveryFits, StepsFit
    <3> QED BY <2>1, <2>2, <3>1, <3>2 DEF Fits
  <2> QED BY <2>3, <2>4
<1>3. ASSUME NEW q \in Request, NEW p \in Request, q # p PROVE Apart(q, p)'
  <2>1. Apart(q, p) /\ Apart(p, q) BY <1>3
  <2>2. /\ request'[q] = request[q] \/ (request'[q] = NoAsk /\ step'[q] = "idle")
        /\ request'[p] = request[p] \/ (request'[p] = NoAsk /\ step'[p] = "idle")
        /\ held'[q].inbox \in {held[q].inbox, NoInbox}
        /\ step'[p] \in {"find", "insert"} => step'[p] = step[p]
        /\ request[q] \in Ask /\ request[p] \in Ask
    BY DEF Others, Typed, TypeOK
  <2>3. NoAsk.op \notin Change /\ NoAsk.op # "create" BY DEF NoAsk, Change
  <2>4. request'[q].op \in Change /\ request'[p].op \in Change => request'[q].secret # request'[p].secret
    BY <2>1, <2>2, <2>3 DEF Apart
  <2>5. request'[p].op = "create" /\ step'[p] \in {"find", "insert"} =>
          held'[q].inbox.id # request'[p].secret
    BY <2>1, <2>2, <2>3, Asks, Boxes DEF Apart, Change
  <2>6. ASSUME step'[q] = "accepted", step'[p] = "accepted",
               inbox'.id = request'[q].id, inbox'.id = request'[p].id
        PROVE  request'[q].event # request'[p].event
    <3>1. request'[q] = request[q] /\ request'[p] = request[p] BY <2>2, <2>6
    <3>2. request[q].op = "accept" /\ request[p].op = "accept"
      BY <1>2, <2>6, <3>1 DEF Fits, StepsFit
    <3>3. inbox.id = request[q].id /\ inbox.id = request[p].id BY <2>6, <3>1, <3>2
    <3>4. CASE q = r BY <1>3, <2>6, <3>1, <3>3, <3>4 DEF Others
    <3>5. CASE p = r BY <1>3, <2>6, <3>1, <3>3, <3>5 DEF Others
    <3>6. CASE q # r /\ p # r BY <2>1, <2>6, <3>1, <3>3, <3>6 DEF Others, Apart
    <3> QED BY <3>4, <3>5, <3>6
  <2> QED BY <2>4, <2>5, <2>6 DEF Apart
<1> QED BY <1>1, <1>2, <1>3

LEMMA NoneTyped ==
  NoneAccepted \in [Event -> Nat] /\ \A e \in Event : NoneAccepted[e] = 0
BY DEF NoneAccepted

\* One more answer counts for its event alone.
LEMMA Counted ==
  ASSUME accepted \in [Event -> Nat], NEW e \in Event
  PROVE  /\ AnsweredAccepted(e) \in [Event -> Nat]
         /\ AnsweredAccepted(e)[e] = accepted[e] + 1
         /\ \A d \in Event \ {e} : AnsweredAccepted(e)[d] = accepted[d]
BY DEF AnsweredAccepted

\* Where there is no connection there are no events, and none is accepted.
LEMMA EmptyInbox ==
  ASSUME IInv, inbox = NoInbox
  PROVE  events = {} /\ accepted = NoneAccepted
<1>1. \A x \in events : x.id # 0 BY Boxes DEF IInv, Typed, TypeOK
<1>2. events = {} BY <1>1, Boxes DEF IInv, EvidenceIsPresent
<1>3. accepted \in [Event -> Nat] BY DEF IInv, Typed, TypeOK
<1>4. \A e \in Event : accepted[e] = 0 BY <1>2, <1>3 DEF IInv, AcceptedIsKept
<1> QED BY <1>2, <1>3, <1>4 DEF NoneAccepted

LEMMA InsertPreserves ==
  ASSUME IInv, NEW r \in Request, Insert(r)
  PROVE  IInv'
<1> USE DEF IInv
<1> DEFINE q == request[r]
<1>0. /\ Fits(r) /\ q \in Ask /\ q.op = "create" /\ step[r] = "insert" /\ backend = "d1"
      /\ q.secret \in Nat \ {0} /\ q.secret <= made /\ made \in Nat
  BY Asks DEF Insert, Working, Fits, StepsFit, NumbersFit, Change, Typed, TypeOK
<1>1. CASE inbox # NoInbox
  <2>1. End(r) /\ Kept /\ Quiet /\ Bystanders
    BY <1>0, <1>1 DEF Insert, Delivers, Kept, Quiet
  <2> QED BY <2>1, EndsPreserve
<1>2. CASE inbox = NoInbox
  <2>1. /\ AskedTyped /\ Others(r) /\ step'[r] = "idle" /\ request'[r] = NoAsk
        /\ held'[r] = Nothing
    BY EndStep DEF Insert
  <2>2. /\ inbox' \in Inbox /\ inbox'.id = q.secret /\ inbox'.secret = q.secret
        /\ inbox'.last = NoEvidence
    BY <1>0, <1>2, Changed DEF Insert
  <2>3. events = {} /\ events' = {} /\ accepted' = NoneAccepted /\ version' = version
    BY <1>2, EmptyInbox DEF Insert
  <2>4. delivered' \subseteq Event
    BY <1>0 DEF Insert, Delivers, Typed, TypeOK
  <2>5. /\ Bystanders /\ urls \subseteq urls'
        /\ \A u \in urls' : u \in urls \/ u = <<q.secret, q.secret>>
    BY <1>2 DEF Insert
  <2> HIDE DEF q
  <2>6. Numbered' /\ urls' \subseteq Nat \X Nat
    BY <1>0, <2>2, <2>3, <2>5 DEF Numbered, Bystanders, Typed, TypeOK
  <2>7. ASSUME NEW p \in Request, p # r
        PROVE  /\ ChangesAhead(p)' /\ DeliveryFits(p)'
               /\ request[p].op = "accept" => inbox'.id # request[p].id
    <3>1. /\ request'[p] = request[p] /\ step'[p] = step[p] /\ held'[p] = held[p]
          /\ Fits(p) /\ Apart(p, r)
      BY <2>1, <2>7 DEF Others
    <3>2. request[p].op \in Change => request[p].secret # q.secret
      BY <1>0, <3>1 DEF Apart, Change, q
    <3>3. ChangesAhead(p)' BY <2>2, <2>5, <3>1, <3>2 DEF ChangesAhead, Fits, Change, Bystanders
    <3>4. \A u \in urls : u[1] # q.secret BY <1>0 DEF Fits, ChangesAhead, q
    <3>5. request[p].op = "accept" => inbox'.id # request[p].id
      BY <2>2, <3>1, <3>4 DEF Fits, NumbersFit
    <3> QED BY <3>1, <3>3, <3>5 DEF DeliveryFits, Opens
  <2>8. EvidenceIsPresent' /\ AcceptedIsKept' /\ AcceptedOnce'
    BY <2>2, <2>3, NoneTyped DEF EvidenceIsPresent, AcceptedIsKept, AcceptedOnce
  <2>9. StepsFit(r)' BY <1>0, <2>1, <2>5 DEF StepsFit, Bystanders, NoAsk
  <2>10. request[r].op # "accept" BY <1>0 DEF q
  <2>11. IsFiniteSet(events') /\ Cardinality(events') <= MaxEvents /\ version \in Nat
    BY <2>3, FS_EmptySet, WebhooksAssumption DEF Typed, TypeOK
  <2> QED BY <1>0, <2>1, <2>2, <2>3, <2>4, <2>5, <2>6, <2>7, <2>8, <2>9, <2>10, <2>11, Boxes,
         NoneTyped, StoreStep
<1> QED BY <1>1, <1>2

LEMMA RotatePreserves ==
  ASSUME IInv, NEW r \in Request, Rotate(r)
  PROVE  IInv'
<1> USE DEF IInv
<1> DEFINE q == request[r]
<1>0. /\ Fits(r) /\ q \in Ask /\ q.op = "rotate" /\ step[r] = "rotate" /\ backend = "d1"
      /\ held[r].inbox # NoInbox /\ held[r] \in Held /\ version' = version
      /\ events' = events /\ Quiet /\ Bystanders
  BY DEF Rotate, Working, Fits, StepsFit, Typed, TypeOK
<1>1. CASE inbox.id # held[r].inbox.id
  <2>1. End(r) /\ Kept BY <1>0, <1>1 DEF Rotate, Delivers, Kept
  <2> QED BY <1>0, <2>1, EndsPreserve
<1>2. CASE inbox.id = held[r].inbox.id
  <2>1. Goto(r, "row") BY <1>2 DEF Rotate
  <2>2. /\ AskedTyped /\ Others(r) /\ step'[r] = "row" /\ request'[r] = request[r]
        /\ held'[r] = held[r]
    BY <2>1, GotoStep DEF Steps
  <2>3. inbox \in Inbox BY <1>0, <1>2, Boxes DEF Typed, TypeOK
  <2>4. /\ inbox' \in Inbox /\ inbox'.id = inbox.id /\ inbox'.secret = q.secret
        /\ inbox'.last = NoEvidence
    BY <1>0, <1>2, <2>3, Changed DEF Rotate
  <2>5. delivered' \subseteq Event BY <1>0 DEF Rotate, Delivers, Typed, TypeOK
  <2> HIDE DEF q
  <2>6. Numbered' BY <1>0, <2>4 DEF Numbered, Bystanders, Quiet
  <2>7. ASSUME NEW p \in Request PROVE ChangesAhead(p)' /\ DeliveryFits(p)'
    <3>1. /\ request'[p] = request[p] /\ Fits(p) /\ held'[p] = held[p]
          /\ step'[p] = step[p] \/ (p = r /\ step'[p] = "row")
      BY <2>2 DEF Others
    <3>2. ChangesAhead(p)' BY <1>0, <2>4, <3>1 DEF ChangesAhead, Fits, Quiet, Bystanders
    <3>3. \A u \in urls : u[2] # q.secret BY <1>0 DEF Fits, ChangesAhead, q
    <3>4. request[p].op = "accept" => request[p].secret # q.secret
      BY <3>1, <3>3 DEF Fits, NumbersFit
    <3>5. p = r => request[p].op # "accept" BY <1>0 DEF q
    <3>6. DeliveryFits(p)'
      BY <1>0, <2>4, <3>1, <3>4, <3>5 DEF DeliveryFits, Opens, Fits, Has, Of, Quiet, Bystanders
    <3> QED BY <3>2, <3>6
  <2>8. EvidenceIsPresent' /\ AcceptedIsKept' /\ AcceptedOnce'
    BY <1>0, <2>4 DEF EvidenceIsPresent, AcceptedIsKept, AcceptedOnce, Quiet
  <2>9. StepsFit(r)' BY <1>0, <2>2 DEF StepsFit, Bystanders, q
  <2>10. held[r].version <= version BY <1>0 DEF Fits, NumbersFit
  <2> QED BY <1>0, <2>2, <2>4, <2>5, <2>6, <2>7, <2>8, <2>9, <2>10, StoreStep
       DEF Typed, TypeOK, Quiet
<1> QED BY <1>1, <1>2

LEMMA RevokePreserves ==
  ASSUME IInv, NEW r \in Request, Revoke(r)
  PROVE  IInv'
<1> USE DEF IInv
<1> DEFINE id == held[r].inbox.id
<1>0. /\ Fits(r) /\ request[r].op = "revoke" /\ step[r] = "revoke" /\ backend = "d1"
      /\ version' = version /\ urls' = urls /\ Bystanders /\ End(r)
      /\ inbox \in Inbox \cup {NoInbox} /\ version \in Nat
  BY DEF Revoke, Working, Fits, StepsFit, Typed, TypeOK
<1>1. CASE inbox.id # id
  <2>1. Of(id, events) = {} BY <1>1 DEF EvidenceIsPresent, Of
  <2>2. inbox = NoInbox => accepted = NoneAccepted BY EmptyInbox
  <2>3. Kept /\ Quiet
    BY <1>0, <1>1, <2>1, <2>2 DEF Revoke, Delivers, Remaining, Kept, Quiet
  <2> QED BY <1>0, <2>3, EndsPreserve
<1>2. CASE inbox.id = id
  <2>1. /\ AskedTyped /\ Others(r) /\ step'[r] = "idle" /\ request'[r] = NoAsk
        /\ held'[r] = Nothing
    BY <1>0, EndStep
  <2>2. Of(id, events) = events BY <1>2 DEF EvidenceIsPresent, Of
  <2>3. inbox' = NoInbox /\ events' = {} /\ accepted' = NoneAccepted
    BY <1>2, <2>2 DEF Revoke, Remaining
  <2>4. delivered' \subseteq Event BY <1>0 DEF Revoke, Delivers, Typed, TypeOK
  <2>5. Numbered' BY <1>0, <2>3, Boxes DEF Numbered, Bystanders, Typed, TypeOK
  <2>6. ASSUME NEW p \in Request, p # r
        PROVE  /\ ChangesAhead(p)' /\ DeliveryFits(p)'
               /\ request[p].op = "accept" => inbox'.id # request[p].id
    <3>1. /\ request'[p] = request[p] /\ step'[p] = step[p] /\ held'[p] = held[p]
          /\ Fits(p) /\ request[p] \in Ask
      BY <2>1, <2>6 DEF Others, Typed, TypeOK
    <3>2. /\ request[p].op = "accept" => request[p].id # 0
          /\ request[p].op = "create" => request[p].secret # 0
      BY <3>1, Asks DEF Change
    <3>3. ChangesAhead(p)'
      BY <1>0, <2>3, <3>1, <3>2, Boxes DEF ChangesAhead, Fits, Bystanders
    <3> QED BY <2>3, <3>1, <3>2, <3>3, Boxes DEF DeliveryFits, Opens
  <2>7. EvidenceIsPresent' /\ AcceptedIsKept' /\ AcceptedOnce'
    BY <2>3, Boxes, NoneTyped DEF EvidenceIsPresent, AcceptedIsKept, AcceptedOnce
  <2>8. StepsFit(r)' BY <1>0, <2>1 DEF StepsFit, Bystanders, NoAsk
  <2>9. IsFiniteSet(events') /\ Cardinality(events') <= MaxEvents
    BY <2>3, FS_EmptySet, WebhooksAssumption
  <2> HIDE DEF id
  <2> QED BY <1>0, <2>1, <2>3, <2>4, <2>5, <2>6, <2>7, <2>8, <2>9, Boxes, NoneTyped,
         StoreStep
       DEF Typed, TypeOK
<1> QED BY <1>1, <1>2

LEMMA ListEventsPreserves ==
  ASSUME IInv, NEW r \in Request, ListEvents(r)
  PROVE  IInv'
<1> USE DEF IInv
<1> DEFINE id == held[r].inbox.id
           q == request[r]
<1>0. /\ Fits(r) /\ q \in Ask /\ q.op \in {"list", "rotate"} /\ step[r] = "events"
      /\ backend = "d1" /\ Bystanders /\ End(r) /\ Kept /\ accepted' = accepted
      /\ inbox \in Inbox \cup {NoInbox} /\ version \in Nat /\ made \in Nat
      /\ held[r] \in Held /\ held[r].inbox # NoInbox
  BY DEF ListEvents, Working, Fits, StepsFit, Typed, TypeOK
<1>1. CASE urls' = urls BY <1>0, <1>1, EndsPreserve DEF Quiet
<1>2. CASE urls' # urls
  <2>1. /\ AskedTyped /\ Others(r) /\ step'[r] = "idle" /\ request'[r] = NoAsk
        /\ held'[r] = Nothing
    BY <1>0, EndStep
  <2>2. q.op = "rotate" /\ urls' = urls \cup {<<id, q.secret>>}
    BY <1>2 DEF ListEvents
  <2>3. id \in 1..made BY <1>0, Boxes DEF Fits, NumbersFit
  <2>4. q.secret \in 1..made BY <1>0, <2>2, Asks DEF Fits, NumbersFit, Change
  <2> HIDE DEF id, q
  <2>5. Numbered' /\ urls' \subseteq Nat \X Nat
    BY <1>0, <2>2, <2>3, <2>4 DEF Numbered, Bystanders, Kept, Typed, TypeOK
  <2>6. ASSUME NEW p \in Request, p # r PROVE ChangesAhead(p)' /\ DeliveryFits(p)'
    <3>1. /\ request'[p] = request[p] /\ step'[p] = step[p] /\ held'[p] = held[p]
          /\ Fits(p) /\ Apart(p, r) /\ Apart(r, p)
      BY <2>1, <2>6 DEF Others
    <3>2. request[p].op = "rotate" => request[p].secret # q.secret
      BY <2>2, <3>1 DEF Apart, Change, q
    <3>3. request[p].op = "create" /\ step[p] \in {"find", "insert"} => id # request[p].secret
      BY <1>0, <3>1 DEF Apart, id
    <3>4. ChangesAhead(p)'
      BY <1>0, <2>2, <3>1, <3>2, <3>3 DEF ChangesAhead, Fits, Bystanders, Kept
    <3>5. DeliveryFits(p)'
      BY <1>0, <3>1 DEF DeliveryFits, Fits, Bystanders, Kept, Opens, Has, Of, Older
    <3> QED BY <3>4, <3>5
  <2>7. EvidenceIsPresent' /\ AcceptedIsKept' /\ AcceptedOnce'
    BY <1>0 DEF EvidenceIsPresent, AcceptedIsKept, AcceptedOnce, Kept
  <2>8. StepsFit(r)' BY <1>0, <2>1 DEF StepsFit, Bystanders, NoAsk
  <2>9. /\ inbox' = inbox /\ events' = events /\ version' = version /\ delivered' = delivered
        /\ urls \subseteq urls'
    BY <1>0, <2>2 DEF Kept
  <2> QED BY <1>0, <2>1, <2>5, <2>6, <2>7, <2>8, <2>9, Boxes, StoreStep
       DEF Typed, TypeOK
<1> QED BY <1>1, <1>2

\* The step from "accepted" or "duplicate" with which a delivery is answered.
LEMMA AnswerPreserves ==
  ASSUME IInv, NEW r \in Request, Answer(r)
  PROVE  IInv'
<1> USE DEF IInv
<1> DEFINE q == request[r]
<1>0. /\ Fits(r) /\ q \in Ask /\ q.op = "accept" /\ step[r] \in {"accepted", "duplicate"}
      /\ backend = "d1" /\ Bystanders /\ End(r) /\ Kept /\ urls' = urls
      /\ inbox \in Inbox \cup {NoInbox} /\ version \in Nat
  BY DEF Answer, Fits, StepsFit, Typed, TypeOK
<1>1. CASE accepted' = accepted BY <1>0, <1>1, EndsPreserve DEF Quiet
<1>2. CASE accepted' # accepted
  <2>1. /\ AskedTyped /\ Others(r) /\ step'[r] = "idle" /\ request'[r] = NoAsk
        /\ held'[r] = Nothing
    BY <1>0, EndStep
  <2>2. step[r] = "accepted" /\ inbox.id = q.id /\ accepted' = AnsweredAccepted(q.event)
    BY <1>2 DEF Answer, Working
  <2>3. Has(events, q) /\ accepted[q.event] = 0 BY <1>0, <2>2 DEF Fits, DeliveryFits
  <2>4. q.event \in Event BY <1>0, Asks
  <2>10. /\ accepted' \in [Event -> Nat] /\ accepted'[q.event] = 1
         /\ \A e \in Event \ {q.event} : accepted'[e] = accepted[e]
    BY <2>2, <2>3, <2>4, Counted DEF Typed, TypeOK
  <2>5. AcceptedIsKept' /\ AcceptedOnce'
    BY <1>0, <2>3, <2>10 DEF AcceptedIsKept, AcceptedOnce, Has, Of, Kept
  <2> HIDE DEF q
  <2>6. Numbered' /\ EvidenceIsPresent'
    BY <1>0 DEF Numbered, Bystanders, Kept, EvidenceIsPresent
  <2>7. ASSUME NEW p \in Request, p # r PROVE ChangesAhead(p)' /\ DeliveryFits(p)'
    <3>1. /\ request'[p] = request[p] /\ step'[p] = step[p] /\ held'[p] = held[p]
          /\ Fits(p) /\ Apart(p, r)
      BY <2>1, <2>7 DEF Others
    <3>2. ChangesAhead(p)' BY <1>0, <3>1 DEF ChangesAhead, Fits, Bystanders, Kept
    <3>3. step[p] = "accepted" /\ inbox.id = request[p].id => request[p].event # q.event
      BY <1>0, <2>2, <3>1 DEF Apart, q
    <3>5. request[p].op = "accept" => request[p].event \in Event
      BY Asks DEF Typed, TypeOK
    <3>4. DeliveryFits(p)'
      BY <1>0, <2>10, <3>1, <3>3, <3>5
      DEF DeliveryFits, Fits, Bystanders, Kept, Opens, Has, Of, Older
    <3> QED BY <3>2, <3>4
  <2>8. StepsFit(r)' BY <1>0, <2>1 DEF StepsFit, Bystanders, NoAsk
  <2>9. /\ inbox' = inbox /\ events' = events /\ version' = version /\ delivered' = delivered
    BY <1>0 DEF Kept
  <2> QED BY <1>0, <2>1, <2>5, <2>6, <2>7, <2>8, <2>9, <2>10, Boxes, StoreStep
       DEF Typed, TypeOK
<1> QED BY <1>1, <1>2

\* A delivery that shows as evidence a stored event of the present URL.
LEMMA EvidenceStep ==
  ASSUME IInv, NEW r \in Request, request[r].op = "accept", backend = "d1",
         Bystanders, Quiet, version' = version,
         Opens(inbox, request[r]), NEW shown \in Evidence,
         inbox' = [inbox EXCEPT !.last = shown],
         delivered' = delivered \cup {request[r].event}, shown.event \in delivered',
         \E x \in events' : x.event = shown.event,
         NEW at \in {"duplicate", "judge", "accepted"}, Goto(r, at),
         events' = IF at = "accepted" THEN events \cup {ReceiptOf(request[r])} ELSE events,
         at = "accepted" => Inserts(request[r])
  PROVE  IInv'
<1> USE DEF IInv
<1> DEFINE q == request[r]
<1>0. /\ Fits(r) /\ q \in Ask /\ q.op = "accept" /\ events \subseteq Receipt
      /\ q.id \in Nat \ {0} /\ q.event \in Event /\ IsFiniteSet(events)
      /\ inbox.id = q.id /\ inbox.secret = q.secret
  BY Asks DEF Typed, TypeOK, Opens
<1>1. /\ AskedTyped /\ Others(r) /\ step'[r] = at /\ request'[r] = q /\ held'[r] = held[r]
  BY GotoStep DEF Steps
<1>2. Of(q.id, events) = events BY <1>0, OfAll
<1>3. inbox \in Inbox BY <1>0, Boxes DEF Typed, TypeOK
<1>4. ReceiptOf(q) \in Receipt /\ ReceiptOf(q).id = q.id /\ ReceiptOf(q).event = q.event
      /\ ReceiptOf(q).at = q.at
  BY <1>0, Delivered
<1>5. events' \subseteq Receipt /\ events \subseteq events'
  BY <1>0, <1>4
<1>6. /\ inbox' \in Inbox /\ inbox'.id = inbox.id /\ inbox'.secret = inbox.secret
      /\ inbox'.last = shown
  BY <1>3, Changed
<1>7. IsFiniteSet(events') /\ Cardinality(events') <= MaxEvents
  <2>1. CASE events' = events BY <1>0, <2>1 DEF Typed, TypeOK
  <2>2. CASE events' = events \cup {ReceiptOf(q)} /\ Inserts(q)
    <3>1. /\ IsFiniteSet(events')
          /\ Cardinality(events') \in {Cardinality(events), Cardinality(events) + 1}
      BY <1>0, <2>2, FS_AddElement
    <3>2. ~(Cardinality(events) >= MaxEvents) BY <1>2, <2>2 DEF Inserts, Full
    <3>3. Cardinality(events) \in Nat BY <1>0, FS_CardinalityType
    <3> QED BY <3>1, <3>2, <3>3, WebhooksAssumption
  <2> QED BY <2>1, <2>2
<1>8. ~Has(events, q) => \A y \in events : y.event # q.event BY <1>2 DEF Has
<1>9. Numbered'
  <2>1. \A y \in events' : y.at <= clock
    BY <1>0, <1>4 DEF Numbered, Fits, NumbersFit
  <2> QED BY <1>6, <2>1 DEF Numbered, Bystanders, Quiet
<1>10. EvidenceIsPresent' /\ AcceptedIsKept' /\ AcceptedOnce'
  <2>1. \A y \in events' : y.id = inbox.id BY <1>0, <1>4 DEF EvidenceIsPresent
  <2>2. \A y, z \in events' : y.event = z.event => y = z
    BY <1>4, <1>8 DEF EvidenceIsPresent, Inserts
  <2>3. AcceptedIsKept' /\ AcceptedOnce' BY <1>5 DEF AcceptedIsKept, AcceptedOnce, Quiet
  <2> QED BY <1>5, <1>6, <2>1, <2>2, <2>3 DEF EvidenceIsPresent
<1>11. ASSUME NEW p \in Request PROVE ChangesAhead(p)' /\ DeliveryFits(p)'
  <2>1. /\ request'[p] = request[p] /\ held'[p] = held[p] /\ Fits(p)
        /\ step'[p] = step[p] \/ (p = r /\ step'[p] = at)
    BY <1>1 DEF Others
  <2>2. ChangesAhead(p)'
    BY <1>6, <2>1 DEF ChangesAhead, Fits, Bystanders, Quiet
  <2>3. \A y \in events' : y \in events \/ (Inserts(q) /\ y.event \in delivered' /\ y.at = q.at)
    BY <1>4
  <2>4. \A y \in events, t \in Nat : Older(y, t) => Older(y, t)' BY DEF Older
  <2>5. ASSUME backend = "d1", request[p].op = "accept" PROVE DeliveryFits(p)'
    <3>1. DeliveryFits(p) /\ request[p] \in Ask /\ request[p].at \in Nat
      BY <2>1, <2>5, Asks DEF Fits, Typed, TypeOK
    <3>2. Has(events, request[p]) => Has(events', request[p])
      BY <1>5 DEF Has, Of
    <3>3. ASSUME step'[p] \in {"evidence", "accepted"}, inbox'.id = request[p].id
          PROVE  Has(events', request[p])
      <4>1. CASE step'[p] = step[p] BY <1>6, <2>5, <3>1, <3>2, <3>3, <4>1 DEF DeliveryFits
      <4>2. CASE p = r /\ step'[p] = "accepted"
        BY <1>0, <1>1, <1>4, <4>2 DEF Has, Of
      <4> QED BY <2>1, <3>3, <4>1, <4>2
    <3>4. ASSUME step'[p] = "accepted", inbox'.id = request[p].id
          PROVE  accepted[request[p].event] = 0
      <4>1. CASE step'[p] = step[p] BY <1>6, <2>5, <3>1, <3>4, <4>1 DEF DeliveryFits
      <4>2. CASE p = r /\ at = "accepted"
        BY <1>0, <1>8, <4>2 DEF Inserts, AcceptedIsKept, Typed, TypeOK
      <4> QED BY <1>1, <2>1, <3>4, <4>1, <4>2
    <3>5. ASSUME Opens(inbox', request[p]), NEW y \in events'
          PROVE  Older(y, request[p].at)'
      <4>1. Opens(inbox, request[p]) BY <1>6, <3>5 DEF Opens
      <4>2. CASE y \in events
        <5>1. Older(y, request[p].at) BY <2>5, <3>1, <4>1, <4>2 DEF DeliveryFits
        <5> QED BY <2>1, <5>1 DEF Older
      <4>3. CASE y \notin events BY <2>3, <4>3 DEF Older
      <4> QED BY <4>2, <4>3
    <3>6. ASSUME Opens(inbox', request[p]), step'[p] \in {"count", "batch"},
                 NEW y \in events', NEW z \in events', z.event = request[p].event
          PROVE  Older(y, z.at)'
      <4>1. Opens(inbox, request[p]) /\ step[p] = step'[p] BY <1>6, <2>1, <3>6 DEF Opens
      <4>2. CASE y \in events /\ z \in events
        BY <2>5, <3>1, <3>6, <4>1, <4>2 DEF DeliveryFits, Older
      <4>3. CASE y \notin events BY <2>3, <4>3 DEF Older
      <4>4. CASE y \in events /\ z \notin events
        <5>1. z.at = q.at /\ z.event \in delivered' BY <2>3, <4>4
        <5>2. Older(y, q.at) BY <1>0, <4>4 DEF Fits, DeliveryFits
        <5> QED BY <5>1, <5>2 DEF Older
      <4> QED BY <4>2, <4>3, <4>4
    <3> QED BY <2>1, <3>3, <3>4, <3>5, <3>6 DEF DeliveryFits, Quiet
  <2>6. backend' = backend BY DEF Bystanders
  <2>7. ~(backend = "d1" /\ request[p].op = "accept") => DeliveryFits(p)'
    BY <2>1, <2>6 DEF DeliveryFits
  <2> QED BY <2>2, <2>5, <2>7
<1>12. at = "accepted" =>
         \A p \in Request \ {r} : step[p] = "accepted" /\ inbox.id = request[p].id
                                    => request[p].event # q.event
  <2> SUFFICES ASSUME at = "accepted", NEW p \in Request, step[p] = "accepted",
                      inbox.id = request[p].id
               PROVE  request[p].event # q.event
    OBVIOUS
  <2>1. request[p].op = "accept" /\ Fits(p) BY DEF Fits, StepsFit
  <2>2. Has(events, request[p]) BY <2>1 DEF Fits, DeliveryFits
  <2> QED BY <1>8, <2>2 DEF Inserts, Has, Of
<1>13. StepsFit(r)' BY <1>0, <1>1 DEF StepsFit, Bystanders
<1>14. delivered' \subseteq Event /\ held[r].version <= version
  BY <1>0 DEF Typed, TypeOK, Fits, NumbersFit
<1> HIDE DEF q
<1> QED BY <1>0, <1>1, <1>5, <1>6, <1>7, <1>9, <1>10, <1>11, <1>12, <1>13, <1>14, StoreStep
     DEF Typed, TypeOK, Quiet, q

LEMMA RecordPreserves ==
  ASSUME IInv, NEW r \in Request, RecordEvidence(r)
  PROVE  IInv'
<1> USE DEF IInv
<1> DEFINE q == request[r]
<1>0. /\ Fits(r) /\ q \in Ask /\ q.op = "accept" /\ step[r] = "evidence" /\ backend = "d1"
      /\ Bystanders /\ Quiet /\ version' = version /\ events' = events
  BY DEF RecordEvidence, Working, Fits, StepsFit, Typed, TypeOK
<1>1. CASE ~Opens(inbox, q)
  <2>1. End(r) /\ Kept BY <1>0, <1>1 DEF RecordEvidence, Kept
  <2> QED BY <1>0, <2>1, EndsPreserve
<1>2. CASE Opens(inbox, q)
  <2>1. Has(events, q) BY <1>0, <1>2 DEF Fits, DeliveryFits, Opens
  <2>2. EvidenceOf(q) \in Evidence /\ EvidenceOf(q).event = q.event BY <1>0, Delivered
  <2>3. \E x \in events' : x.event = EvidenceOf(q).event
    BY <1>0, <2>1, <2>2 DEF Has, Of
  <2>4. /\ inbox' = [inbox EXCEPT !.last = EvidenceOf(q)] /\ Goto(r, "duplicate")
        /\ delivered' = delivered \cup {q.event}
    BY <1>2 DEF RecordEvidence
  <2> HIDE DEF q
  <2> QED BY <1>0, <1>2, <2>2, <2>3, <2>4, EvidenceStep DEF q
<1> QED BY <1>1, <1>2

\* The newest event after the batch came over the present URL.
LEMMA BatchPreserves ==
  ASSUME IInv, NEW r \in Request, Batch(r)
  PROVE  IInv'
<1> USE DEF IInv
<1> DEFINE q == request[r]
<1>0. /\ Fits(r) /\ q \in Ask /\ q.op = "accept" /\ step[r] = "batch" /\ backend = "d1"
      /\ Bystanders /\ Quiet /\ version' = version /\ events \subseteq Receipt
      /\ IsFiniteSet(events)
  BY DEF Batch, Working, Fits, StepsFit, Typed, TypeOK
<1>1. /\ ReceiptOf(q) \in Receipt /\ ReceiptOf(q).id = q.id /\ ReceiptOf(q).event = q.event
      /\ ReceiptOf(q).at = q.at /\ q.at \in Nat /\ q.event \in Event
  BY <1>0, Delivered, Asks
<1>2. events' = IF Inserts(q) THEN events \cup {ReceiptOf(q)} ELSE events
  BY DEF Batch
<1>3. IsFiniteSet(events') /\ events' \subseteq Receipt
  BY <1>0, <1>1, <1>2, FS_AddElement
<1>4. CASE Opens(inbox, q) /\ Has(events', q)
  <2> DEFINE n == Newest(events')
  <2>1. q.id = inbox.id /\ Of(q.id, events) = events BY <1>0, <1>4, OfAll DEF Opens
  <2>2. Of(q.id, events') = events' BY <1>1, <1>2, <2>1 DEF Of
  <2>3. events' # {} BY <1>4 DEF Has, Of
  <2>4. n \in events' /\ \A y \in events' : y.at <= n.at BY <1>3, <2>3, NewestOf
  <2>5. inbox' = [inbox EXCEPT !.last = EvidenceOf(n)] /\ delivered' = delivered \cup {q.event}
    BY <1>4, <2>2 DEF Batch
  <2> HIDE DEF n
  <2>6. \A y \in events' : y.at \in Nat BY <1>3, Boxes
  <2>7. n.event \in delivered'
    <3>1. CASE n.event = q.event BY <2>5, <3>1
    <3>2. CASE n.event # q.event /\ Inserts(q)
      <4>1. n \in events /\ q.at <= n.at BY <1>1, <1>2, <2>4, <3>2
      <4>2. Older(n, q.at) BY <1>0, <1>4, <4>1 DEF Fits, DeliveryFits
      <4> QED BY <1>1, <2>4, <2>5, <2>6, <4>1, <4>2 DEF Older
    <3>3. CASE n.event # q.event /\ ~Inserts(q)
      <4>1. events' = events BY <1>2, <3>3
      <4>2. PICK y \in events : y.event = q.event BY <1>4, <4>1 DEF Has, Of
      <4>3. Older(n, y.at) BY <1>0, <1>4, <2>4, <4>1, <4>2 DEF Fits, DeliveryFits
      <4> QED BY <2>4, <2>5, <2>6, <4>1, <4>2, <4>3 DEF Older
    <3> QED BY <3>1, <3>2, <3>3
  <2>8. EvidenceOf(n) \in Evidence /\ EvidenceOf(n).event = n.event
    BY <1>3, <2>4, Boxes DEF EvidenceOf
  <2>9. \E x \in events' : x.event = EvidenceOf(n).event BY <2>4, <2>8
  <2> HIDE DEF q
  <2>10. CASE Inserts(q)
    <3>1. Goto(r, "accepted") BY <2>10 DEF Batch, q
    <3> QED BY <1>0, <1>2, <1>4, <2>5, <2>7, <2>8, <2>9, <2>10, <3>1, EvidenceStep DEF q
  <2>11. CASE ~Inserts(q)
    <3>1. Goto(r, "judge") BY <2>11 DEF Batch, q
    <3> QED BY <1>0, <1>2, <1>4, <2>5, <2>7, <2>8, <2>9, <2>11, <3>1, EvidenceStep DEF q
  <2> QED BY <2>10, <2>11
<1>5. CASE ~(Opens(inbox, q) /\ Has(events', q))
  <2>1. ~Inserts(q) BY <1>1, <1>2, <1>5 DEF Inserts, Has, Of
  <2>2. Kept /\ Goto(r, "judge") BY <1>0, <1>5, <2>1 DEF Batch, Kept
  <2> HIDE DEF q
  <2> QED BY <1>0, <2>2, GoesPreserve DEF Steps, q
<1> QED BY <1>4, <1>5

-----------------------------------------------------------------------------
(* The put of the blob store                                               *)

\* What the put that matches makes of the connection and its events.
LEMMA StoreFits ==
  ASSUME IInv, NEW r \in Request, Working(r, "put"), Matches(r), Store(r)
  PROVE  /\ inbox' \in Inbox \cup {NoInbox} /\ events' \subseteq Receipt
         /\ IsFiniteSet(events') /\ Cardinality(events') <= MaxEvents
         /\ delivered' \subseteq Event
         /\ inbox'.id <= made
         /\ \A x \in events' : x.at <= clock
         /\ EvidenceIsPresent'
         /\ inbox' = NoInbox \/ events \subseteq events'
         /\ Outcome(held[r].inbox, held[r].events, request[r]) \in {"created", "rotated"} =>
              inbox'.id \in 1..made /\ inbox'.secret \in 1..made
         /\ Outcome(held[r].inbox, held[r].events, request[r]) = "accepted" =>
              /\ request[r].op = "accept" /\ Opens(inbox, request[r])
              /\ ~Has(events, request[r])
              /\ events' = events \cup {ReceiptOf(request[r])}
         /\ \/ events' = events
            \/ inbox' = NoInbox /\ events' = {}
            \/ Outcome(held[r].inbox, held[r].events, request[r]) = "accepted"
<1> USE DEF IInv
<1> DEFINE q == request[r]
           o == Outcome(inbox, events, q)
<1>0. /\ Fits(r) /\ q \in Ask /\ held[r].inbox = inbox /\ held[r].events = events
      /\ inbox \in Inbox \cup {NoInbox} /\ events \subseteq Receipt /\ IsFiniteSet(events)
      /\ Cardinality(events) <= MaxEvents /\ made \in Nat /\ delivered \subseteq Event
      /\ inbox.id <= made /\ \A x \in events : x.at <= clock
  BY DEF Working, Matches, Fits, NumbersFit, Typed, TypeOK, Numbered
<1>1. q.op \in {"create", "rotate", "revoke", "accept"}
  BY <1>0, Asks DEF Working, Fits, StepsFit
<1>2. /\ inbox' = InboxAfter(inbox, events, q) /\ events' = EventsAfter(inbox, events, q)
      /\ Delivers(q, inbox')
  BY <1>0 DEF Store
<1>3. delivered' \subseteq Event
  <2>1. q.op = "accept" => q.event \in Event BY <1>0, Asks
  <2> QED BY <1>0, <1>2, <2>1 DEF Delivers
<1>4. /\ q.op \in Change => q.secret \in 1..made
      /\ q.op = "accept" => q.at <= clock /\ q.id # 0
  <2>1. q.op \in Change => q.secret \in Nat \ {0} BY <1>0, Asks
  <2>2. q.op = "accept" => q.id \in Nat \ {0} BY <1>0, Asks
  <2> QED BY <1>0, <2>1, <2>2 DEF Fits, NumbersFit
<1>5. /\ o = "created" => q.op = "create" /\ inbox = NoInbox
      /\ o = "rotated" => q.op = "rotate" /\ inbox # NoInbox
      /\ o = "revoked" => q.op = "revoke"
      /\ o \in {"accepted", "duplicate"} => q.op = "accept" /\ Opens(inbox, q)
      /\ o = "accepted" => ~Has(events, q) /\ ~Full(events, q)
      /\ o = "duplicate" => Has(events, q)
  BY <1>1 DEF Outcome
<1>6. o = Outcome(held[r].inbox, held[r].events, q) BY <1>0
<1> HIDE DEF o
<1>7. CASE o = "created"
  <2>1. inbox' = Created(q) /\ events' = events BY <1>2, <1>7 DEF InboxAfter, EventsAfter, o
  <2>2. events = {} BY <1>5, <1>7, EmptyInbox
  <2>3. /\ inbox' \in Inbox /\ inbox'.id = q.secret /\ inbox'.secret = q.secret
        /\ inbox'.last = NoEvidence
    BY <1>0, <1>5, <1>7, <2>1, Changed
  <2>4. inbox'.id \in 1..made /\ inbox'.id <= made
    BY <1>0, <1>4, <1>5, <1>7, <2>3 DEF Change
  <2>5. EvidenceIsPresent' BY <2>1, <2>2, <2>3 DEF EvidenceIsPresent
  <2> QED BY <1>0, <1>3, <1>6, <1>7, <2>1, <2>3, <2>4, <2>5
<1>8. CASE o = "rotated"
  <2>1. inbox' = Rotated(inbox, q) /\ events' = events BY <1>2, <1>8 DEF InboxAfter, EventsAfter, o
  <2>2. inbox \in Inbox /\ inbox.id # 0 BY <1>0, <1>5, <1>8, Boxes
  <2>3. /\ inbox' \in Inbox /\ inbox'.id = inbox.id /\ inbox'.secret = q.secret
        /\ inbox'.last = NoEvidence
    BY <1>0, <1>5, <1>8, <2>1, <2>2, Changed
  <2>4. inbox'.id \in 1..made /\ inbox'.secret \in 1..made
    BY <1>0, <1>4, <1>5, <1>8, <2>2, <2>3, Boxes DEF Change
  <2>5. EvidenceIsPresent' BY <2>1, <2>3 DEF EvidenceIsPresent
  <2> QED BY <1>0, <1>3, <1>6, <1>8, <2>1, <2>3, <2>4, <2>5
<1>9. CASE o = "revoked"
  <2>1. inbox' = NoInbox /\ events' = {} BY <1>2, <1>9 DEF InboxAfter, EventsAfter, o
  <2>2. EvidenceIsPresent' BY <2>1, Boxes DEF EvidenceIsPresent
  <2>3. IsFiniteSet({}) /\ Cardinality({}) <= MaxEvents BY FS_EmptySet, WebhooksAssumption
  <2> QED BY <1>0, <1>3, <1>6, <1>9, <2>1, <2>2, <2>3, Boxes
<1>10. CASE o \in {"accepted", "duplicate"}
  <2>1. inbox' = [inbox EXCEPT !.last = EvidenceOf(q)]
    BY <1>2, <1>10 DEF InboxAfter, o
  <2>2. events' = IF o = "accepted" THEN events \cup {ReceiptOf(q)} ELSE events
    BY <1>2, <1>10 DEF EventsAfter, o
  <2>3. q.op = "accept" /\ inbox.id = q.id /\ inbox.id # 0 /\ inbox \in Inbox
    BY <1>0, <1>4, <1>5, <1>10, Boxes DEF Opens
  <2>4. /\ EvidenceOf(q) \in Evidence /\ EvidenceOf(q).event = q.event
        /\ ReceiptOf(q) \in Receipt /\ ReceiptOf(q).id = q.id
        /\ ReceiptOf(q).event = q.event /\ ReceiptOf(q).at = q.at
    BY <1>0, <2>3, Delivered
  <2>5. /\ inbox' \in Inbox /\ inbox'.id = inbox.id /\ inbox'.secret = inbox.secret
        /\ inbox'.last = EvidenceOf(q)
    BY <2>1, <2>3, <2>4, Changed
  <2>6. Of(q.id, events) = events BY <1>0, <2>3, OfAll
  <2>7. IsFiniteSet(events') /\ Cardinality(events') <= MaxEvents
    <3>1. CASE o = "duplicate" BY <1>0, <2>2, <3>1
    <3>2. CASE o = "accepted"
      <4>1. /\ IsFiniteSet(events')
            /\ Cardinality(events') \in {Cardinality(events), Cardinality(events) + 1}
        BY <1>0, <2>2, <3>2, FS_AddElement
      <4>2. ~(Cardinality(events) >= MaxEvents) BY <1>5, <2>6, <3>2 DEF Full
      <4>3. Cardinality(events) \in Nat BY <1>0, FS_CardinalityType
      <4> QED BY <4>1, <4>2, <4>3, WebhooksAssumption
    <3> QED BY <1>10, <3>1, <3>2
  <2>8. \E x \in events' : x.event = q.event
    BY <1>5, <1>10, <2>2, <2>4 DEF Has, Of
  <2>9. q.event \in delivered'
    <3>1. CASE inbox'.last # inbox.last BY <1>2, <2>3, <2>5, <3>1 DEF Delivers
    <3>2. CASE inbox'.last = inbox.last
      <4>1. inbox.last # NoEvidence BY <2>4, <2>5, <3>2, Boxes
      <4>2. q.event \in delivered BY <2>4, <2>5, <3>2, <4>1 DEF EvidenceIsPresent
      <4> QED BY <1>2, <2>5, <3>2, <4>2 DEF Delivers
    <3> QED BY <3>1, <3>2
  <2>10. \A x, y \in events' : x.event = y.event => x = y
    <3>1. o = "accepted" => \A x \in events : x.event # q.event BY <1>5, <2>6 DEF Has
    <3> QED BY <2>2, <2>4, <3>1 DEF EvidenceIsPresent
  <2>11. \A x \in events' : x.id = inbox'.id
    BY <2>2, <2>3, <2>4, <2>5 DEF EvidenceIsPresent
  <2>12. EvidenceIsPresent' BY <2>4, <2>5, <2>8, <2>9, <2>10, <2>11 DEF EvidenceIsPresent
  <2>13. events' \subseteq Receipt /\ (\A x \in events' : x.at <= clock) /\ events \subseteq events'
    BY <1>0, <1>4, <2>2, <2>3, <2>4
  <2>14. o \notin {"created", "rotated"} BY <1>10
  <2>15. inbox'.id <= made BY <1>0, <2>5
  <2>16. o = "accepted" => /\ q.op = "accept" /\ Opens(inbox, q) /\ ~Has(events, q)
                           /\ events' = events \cup {ReceiptOf(q)}
    BY <1>5, <2>2
  <2>17. events' = events \/ o = "accepted" BY <2>2
  <2> HIDE DEF q
  <2> QED BY <1>3, <1>6, <2>5, <2>7, <2>12, <2>13, <2>14, <2>15, <2>16, <2>17 DEF q
<1>11. CASE o \notin {"created", "rotated", "revoked", "accepted", "duplicate"}
  <2>1. inbox' = inbox /\ events' = events BY <1>2, <1>11 DEF InboxAfter, EventsAfter, o
  <2>2. delivered \subseteq delivered' BY <1>2, <2>1 DEF Delivers
  <2>3. EvidenceIsPresent' BY <2>1, <2>2 DEF EvidenceIsPresent
  <2> QED BY <1>0, <1>3, <1>6, <1>11, <2>1, <2>3
<1> QED BY <1>7, <1>8, <1>9, <1>10, <1>11

\* The put that stores, answered or not.
LEMMA PutPreserves ==
  ASSUME IInv, NEW r \in Request, PutAnswered(r) \/ PutUnanswered(r)
  PROVE  IInv'
<1> USE DEF IInv
<1> DEFINE q == request[r]
           o == Outcome(held[r].inbox, held[r].events, q)
<1>0. /\ Working(r, "put") /\ Matches(r) /\ Store(r) /\ Bystanders /\ version' = version + 1
      /\ Fits(r) /\ backend = "blob" /\ version \in Nat /\ q \in Ask
      /\ End(r) \/ Goto(r, "reread")
  BY DEF PutAnswered, PutUnanswered, Unclear, Store, Working, Fits, StepsFit, Typed, TypeOK
<1>1. /\ AskedTyped /\ Others(r)
      /\ \/ step'[r] = "idle" /\ request'[r] = NoAsk /\ held'[r] = Nothing
         \/ step'[r] = "reread" /\ request'[r] = q /\ held'[r] = held[r]
  BY <1>0, EndStep, GotoStep DEF Steps
<1>2. /\ inbox' \in Inbox \cup {NoInbox} /\ events' \subseteq Receipt
      /\ IsFiniteSet(events') /\ Cardinality(events') <= MaxEvents
      /\ delivered' \subseteq Event /\ inbox'.id <= made
      /\ \A x \in events' : x.at <= clock
      /\ EvidenceIsPresent'
      /\ inbox' = NoInbox \/ events \subseteq events'
      /\ o \in {"created", "rotated"} => inbox'.id \in 1..made /\ inbox'.secret \in 1..made
      /\ o = "accepted" => /\ q.op = "accept" /\ events' = events \cup {ReceiptOf(q)}
                           /\ Opens(inbox, q) /\ ~Has(events, q)
  BY <1>0, StoreFits
<1> HIDE DEF o
<1>3. urls \subseteq urls' /\ \A u \in urls' : u \in urls \/ u \in (1..made) \X (1..made)
  BY <1>2 DEF PutAnswered, PutUnanswered, o
<1>4. \/ accepted' = AnsweredAccepted(q.event) /\ o = "accepted"
      \/ accepted' = Remaining(inbox')
  BY DEF PutAnswered, PutUnanswered, o
<1>5. accepted' \in [Event -> Nat] /\ AcceptedIsKept' /\ AcceptedOnce'
  <2>1. CASE accepted' = AnsweredAccepted(q.event) /\ o = "accepted"
    <3>1. q.op = "accept" /\ ReceiptOf(q) \in events' /\ events \subseteq events'
      BY <1>2, <2>1
    <3>2. ReceiptOf(q).event = q.event /\ q.event \in Event BY <1>0, <3>1, Delivered, Asks
    <3>3. accepted[q.event] = 0
      <4>1. Of(q.id, events) = events BY <1>0, <1>2, <2>1, OfAll DEF Opens
      <4> QED BY <1>2, <2>1, <3>2, <4>1 DEF Has, AcceptedIsKept, Typed, TypeOK
    <3>4. /\ accepted' \in [Event -> Nat] /\ accepted'[q.event] = 1
          /\ \A e \in Event \ {q.event} : accepted'[e] = accepted[e]
      BY <2>1, <3>2, <3>3, Counted DEF Typed, TypeOK
    <3> HIDE DEF q
    <3> QED BY <3>1, <3>2, <3>4 DEF AcceptedIsKept, AcceptedOnce
  <2>2. CASE accepted' = Remaining(inbox')
    BY <1>2, <2>2, NoneTyped DEF Remaining, AcceptedIsKept, AcceptedOnce, Typed, TypeOK
  <2> QED BY <1>4, <2>1, <2>2
<1>6. made \in Nat BY DEF Typed, TypeOK
<1>7. Typed'
  BY <1>0, <1>1, <1>2, <1>3, <1>5, <1>6 DEF Typed, TypeOK, AskedTyped, Steps, Bystanders
<1>8. Numbered' BY <1>0, <1>2, <1>3 DEF Numbered, Bystanders
<1>9. ASSUME NEW p \in Request PROVE Fits(p)'
  <2>0. /\ Fits(p) /\ held[p] \in Held /\ step'[p] \in Steps
        /\ \/ request'[p] = request[p] /\ step'[p] = step[p] /\ held'[p] = held[p] /\ p # r
           \/ p = r /\ step'[p] = "idle" /\ request'[p] = NoAsk /\ held'[p] = Nothing
           \/ p = r /\ step'[p] = "reread" /\ request'[p] = q /\ held'[p] = held[r]
    BY <1>1 DEF Others, AskedTyped, Typed, TypeOK
  <2>1. StepsFit(p)' BY <1>0, <2>0 DEF Fits, StepsFit, NoAsk, Working, Bystanders
  <2>2. NumbersFit(p)'
    <3>1. held'[p].version <= version /\ version < version' /\ held'[p].version \in Nat
      BY <1>0, <2>0, Boxes DEF Fits, NumbersFit
    <3>2. held'[p].version <= version' /\ held'[p].version # version' BY <1>0, <3>1
    <3>3. NoAsk.op \notin Change /\ NoAsk.op # "accept" BY DEF NoAsk, Change
    <3>4. 0 <= made BY <1>6
    <3> QED BY <1>0, <1>3, <2>0, <3>2, <3>3, <3>4, Boxes DEF Fits, NumbersFit, Bystanders
  <2>3. ChangesAhead(p)' /\ DeliveryFits(p)'
    BY <1>0 DEF ChangesAhead, DeliveryFits, Bystanders
  <2> QED BY <2>1, <2>2, <2>3 DEF Fits
<1>10. ASSUME NEW p \in Request, NEW s \in Request, p # s PROVE Apart(p, s)'
  <2>1. Apart(p, s) BY <1>10
  <2>2. request'[p] \in {request[p], NoAsk} /\ request'[s] \in {request[s], NoAsk}
    BY <1>1 DEF Others
  <2>3. NoAsk.op \notin Change BY DEF NoAsk, Change
  <2> QED BY <1>0, <2>1, <2>2, <2>3 DEF Apart, Bystanders
<1> QED BY <1>2, <1>5, <1>7, <1>8, <1>9, <1>10

-----------------------------------------------------------------------------
(* The theorems                                                            *)

LEMMA NextPreserves ==
  ASSUME IInv, Next
  PROVE  IInv'
<1>1. PICK r \in Request : \/ BeginChange(r) \/ BeginList(r) \/ BeginDelivery(r)
                           \/ Owner(r) \/ Delivery(r) \/ Blob(r) \/ Fails(r)
  BY DEF Next
<1>2. CASE BeginChange(r) \/ BeginList(r) \/ BeginDelivery(r) BY <1>2, BeginPreserves
<1>3. CASE Owner(r)
  BY <1>3, FindsPreserve, InsertPreserves, RotatePreserves, RevokePreserves, ListEventsPreserves
  DEF Owner
<1>4. CASE Delivery(r)
  BY <1>4, FindsPreserve, RecordPreserves, BatchPreserves, AnswerPreserves DEF Delivery
<1>5. CASE Blob(r) BY <1>5, UnstoredPreserves, PutPreserves DEF Blob
<1>6. CASE Fails(r) BY <1>6, UnstoredPreserves
<1> QED BY <1>1, <1>2, <1>3, <1>4, <1>5, <1>6

LEMMA StutterPreserves ==
  ASSUME IInv, UNCHANGED vars
  PROVE  IInv'
<1> USE DEF IInv, vars, asked
<1>1. Typed' /\ Numbered' BY DEF Typed, TypeOK, Numbered
<1>2. \A r \in Request : Fits(r)'
  BY DEF Fits, StepsFit, NumbersFit, ChangesAhead, DeliveryFits, Opens, Has, Of, Older
<1>3. \A q, r \in Request : q # r => Apart(q, r)' BY DEF Apart
<1>4. EvidenceIsPresent' /\ AcceptedIsKept' /\ AcceptedOnce' BY DEF EvidenceIsPresent, AcceptedIsKept, AcceptedOnce
<1> QED BY <1>1, <1>2, <1>3, <1>4

LEMMA Inductive == Spec => []IInv
<1>1. Init => IInv BY InitIInv
<1>2. IInv /\ [Next]_vars => IInv' BY NextPreserves, StutterPreserves
<1> QED BY <1>1, <1>2, PTL DEF Spec

\* Every variable keeps its type, and the stored events their limit, whatever the order of
\* the owner's changes, the deliveries and the failures.
THEOREM TypeCorrect == Spec => []TypeOK
<1>1. IInv => TypeOK BY DEF IInv, Typed
<1> QED BY <1>1, Inductive, PTL

\* The stored events are those of the connection there is, each once, and the evidence
\* shown to the owner is a stored event that came over the present URL.
THEOREM EvidenceStaysPresent == Spec => []EvidenceIsPresent
<1>1. IInv => EvidenceIsPresent BY DEF IInv
<1> QED BY <1>1, Inductive, PTL

\* An event answered as accepted is stored until its connection is revoked.
THEOREM AcceptedStaysKept == Spec => []AcceptedIsKept
<1>1. IInv => AcceptedIsKept BY DEF IInv
<1> QED BY <1>1, Inductive, PTL

\* However many deliveries of an event race, are retried or come late, a connection answers
\* no more than one of them "accepted" (acceptDropsBotWebhookEvent, 931-1052).
THEOREM AnswersAcceptOnce == Spec => []AcceptedOnce
<1>1. IInv => AcceptedOnce BY DEF IInv
<1> QED BY <1>1, Inductive, PTL

Capable(r) ==
  events' # events /\ step'[r] # step[r] =>
    \/ events' = {}
    \/ /\ request[r].op = "accept" /\ Opens(inbox, request[r])
       /\ events' = events \cup {ReceiptOf(request[r])}

\* Only three steps change the events.
LEMMA Changing ==
  ASSUME IInv, NEW r \in Request,
         \/ BeginChange(r) \/ BeginList(r) \/ BeginDelivery(r)
         \/ Owner(r) \/ Delivery(r) \/ Blob(r) \/ Fails(r)
  PROVE  events' = events \/ Revoke(r) \/ Batch(r) \/ PutAnswered(r) \/ PutUnanswered(r)
BY DEF BeginChange, BeginList, BeginDelivery, Begin, Owner, FindOwned, Insert, Rotate, ListRow,
       ListEvents, Delivery, FindDelivered, Seek, RecordEvidence, CountEvents, Judge, SeekAgain,
       Answer, Blob, Get, PutRefused, PutFails, Reread, Fails, Kept

LEMMA StepIsCapable ==
  ASSUME IInv, Next, NEW p \in Request
  PROVE  Capable(p)
<1> USE DEF IInv
<1>1. PICK r \in Request : \/ BeginChange(r) \/ BeginList(r) \/ BeginDelivery(r)
                           \/ Owner(r) \/ Delivery(r) \/ Blob(r) \/ Fails(r)
  BY DEF Next
<1>2. CASE events' = events BY <1>2 DEF Capable
<1>3. CASE Revoke(r)
  <2>1. \A x \in events : x.id = inbox.id BY DEF EvidenceIsPresent
  <2>2. events' = {} \/ events' = events BY <1>3, <2>1 DEF Revoke, Of
  <2> QED BY <2>2 DEF Capable
<1>4. CASE Batch(r)
  <2>1. Others(r) BY <1>4, GotoStep DEF Batch, Steps
  <2>2. request[r].op = "accept" BY <1>4 DEF Batch, Working, Fits, StepsFit
  <2>3. events' = IF Inserts(request[r]) THEN events \cup {ReceiptOf(request[r])} ELSE events
    BY <1>4 DEF Batch
  <2> QED BY <2>1, <2>2, <2>3 DEF Capable, Others, Inserts
<1>5. CASE PutAnswered(r) \/ PutUnanswered(r)
  <2> DEFINE o == Outcome(held[r].inbox, held[r].events, request[r])
  <2>1. Working(r, "put") /\ Matches(r) /\ Store(r) /\ (End(r) \/ Goto(r, "reread"))
    BY <1>5 DEF PutAnswered, PutUnanswered, Unclear
  <2>2. Others(r) BY <2>1, EndStep, GotoStep DEF Steps
  <2>3. /\ o = "accepted" =>
             /\ request[r].op = "accept" /\ Opens(inbox, request[r])
             /\ events' = events \cup {ReceiptOf(request[r])}
        /\ events' = events \/ events' = {} \/ o = "accepted"
    BY <2>1, StoreFits
  <2> HIDE DEF o
  <2> QED BY <2>2, <2>3 DEF Capable, Others
<1> QED BY <1>1, <1>2, <1>3, <1>4, <1>5, Changing

\* An event is stored only by a delivery to the URL that is present in that very step.
THEOREM StoringStaysCapable == Spec => StoredUnderCapability
<1>1. ASSUME IInv, [Next]_vars
      PROVE  [\A r \in Request : events' # events /\ step'[r] # step[r] =>
                \/ events' = {}
                \/ /\ request[r].op = "accept" /\ Opens(inbox, request[r])
                   /\ events' = events \cup {ReceiptOf(request[r])}]_vars
  <2>1. CASE UNCHANGED vars BY <2>1
  <2>2. CASE Next BY <1>1, <2>2, StepIsCapable DEF Capable
  <2> QED BY <1>1, <2>1, <2>2
<1> QED BY <1>1, Inductive, PTL DEF Spec, StoredUnderCapability
=================================================================================
