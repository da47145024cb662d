-------------------------------- MODULE Billing --------------------------------
(***************************************************************************)
(* Billing (db/billing.ts, lib/billing.ts and the webhook and checkout     *)
(* routes): Stripe delivers subscription events late, in any order and     *)
(* repeatedly, with timestamps of one second, while members open           *)
(* checkouts.  In D1 every statement or batch is a step; in the blob store *)
(* an operation reads the whole state and swaps it.  Of an account the     *)
(* price, the period's end and the cancellation mark are left out: they    *)
(* are overwritten or kept with the status.                                *)
(***************************************************************************)
EXTENDS Naturals, Sequences

CONSTANTS Request, Identity, Customer, Subscription, None,
          StripeEvent,     \* the events Stripe has for this service
          CustomerOf,      \* the account Stripe made each customer for
          MaxEvents,       \* MAX_EVENTS, the receipts the blob state keeps
          MaxAttempts      \* attempts of a mutation of the blob state

VARIABLES backend,     \* "d1" or "blob"
          accounts,    \* the billing accounts
          receipts,    \* the events receipted in D1
          log,         \* the events receipted in the blob state, in order
          present,     \* whether there is a blob
          fresh,       \* the request slots whose blob snapshot is still the newest
          request,     \* per request slot: what it asks
          step,        \* per request slot: its next storage call
          found,       \* per request slot: the accounts its lookups found, or NotYet
          snapshot,    \* per request slot: the blob state it read
          attempt,     \* per request slot: the attempts it has spent
          judged,      \* the <<event, identity>> receipted as processed or stale
          sessions     \* the <<identity, customer>> checkouts were opened for

asked == <<request, step, found, snapshot, attempt>>
store == <<accounts, receipts, log, present, fresh, judged>>
vars == <<backend, store, asked, sessions>>

Status == {"none", "active", "trialing", "incomplete", "past_due", "paused", "unpaid",
           "canceled", "incomplete_expired"}
Event == [subscribes : BOOLEAN, at : Nat \ {0}, identity : Identity \cup {None},
          customer : Customer \cup {None}, subscription : Subscription \cup {None},
          status : Status \ {"none"}]
Account == [identity : Identity, customer : Customer,
            subscription : Subscription \cup {None}, status : Status, at : Nat]

ASSUME BillingAssumption ==
  /\ None \notin Identity \cup Customer \cup Subscription
  /\ StripeEvent \subseteq Event
  /\ CustomerOf \in [Customer -> Identity]
  /\ MaxEvents \in Nat \ {0} /\ MaxAttempts \in Nat \ {0}

Key == {"identity", "customer", "subscription"}
NotYet == {None}
Unread == [k \in Key |-> NotYet]
NoState == [accounts |-> {}, log |-> <<>>, present |-> FALSE]
NoAsk == [op |-> "none"]

TypeOK ==
  /\ backend \in {"d1", "blob"}
  /\ accounts \subseteq Account
  /\ receipts \subseteq StripeEvent
  /\ log \in Seq(StripeEvent) /\ Len(log) <= MaxEvents
  /\ present \in BOOLEAN /\ fresh \subseteq Request
  /\ request \in [Request -> {NoAsk} \cup [op : {"event"}, event : StripeEvent]
                               \cup [op : {"checkout"}, identity : Identity, customer : Customer]]
  /\ step \in [Request -> {"idle", "receipt", "lookup", "failed", "relookup", "record",
                           "account", "current", "owner", "insert", "saved", "session",
                           "get", "put"}]
  /\ \A r \in Request, k \in Key : found[r][k] = NotYet \/ found[r][k] \subseteq Account
  /\ \A r \in Request : snapshot[r].accounts \subseteq Account
  /\ attempt \in [Request -> 0..MaxAttempts]
  /\ judged \subseteq StripeEvent \X Identity
  /\ sessions \subseteq Identity \X Customer

Init ==
  /\ backend \in {"d1", "blob"}
  /\ accounts = {} /\ receipts = {} /\ log = <<>> /\ present = FALSE /\ fresh = {}
  /\ request = [r \in Request |-> NoAsk]
  /\ step = [r \in Request |-> "idle"]
  /\ found = [r \in Request |-> Unread]
  /\ snapshot = [r \in Request |-> NoState]
  /\ attempt = [r \in Request |-> 0]
  /\ judged = {} /\ sessions = {}

-----------------------------------------------------------------------------
(* What an event means for the accounts.                                   *)

\* billingStatusPrecedence.
Precedence(status) ==
  CASE status \in {"active", "trialing"} -> 0
    [] status = "incomplete" -> 1
    [] status = "past_due" -> 2
    [] status = "paused" -> 3
    [] status = "unpaid" -> 4
    [] status \in {"canceled", "incomplete_expired"} -> 5
    [] status = "none" -> 6

\* staleSubscriptionEvent, and the WHERE of the upsert.
Stale(x, e) ==
  IF e.at # x.at THEN e.at < x.at ELSE Precedence(e.status) <= Precedence(x.status)

By(k, e, all) == IF e[k] = None THEN {} ELSE {x \in all : x[k] = e[k]}
Lookups(e, all) == [k \in Key |-> By(k, e, all)]

\* Mutant: the subscription's account is not asked for.
MappedByCustomer(e, rows) == ({e.identity} \ {None}) \cup {x.identity : x \in rows["customer"]}

\* resolveEventMapping: the identities an event maps to, and the account it is about.
Mapped(e, rows) ==
  ({e.identity} \ {None}) \cup {x.identity : x \in rows["customer"] \cup rows["subscription"]}
Current(rows) ==
  IF rows["identity"] # {} THEN rows["identity"]
  ELSE IF rows["customer"] # {} THEN rows["customer"] ELSE rows["subscription"]

Conflicts(e, rows) ==
  \/ \E i, j \in Mapped(e, rows) : i # j
  \/ e.customer # None /\ \E x \in Current(rows) : x.customer # e.customer

Judgement(e, rows) ==
  CASE ~e.subscribes \/ e.customer = None \/ Mapped(e, rows) = {} \/ Conflicts(e, rows) -> "ignored"
    [] OTHER -> IF \E x \in Current(rows) : Stale(x, e) THEN "stale" ELSE "processed"

\* The account an event makes of x, or a new one.
Merged(i, e, old) ==
  [identity |-> i, customer |-> e.customer, status |-> e.status, at |-> e.at,
   subscription |-> IF e.subscription = None /\ old # {}
                      THEN (CHOOSE x \in old : TRUE).subscription ELSE e.subscription]

Logged(e, events) == \E n \in DOMAIN events : events[n] = e

Trimmed(events) ==
  IF Len(events) > MaxEvents
    THEN SubSeq(events, Len(events) - MaxEvents + 1, Len(events)) ELSE events

Owned(i, all) == {x \in all : x.identity = i}

\* UNIQUE(stripe_customer_id) and UNIQUE(stripe_subscription_id).
Unique(all) ==
  \A x, y \in all :
    \/ x = y
    \/ x.customer # y.customer /\ (x.subscription = None \/ x.subscription # y.subscription)

\* Mutant: the upsert trusts the lookups made before it.
UpsertsBlindly(i, e) == \A x \in Owned(i, accounts) : x.customer = e.customer

\* The ON CONFLICT ... DO UPDATE ... WHERE of the upsert.
Upserts(i, e) ==
  \A x \in Owned(i, accounts) : x.customer = e.customer /\ ~Stale(x, e)

Upserted(i, e) ==
  (accounts \ Owned(i, accounts)) \cup {Merged(i, e, Owned(i, accounts))}

-----------------------------------------------------------------------------
Working(r, at) == step[r] = at
Goto(r, at) == step' = [step EXCEPT ![r] = at] /\ UNCHANGED <<request, found, snapshot, attempt>>
End(r) ==
  /\ request' = [request EXCEPT ![r] = NoAsk]
  /\ step' = [step EXCEPT ![r] = "idle"]
  /\ found' = [found EXCEPT ![r] = Unread]
  /\ snapshot' = [snapshot EXCEPT ![r] = NoState]
  /\ attempt' = [attempt EXCEPT ![r] = 0]
Reading == UNCHANGED <<backend, store, sessions>>

Begin(r, q, first) ==
  /\ Working(r, "idle")
  /\ request' = [request EXCEPT ![r] = q]
  /\ step' = [step EXCEPT ![r] = first]
  /\ UNCHANGED <<found, snapshot, attempt>>
  /\ Reading

\* Stripe delivers an event, for the first time or again.
Deliver(r) == \E e \in StripeEvent :
  Begin(r, [op |-> "event", event |-> e], IF backend = "d1" THEN "receipt" ELSE "get")

\* A member opens a checkout; Stripe would make the customer c for a new account.
Checkout(r) == \E c \in Customer :
  Begin(r, [op |-> "checkout", identity |-> CustomerOf[c], customer |-> c], "account")

-----------------------------------------------------------------------------
(* D1: applyBillingWebhookEvent.                                           *)

FindReceipt(r) ==
  /\ Working(r, "receipt")
  /\ LET e == request[r].event
     IN  IF e \in receipts THEN End(r)
         ELSE Goto(r, IF e.subscribes THEN "lookup" ELSE "record")
  /\ Reading

\* The three lookups run in parallel and are answered in any order.
LookUp(r) ==
  /\ step[r] \in {"lookup", "relookup"}
  /\ \E k \in Key :
       /\ found[r][k] = NotYet
       /\ found' = [found EXCEPT ![r][k] = By(k, request[r].event, accounts)]
  /\ UNCHANGED <<request, step, snapshot, attempt>>
  /\ Reading

LookedUp(r) == \A k \in Key : found[r][k] # NotYet

\* recordD1EventReceipt: an event receipted meanwhile answers "duplicate".
Record(r) ==
  LET e == request[r].event
      stale == Working(r, "lookup") /\ Judgement(e, found[r]) = "stale"
  IN  /\ \/ Working(r, "record")
         \/ Working(r, "lookup") /\ LookedUp(r) /\ Judgement(e, found[r]) # "processed"
         \/ Working(r, "relookup") /\ LookedUp(r) /\ Conflicts(e, found[r])
      /\ receipts' = receipts \cup {e}
      /\ judged' = IF stale /\ e \notin receipts
                     THEN judged \cup {<<e, i>> : i \in Mapped(e, found[r])} ELSE judged
      /\ End(r)
      /\ UNCHANGED <<backend, accounts, log, present, fresh, sessions>>

\* The batch of the receipt and the upsert: both or neither.
Batch(r) ==
  LET e == request[r].event
  IN  /\ Working(r, "lookup") /\ LookedUp(r) /\ Judgement(e, found[r]) = "processed"
      /\ \E i \in Mapped(e, found[r]) :
           IF e \in receipts \/ (Upserts(i, e) /\ ~Unique(Upserted(i, e)))
             THEN Goto(r, "failed") /\ UNCHANGED <<accounts, receipts, judged>>
             ELSE /\ receipts' = receipts \cup {e}
                  /\ accounts' = IF Upserts(i, e) THEN Upserted(i, e) ELSE accounts
                  /\ judged' = IF \E x \in Owned(i, accounts) : x.customer # e.customer
                                 THEN judged ELSE judged \cup {<<e, i>>}
                  /\ End(r)
      /\ UNCHANGED <<backend, log, present, fresh, sessions>>

\* The batch failed: was it another delivery of the event, or a conflict?
Failed(r) ==
  /\ Working(r, "failed")
  /\ IF request[r].event \in receipts THEN End(r)
     ELSE /\ step' = [step EXCEPT ![r] = "relookup"]
          /\ found' = [found EXCEPT ![r] = Unread]
          /\ UNCHANGED <<request, snapshot, attempt>>
  /\ Reading

\* No conflict after all: the delivery is answered with an error, and Stripe comes back.
GiveUp(r) ==
  /\ Working(r, "relookup") /\ LookedUp(r) /\ ~Conflicts(request[r].event, found[r])
  /\ End(r)
  /\ Reading

-----------------------------------------------------------------------------
(* createProCheckout and saveBillingCustomer.                              *)

\* Goes on to the session with the customer c.
Open(r, c) ==
  /\ request' = [request EXCEPT ![r].customer = c]
  /\ step' = [step EXCEPT ![r] = "session"]
  /\ found' = [found EXCEPT ![r] = Unread]
  /\ snapshot' = [snapshot EXCEPT ![r] = NoState]
  /\ UNCHANGED attempt

Mine(r) == Owned(request[r].identity, accounts)
Taken(c, all) == \E x \in all : x.customer = c

\* An active account is refused when it has the configured price.
ReadAccount(r) ==
  /\ Working(r, "account")
  /\ \/ \E x \in Mine(r) : Open(r, x.customer)
     \/ (\E x \in Mine(r) : x.status \in {"active", "trialing"}) /\ End(r)
     \/ Mine(r) = {} /\ Goto(r, IF backend = "d1" THEN "current" ELSE "get")
  /\ Reading

ReadCurrent(r) ==
  /\ Working(r, "current")
  /\ \/ \E x \in Mine(r) : Open(r, x.customer)
     \/ Mine(r) = {} /\ Goto(r, "owner")
  /\ Reading

ReadOwner(r) ==
  /\ Working(r, "owner")
  /\ IF Taken(request[r].customer, accounts) THEN End(r) ELSE Goto(r, "insert")
  /\ Reading

Placeholder(q) ==
  [identity |-> q.identity, customer |-> q.customer, subscription |-> None,
   status |-> "none", at |-> 0]

\* INSERT OR IGNORE.
InsertCustomer(r) ==
  /\ Working(r, "insert")
  /\ accounts' = IF Mine(r) # {} \/ Taken(request[r].customer, accounts)
                   THEN accounts ELSE accounts \cup {Placeholder(request[r])}
  /\ Goto(r, "saved")
  /\ UNCHANGED <<backend, receipts, log, present, fresh, judged, sessions>>

\* Mutant: the checkout goes on with the customer it offered.
SavedCustomerOffered(r) == {request[r].customer}

SavedCustomer(r) == {x.customer : x \in Mine(r)}

ReadSaved(r) ==
  /\ Working(r, "saved")
  /\ \/ \E c \in SavedCustomer(r) : Open(r, c)
     \/ Mine(r) = {} /\ End(r)
  /\ Reading

\* Stripe opens the session, or fails.
OpenSession(r) ==
  /\ Working(r, "session")
  /\ sessions' \in {sessions, sessions \cup {<<request[r].identity, request[r].customer>>}}
  /\ End(r)
  /\ UNCHANGED <<backend, store>>

-----------------------------------------------------------------------------
(* The blob store: mutateBlob.                                             *)

StateNow == [accounts |-> accounts, log |-> log, present |-> present]

Get(r) ==
  /\ Working(r, "get")
  /\ snapshot' = [snapshot EXCEPT ![r] = StateNow]
  /\ fresh' = fresh \cup {r}
  /\ step' = [step EXCEPT ![r] = "put"]
  /\ UNCHANGED <<request, found, attempt, backend, accounts, receipts, log, present,
                 judged, sessions>>

\* Another account's customer throws before any put.
Refuses(r) ==
  /\ request[r].op = "checkout"
  /\ Owned(request[r].identity, snapshot[r].accounts) = {}
  /\ Taken(request[r].customer, snapshot[r].accounts)

GetRefused(r) ==
  /\ Working(r, "put") /\ Refuses(r)
  /\ End(r)
  /\ Reading

\* applyEventToState: the receipt first, whatever the event turns out to be.
Apply(e, s) ==
  LET rows == Lookups(e, s.accounts)
      i == CHOOSE i \in Mapped(e, rows) : TRUE
  IN  /\ log' = IF Logged(e, s.log) THEN s.log ELSE Trimmed(Append(s.log, e))
      /\ IF ~Logged(e, s.log) /\ Judgement(e, rows) = "processed"
           THEN accounts' = (s.accounts \ Current(rows)) \cup {Merged(i, e, Current(rows))}
           ELSE accounts' = s.accounts
      /\ judged' = IF Logged(e, s.log) \/ Judgement(e, rows) = "ignored"
                     THEN judged ELSE judged \cup {<<e, i>>}

\* saveBillingCustomer on the blob state.
Link(q, s) ==
  /\ accounts' = IF Owned(q.identity, s.accounts) # {} THEN s.accounts
                 ELSE s.accounts \cup {Placeholder(q)}
  /\ log' = s.log /\ UNCHANGED judged

\* ifMatch, or allowOverwrite false when there was no blob.
Matches(r) == r \in fresh

\* The put lands; the answer may be lost.
Put(r) ==
  /\ Working(r, "put") /\ Matches(r) /\ ~Refuses(r)
  /\ LET q == request[r]
     IN  \/ /\ q.op = "event" /\ Apply(q.event, snapshot[r])
            /\ End(r)
         \/ /\ q.op = "checkout" /\ Link(q, snapshot[r])
            /\ \/ End(r)
               \/ \E x \in Owned(q.identity, accounts') : Open(r, x.customer)
  /\ present' = TRUE /\ fresh' = {}
  /\ UNCHANGED <<backend, receipts, sessions>>

\* A precondition failure is tried again; a first put that finds a blob is not.
PutRefused(r) ==
  /\ Working(r, "put") /\ ~Matches(r)
  /\ IF snapshot[r].present /\ attempt[r] + 1 < MaxAttempts
       THEN /\ attempt' = [attempt EXCEPT ![r] = @ + 1]
            /\ step' = [step EXCEPT ![r] = "get"]
            /\ snapshot' = [snapshot EXCEPT ![r] = NoState]
            /\ UNCHANGED <<request, found>>
       ELSE End(r)
  /\ Reading

\* Any storage call fails without an effect: the request answers with an error.
Fails(r) ==
  /\ step[r] # "idle"
  /\ End(r)
  /\ Reading

-----------------------------------------------------------------------------
Webhook(r) == \/ Deliver(r) \/ FindReceipt(r) \/ LookUp(r) \/ Record(r) \/ Batch(r)
              \/ Failed(r) \/ GiveUp(r)
Member(r) == \/ Checkout(r) \/ ReadAccount(r) \/ ReadCurrent(r) \/ ReadOwner(r)
             \/ InsertCustomer(r) \/ ReadSaved(r) \/ OpenSession(r)
Blob(r) == Get(r) \/ GetRefused(r) \/ Put(r) \/ PutRefused(r)

Next == \E r \in Request : Webhook(r) \/ Member(r) \/ Blob(r) \/ Fails(r)

Spec == Init /\ [][Next]_vars

-----------------------------------------------------------------------------
(* Properties.                                                             *)

\* An account shows the newest event that was receipted for it, of one second the most
\* restrictive, whatever the order, the repetitions and the races (docs/ACCESS_TIERS.md:70:
\* "Duplicate and stale webhook events do not overwrite newer entitlement state"), and
\* only an event ever gives it a status.
AccountIsNewest ==
  /\ \A j \in judged : \E x \in Owned(j[2], accounts) : Stale(x, j[1])
  /\ \A x \in accounts : x.status # "none" =>
       \E j \in judged : j[2] = x.identity /\ j[1].status = x.status /\ j[1].at = x.at

\* A customer and a subscription belong to one account, and so does an identity
\* (the UNIQUE columns 16-18; parseState refuses a blob state otherwise).
AccountsAreApart ==
  /\ Unique(accounts)
  /\ \A x, y \in accounts : x.identity = y.identity => x = y

\* A checkout is opened for the customer its account keeps, also when two checkouts or
\* an event link the account at once.
SessionsAreOwn ==
  \A s \in sessions : \E x \in accounts : x.identity = s[1] /\ x.customer = s[2]
=============================================================================
