----------------------------- MODULE BillingProofs -----------------------------
(***************************************************************************)
(* Every account shows the newest event receipted for it, accounts stay    *)
(* apart and checkouts are opened for the account's own customer, for any  *)
(* number of requests, accounts and events, in both backends.              *)
(***************************************************************************)
EXTENDS Billing, SequenceTheorems, TLAPS

Steps == {"idle", "receipt", "lookup", "failed", "relookup", "record", "account", "current",
          "owner", "insert", "saved", "session", "get", "put"}
Ask == {NoAsk} \cup [op : {"event"}, event : StripeEvent]
         \cup [op : {"checkout"}, identity : Identity, customer : Customer]
Rows == [Key -> {NotYet} \cup SUBSET Account]
State == [accounts : SUBSET Account, log : Seq(StripeEvent), present : BOOLEAN]

\* What a request may still rely on of an account it read: it only became newer.
Follows(x, y) == x.identity = y.identity /\ x.customer = y.customer /\ Stale(x, y)
Grows == \A y \in accounts : \E x \in accounts' : Follows(x, y)

Typed ==
  /\ TypeOK
  /\ found \in [Request -> Rows]
  /\ snapshot \in [Request -> State]

(***************************************************************************)
(* Which request is at which storage call, and that what it found there is *)
(* of its event and only out of date.                                      *)
(***************************************************************************)
FoundFits(r, k) ==
  \A x \in found[r][k] :
    /\ k = "identity" => x.identity = request[r].event.identity
    /\ \E y \in accounts : Follows(y, x)

AskFits(r) ==
  /\ backend = "d1" => step[r] \notin {"get", "put"}
  /\ backend = "blob" => step[r] \in {"idle", "account", "session", "get", "put"}
  /\ step[r] \in {"receipt", "lookup", "failed", "relookup", "record"} => request[r].op = "event"
  /\ step[r] \in {"account", "current", "owner", "insert", "saved", "session"}
       => request[r].op = "checkout"
  /\ step[r] \in {"get", "put"} => request[r].op # "none"
  /\ step[r] \notin {"lookup", "relookup", "failed"} => found[r] = Unread
  /\ step[r] \in {"lookup", "relookup"} =>
       \A k \in Key : found[r][k] = NotYet \/ FoundFits(r, k)
  /\ step[r] = "session" =>
       \E x \in accounts : x.identity = request[r].identity /\ x.customer = request[r].customer
  /\ step[r] = "put" /\ r \in fresh => snapshot[r] = StateNow

IInv ==
  /\ Typed
  /\ \A r \in Request : AskFits(r)
  /\ AccountIsNewest /\ AccountsAreApart /\ SessionsAreOwn

-----------------------------------------------------------------------------
(* Lemmas about the values                                                 *)

LEMMA Accounts ==
  \A x \in Account : /\ x.identity \in Identity /\ x.customer \in Customer
                     /\ x.subscription \in Subscription \cup {None}
                     /\ x.status \in Status /\ x.at \in Nat
BY DEF Account

LEMMA Events ==
  \A e \in StripeEvent : /\ e.identity \in Identity \cup {None}
                         /\ e.customer \in Customer \cup {None}
                         /\ e.subscription \in Subscription \cup {None}
                         /\ e.status \in Status /\ e.status # "none" /\ e.at \in Nat
                         /\ e.subscribes \in BOOLEAN
BY BillingAssumption DEF Event, Status

LEMMA Asks ==
  /\ \A q \in Ask : q.op \in {"none", "event", "checkout"}
  /\ \A q \in Ask : q.op = "event" => q.event \in StripeEvent
  /\ \A q \in Ask : q.op = "checkout" =>
       /\ q.identity \in Identity /\ q.customer \in Customer
       /\ \A c \in Customer : [q EXCEPT !.customer = c] \in
                                [op : {"checkout"}, identity : Identity, customer : Customer]
  /\ NoAsk \in Ask
  /\ \A e \in StripeEvent : [op |-> "event", event |-> e] \in Ask
  /\ \A i \in Identity, c \in Customer :
       [op |-> "checkout", identity |-> i, customer |-> c] \in Ask
BY DEF Ask, NoAsk

\* The newest event wins, of one second the most restrictive: a total order.
LEMMA Order ==
  ASSUME NEW x, NEW y, NEW z,
         x.at \in Nat, y.at \in Nat, z.at \in Nat,
         x.status \in Status, y.status \in Status, z.status \in Status
  PROVE  /\ Stale(x, x)
         /\ Stale(x, y) \/ Stale(y, x)
         /\ Stale(x, y) /\ Stale(y, z) => Stale(x, z)
<1>1. \A s \in Status : Precedence(s) \in 0..6
  BY DEF Status, Precedence
<1> QED BY <1>1 DEF Stale

-----------------------------------------------------------------------------
(* What an event does to the accounts                                      *)

\* A new state of an account is of a later second or more restrictive.
LEMMA EventApplied ==
  ASSUME Typed, AccountsAreApart, AccountIsNewest,
         NEW e \in StripeEvent, NEW i \in Identity, e.customer # None,
         \A x \in Owned(i, accounts) : x.customer = e.customer /\ ~Stale(x, e),
         Unique(Upserted(i, e)),
         accounts' = Upserted(i, e),
         judged' = judged \cup {<<e, i>>}
  PROVE  /\ accounts' \subseteq Account /\ judged' \subseteq StripeEvent \X Identity
         /\ Grows /\ AccountIsNewest' /\ AccountsAreApart'
<1> DEFINE m == Merged(i, e, Owned(i, accounts))
<1>1. accounts \subseteq Account /\ judged \subseteq StripeEvent \X Identity
  BY DEF Typed, TypeOK
<1>2. m \in Account /\ m.identity = i /\ m.customer = e.customer /\ m.status = e.status /\ m.at = e.at
  <2>1. Owned(i, accounts) # {} =>
          (CHOOSE x \in Owned(i, accounts) : TRUE).subscription \in Subscription \cup {None}
    BY <1>1, Accounts DEF Owned
  <2> QED BY <2>1, Events DEF Merged, Account
<1>3. accounts' = (accounts \ Owned(i, accounts)) \cup {m} BY DEF Upserted
<1>4. e.at \in Nat /\ e.status \in Status /\ e.status # "none" BY Events
<1> HIDE DEF m
<1>5. \A x \in accounts : x.at \in Nat /\ x.status \in Status BY <1>1, Accounts
<1>6. \A j \in judged : j[1].at \in Nat /\ j[1].status \in Status BY <1>1, Events
<1>7. \A z : Stale(m, z) <=> Stale(e, z) BY <1>2 DEF Stale
<1>8. Grows
  <2>1. ASSUME NEW y \in accounts PROVE \E x \in accounts' : Follows(x, y)
    <3>1. CASE y \in Owned(i, accounts)
      <4>1. Stale(m, y) BY <1>4, <1>5, <1>7, <3>1, Order
      <4> QED BY <1>2, <1>3, <3>1, <4>1 DEF Follows, Owned
    <3>2. CASE y \notin Owned(i, accounts)
      <4>1. Stale(y, y) BY <1>5, Order
      <4> QED BY <1>3, <3>2, <4>1 DEF Follows
    <3> QED BY <3>1, <3>2
  <2> QED BY <2>1 DEF Grows
<1>9. AccountIsNewest'
  <2>1. ASSUME NEW j \in judged' PROVE \E x \in Owned(j[2], accounts') : Stale(x, j[1])
    <3>1. CASE j = <<e, i>>
      <4>1. Stale(m, e) BY <1>4, <1>7, Order
      <4> QED BY <1>2, <1>3, <3>1, <4>1 DEF Owned
    <3>2. CASE j \in judged
      <4>1. PICK x \in Owned(j[2], accounts) : Stale(x, j[1])
        BY <3>2 DEF AccountIsNewest
      <4>2. x \in accounts /\ x.identity = j[2] BY <4>1 DEF Owned
      <4>3. PICK y \in accounts' : Follows(y, x) BY <1>8, <4>2 DEF Grows
      <4>4. y.at \in Nat /\ y.status \in Status BY <1>2, <1>3, <1>5, <1>4
      <4>5. Stale(y, j[1]) BY <1>5, <1>6, <3>2, <4>1, <4>2, <4>3, <4>4, Order DEF Follows
      <4> QED BY <4>2, <4>3, <4>5 DEF Follows, Owned
    <3> QED BY <3>1, <3>2
  <2>2. ASSUME NEW x \in accounts', x.status # "none"
        PROVE  \E j \in judged' : j[2] = x.identity /\ j[1].status = x.status /\ j[1].at = x.at
    <3>1. CASE x = m
      <4>1. <<e, i>> \in judged' OBVIOUS
      <4> QED BY <1>2, <3>1, <4>1
    <3>2. CASE x \in accounts BY <2>2, <3>2 DEF AccountIsNewest
    <3> QED BY <1>3, <3>1, <3>2
  <2> QED BY <2>1, <2>2 DEF AccountIsNewest
<1>10. AccountsAreApart'
  <2>1. \A x, y \in accounts' : x.identity = y.identity => x = y
    BY <1>2, <1>3 DEF AccountsAreApart, Owned
  <2> QED BY <2>1 DEF AccountsAreApart
<1> QED BY <1>1, <1>2, <1>3, <1>8, <1>9, <1>10

\* The account an event is about is the only one of its customer and its subscription.
LEMMA CurrentIsOwned ==
  ASSUME Typed, AccountsAreApart, NEW e \in StripeEvent, e.customer # None,
         ~Conflicts(e, Lookups(e, accounts)), NEW i \in Mapped(e, Lookups(e, accounts))
  PROVE  /\ i \in Identity
         /\ Current(Lookups(e, accounts)) = Owned(i, accounts)
         /\ \A x \in Owned(i, accounts) : x.customer = e.customer
         /\ Unique(Upserted(i, e))
<1> DEFINE rows == Lookups(e, accounts)
<1>1. /\ rows["identity"] = IF e.identity = None THEN {}
                            ELSE {x \in accounts : x.identity = e.identity}
      /\ rows["customer"] = {x \in accounts : x.customer = e.customer}
      /\ rows["subscription"] = IF e.subscription = None THEN {}
                                ELSE {x \in accounts : x.subscription = e.subscription}
  BY Events DEF Lookups, By, Key, Typed, TypeOK, Account, Event
<1>2. Mapped(e, rows) = {i} BY DEF Conflicts
<1>3. /\ e.identity # None => e.identity = i
      /\ \A x \in rows["customer"] \cup rows["subscription"] : x.identity = i
  BY <1>2 DEF Mapped
<1>4. accounts \subseteq Account /\ \A x, y \in accounts : x.identity = y.identity => x = y
  BY DEF Typed, TypeOK, AccountsAreApart
<1>5. i \in Identity
  BY <1>1, <1>4, Events, Accounts DEF Mapped
<1> HIDE DEF rows
<1>6. Current(rows) = Owned(i, accounts)
  <2>1. Current(rows) \subseteq Owned(i, accounts)
    BY <1>1, <1>3 DEF Current, Owned
  <2>2. ASSUME NEW y \in Owned(i, accounts) PROVE y \in Current(rows)
    <3>1. y \in accounts /\ y.identity = i BY <2>2 DEF Owned
    <3>2. CASE e.identity # None
      <4>1. y \in rows["identity"] BY <1>1, <1>3, <3>1, <3>2
      <4> QED BY <4>1 DEF Current
    <3>3. CASE e.identity = None
      <4>1. rows["identity"] = {} BY <1>1, <3>3
      <4>2. PICK z \in rows["customer"] \cup rows["subscription"] : z.identity = i
        BY <1>2, <3>3 DEF Mapped
      <4>3. \A x \in rows["customer"] \cup rows["subscription"] : x = y
        BY <1>1, <1>3, <1>4, <3>1
      <4> QED BY <4>1, <4>2, <4>3 DEF Current
    <3> QED BY <3>2, <3>3
  <2> QED BY <2>1, <2>2
<1>7. \A x \in Owned(i, accounts) : x.customer = e.customer
  BY <1>6 DEF Conflicts, rows
<1>8. Unique(Upserted(i, e))
  <2> DEFINE old == Owned(i, accounts)
             m == Merged(i, e, old)
  <2>1. m.customer = e.customer /\ m.subscription = IF e.subscription = None /\ old # {}
          THEN (CHOOSE x \in old : TRUE).subscription ELSE e.subscription
    BY DEF Merged
  <2>2. old # {} => (CHOOSE x \in old : TRUE) \in old
    OBVIOUS
  <2> HIDE DEF m
  <2>3. ASSUME NEW y \in accounts \ old
        PROVE  /\ m.customer # y.customer
               /\ m.subscription = None \/ m.subscription # y.subscription
    <3>1. y.identity # i BY <2>3 DEF Owned
    <3>2. m.customer # y.customer BY <1>1, <1>3, <2>1, <2>3, <3>1
    <3>3. CASE e.subscription # None
      BY <1>1, <1>3, <2>1, <2>3, <3>1, <3>2, <3>3
    <3>4. CASE e.subscription = None /\ old = {}
      BY <2>1, <3>2, <3>4
    <3>5. CASE e.subscription = None /\ old # {}
      <4>1. PICK x \in old : m.subscription = x.subscription BY <2>1, <2>2, <3>5
      <4>2. x \in accounts /\ x # y BY <2>3, <4>1 DEF Owned
      <4> QED BY <2>3, <3>2, <4>1, <4>2 DEF AccountsAreApart, Unique
    <3> QED BY <3>3, <3>4, <3>5
  <2>4. Upserted(i, e) = (accounts \ old) \cup {m} BY DEF Upserted, m
  <2> QED BY <2>3, <2>4 DEF Unique, AccountsAreApart
<1> QED BY <1>5, <1>6, <1>7, <1>8 DEF rows

\* A new account without a subscription, of an identity and a customer not there yet.
LEMMA AccountLinked ==
  ASSUME Typed, AccountsAreApart, AccountIsNewest,
         NEW q \in [op : {"checkout"}, identity : Identity, customer : Customer],
         Owned(q.identity, accounts) = {}, ~Taken(q.customer, accounts),
         accounts' = accounts \cup {Placeholder(q)}, judged' = judged
  PROVE  accounts' \subseteq Account /\ Grows /\ AccountIsNewest' /\ AccountsAreApart'
<1> DEFINE m == Placeholder(q)
<1>1. /\ m \in Account /\ m.identity = q.identity /\ m.customer = q.customer
      /\ m.subscription = None /\ m.status = "none"
  BY DEF Placeholder, Account, Status
<1> HIDE DEF m
<1>2. accounts \subseteq Account BY DEF Typed, TypeOK
<1>3. Grows
  <2>1. \A y \in accounts : Stale(y, y) BY <1>2, Accounts, Order
  <2> QED BY <2>1 DEF Grows, Follows
<1>4. AccountIsNewest'
  BY <1>1 DEF AccountIsNewest, Owned, m
<1>5. AccountsAreApart'
  <2>1. \A y \in accounts : y.identity # m.identity /\ y.customer # m.customer
    BY <1>1 DEF Owned, Taken
  <2> QED BY <1>1, <2>1 DEF AccountsAreApart, Unique, m
<1> QED BY <1>1, <1>2, <1>3, <1>4, <1>5 DEF m

\* Nothing about the accounts changes.
LEMMA AccountsStay ==
  ASSUME Typed, AccountsAreApart, AccountIsNewest, accounts' = accounts, judged' = judged
  PROVE  accounts' \subseteq Account /\ Grows /\ AccountIsNewest' /\ AccountsAreApart'
<1>1. \A y \in accounts : Stale(y, y) BY Accounts, Order DEF Typed, TypeOK
<1> QED
  BY <1>1 DEF Grows, Follows, AccountIsNewest, AccountsAreApart, Owned, Typed, TypeOK

\* One more event is found to be older than an account it is about.
LEMMA StaleJudged ==
  ASSUME Typed, AccountsAreApart, AccountIsNewest, accounts' = accounts,
         NEW e \in StripeEvent, NEW i \in Identity, judged' = judged \cup {<<e, i>>},
         \E x \in Owned(i, accounts) : Stale(x, e)
  PROVE  /\ accounts' \subseteq Account /\ Grows /\ AccountIsNewest' /\ AccountsAreApart'
         /\ judged' \subseteq StripeEvent \X Identity
<1>1. \A y \in accounts : Stale(y, y) BY Accounts, Order DEF Typed, TypeOK
<1>2. AccountIsNewest'
  <2>1. \A j \in judged' : \E x \in Owned(j[2], accounts') : Stale(x, j[1])
    BY DEF AccountIsNewest, Owned
  <2> QED BY <2>1 DEF AccountIsNewest
<1> QED BY <1>1, <1>2 DEF Grows, Follows, AccountsAreApart, Typed, TypeOK

-----------------------------------------------------------------------------
(* The end of a step                                                       *)

AskedTyped ==
  /\ request' \in [Request -> Ask] /\ step' \in [Request -> Steps] /\ found' \in [Request -> Rows]
  /\ snapshot' \in [Request -> State] /\ attempt' \in [Request -> 0..MaxAttempts]

Others(r) ==
  \A q \in Request \ {r} : /\ request'[q] = request[q] /\ step'[q] = step[q]
                           /\ found'[q] = found[q] /\ snapshot'[q] = snapshot[q]

LEMMA Empty ==
  /\ Unread \in Rows /\ NoState \in State /\ 0 \in 0..MaxAttempts
  /\ \A k \in Key : Unread[k] = NotYet
BY BillingAssumption DEF Unread, Rows, NoState, State

LEMMA EndStep ==
  ASSUME Typed, NEW r \in Request, End(r), backend' = backend
  PROVE  AskedTyped /\ Others(r) /\ AskFits(r)' /\ step'[r] = "idle"
<1>1. AskedTyped /\ Others(r) /\ step'[r] = "idle" /\ found'[r] = Unread
  BY Empty, Asks DEF End, AskedTyped, Others, Typed, TypeOK, Ask, Steps
<1> QED BY <1>1 DEF AskFits

LEMMA GotoStep ==
  ASSUME Typed, NEW r \in Request, NEW at \in Steps, Goto(r, at)
  PROVE  /\ AskedTyped /\ Others(r)
         /\ step'[r] = at /\ request'[r] = request[r] /\ found'[r] = found[r]
         /\ snapshot'[r] = snapshot[r]
BY DEF Goto, AskedTyped, Others, Typed, TypeOK, Ask, Steps

LEMMA OpenStep ==
  ASSUME Typed, NEW r \in Request, NEW c \in Customer, Open(r, c), backend' = backend,
         request[r].op = "checkout",
         \E x \in accounts' : x.identity = request[r].identity /\ x.customer = c
  PROVE  AskedTyped /\ Others(r) /\ AskFits(r)'
<1>1. request[r] \in Ask /\ request \in [Request -> Ask] BY DEF Typed, TypeOK, Ask
<1>2. [request[r] EXCEPT !.customer = c] \in Ask
  BY <1>1, Asks DEF Ask
<1>3. request' = [request EXCEPT ![r] = [request[r] EXCEPT !.customer = c]]
  BY DEF Open
<1>4. /\ request'[r].op = "checkout" /\ request'[r].identity = request[r].identity
      /\ request'[r].customer = c
  BY <1>1, <1>3, Asks DEF Ask
<1>5. AskedTyped /\ Others(r) /\ step'[r] = "session" /\ found'[r] = Unread
  BY <1>1, <1>2, <1>3, Empty DEF Open, AskedTyped, Others, Typed, TypeOK, Steps
<1> QED BY <1>4, <1>5 DEF AskFits

\* The other requests' findings only become older.
LEMMA OthersFit ==
  ASSUME IInv, NEW r \in Request, Others(r), backend' = backend, Grows,
         accounts' \subseteq Account,
         \/ backend = "d1"
         \/ fresh' = {}
         \/ UNCHANGED <<accounts, log, present>> /\ fresh' \subseteq fresh \cup {r},
         NEW q \in Request \ {r}
  PROVE  AskFits(q)'
<1>1. AskFits(q) BY DEF IInv
<1>2. /\ request'[q] = request[q] /\ step'[q] = step[q] /\ found'[q] = found[q]
      /\ snapshot'[q] = snapshot[q]
  BY DEF Others
<1>3. ASSUME NEW k \in Key, found[q][k] # NotYet, step[q] \in {"lookup", "relookup"}
      PROVE  FoundFits(q, k)'
  <2>1. FoundFits(q, k) /\ found[q][k] \subseteq Account
    BY <1>1, <1>3 DEF AskFits, IInv, Typed, Rows
  <2>2. ASSUME NEW x \in found[q][k] PROVE \E y \in accounts' : Follows(y, x)
    <3>1. PICK y \in accounts : Follows(y, x) BY <2>1, <2>2 DEF FoundFits
    <3>2. PICK z \in accounts' : Follows(z, y) BY <3>1 DEF Grows
    <3>3. Stale(z, x)
      BY <2>1, <2>2, <3>1, <3>2, Accounts, Order DEF Follows, IInv, Typed, TypeOK
    <3> QED BY <3>1, <3>2, <3>3 DEF Follows
  <2> QED BY <1>2, <2>1, <2>2 DEF FoundFits
<1>4. step[q] = "session" =>
        \E x \in accounts' : x.identity = request[q].identity /\ x.customer = request[q].customer
  BY <1>1 DEF AskFits, Grows, Follows
<1>5. step'[q] = "put" /\ q \in fresh' => snapshot'[q] = StateNow'
  BY <1>1, <1>2 DEF AskFits, StateNow
<1> QED BY <1>1, <1>2, <1>3, <1>4, <1>5 DEF AskFits

\* What every step has to leave behind.
LEMMA StepPreserves ==
  ASSUME IInv, NEW r \in Request, AskedTyped, Others(r), AskFits(r)', backend' = backend,
         accounts' \subseteq Account, Grows, AccountIsNewest', AccountsAreApart',
         receipts' \subseteq StripeEvent, log' \in Seq(StripeEvent), Len(log') <= MaxEvents,
         present' \in BOOLEAN, judged' \subseteq StripeEvent \X Identity,
         fresh' \subseteq Request,
         \/ backend = "d1"
         \/ fresh' = {}
         \/ UNCHANGED <<accounts, log, present>> /\ fresh' \subseteq fresh \cup {r},
         sessions' = sessions
  PROVE  IInv'
<1>1. \A q \in Request : AskFits(q)'
  <2>1. \A q \in Request \ {r} : AskFits(q)' BY OthersFit
  <2> QED BY <2>1
<1>2. Typed'
  BY DEF IInv, Typed, TypeOK, AskedTyped, Ask, Steps, Rows, State, Key
<1>3. SessionsAreOwn'
  BY DEF IInv, SessionsAreOwn, Grows, Follows
<1> QED BY <1>1, <1>2, <1>3 DEF IInv

LEMMA ReadingPreserves ==
  ASSUME IInv, NEW r \in Request, AskedTyped, Others(r), AskFits(r)', Reading
  PROVE  IInv'
<1>1. /\ backend' = backend /\ accounts' = accounts /\ receipts' = receipts /\ log' = log
      /\ present' = present /\ judged' = judged /\ fresh' = fresh /\ sessions' = sessions
  BY DEF Reading, store
<1>2. accounts' \subseteq Account /\ Grows /\ AccountIsNewest' /\ AccountsAreApart'
  BY <1>1, AccountsStay DEF IInv
<1> QED BY <1>1, <1>2, StepPreserves DEF IInv, Typed, TypeOK

-----------------------------------------------------------------------------
(* Every step preserves the invariant                                      *)

LEMMA InitIInv == ASSUME Init PROVE IInv
<1>1. Typed
  <2>1. found \in [Request -> Rows] /\ snapshot \in [Request -> State]
    BY Empty DEF Init
  <2>2. /\ log \in Seq(StripeEvent) /\ Len(log) <= MaxEvents
        /\ attempt \in [Request -> 0..MaxAttempts]
    BY BillingAssumption, Empty DEF Init
  <2>3. \A r \in Request, k \in Key : found[r][k] = NotYet
    BY Empty DEF Init
  <2>4. \A r \in Request : snapshot[r].accounts \subseteq Account
    BY DEF Init, NoState
  <2> QED BY <2>1, <2>2, <2>3, <2>4 DEF Init, Typed, TypeOK
<1>2. \A r \in Request : AskFits(r) BY DEF Init, AskFits, NoAsk
<1>3. AccountIsNewest /\ AccountsAreApart /\ SessionsAreOwn
  BY DEF Init, AccountIsNewest, AccountsAreApart, SessionsAreOwn, Unique
<1> QED BY <1>1, <1>2, <1>3 DEF IInv

LEMMA BeginPreserves ==
  ASSUME IInv, NEW r \in Request, Deliver(r) \/ Checkout(r)
  PROVE  IInv'
<1> USE DEF IInv
<1>1. ASSUME NEW q \in Ask, NEW first \in {"receipt", "get", "account"}, Begin(r, q, first),
             q.op # "none",
             first = "receipt" => backend = "d1" /\ q.op = "event",
             first = "get" => backend # "d1",
             first = "account" => q.op = "checkout"
      PROVE  IInv'
  <2>1. /\ AskedTyped /\ Others(r) /\ step'[r] = first /\ request'[r] = q
        /\ found'[r] = found[r]
    BY <1>1 DEF Begin, Working, AskedTyped, Others, Typed, TypeOK, Ask, Steps
  <2>2. found[r] = Unread BY <1>1 DEF AskFits, Begin, Working
  <2>3. backend' = backend /\ backend \in {"d1", "blob"}
    BY <1>1 DEF Begin, Reading, Typed, TypeOK
  <2>4. AskFits(r)' BY <1>1, <2>1, <2>2, <2>3 DEF AskFits
  <2> QED BY <1>1, <2>1, <2>4, ReadingPreserves DEF Begin
<1>2. CASE Deliver(r)
  <2>1. PICK e \in StripeEvent :
          Begin(r, [op |-> "event", event |-> e], IF backend = "d1" THEN "receipt" ELSE "get")
    BY <1>2 DEF Deliver
  <2>2. CASE backend = "d1" BY <1>1, <2>1, <2>2, Asks
  <2>3. CASE backend # "d1" BY <1>1, <2>1, <2>3, Asks
  <2> QED BY <2>2, <2>3
<1>3. CASE Checkout(r)
  <2>1. PICK c \in Customer :
          Begin(r, [op |-> "checkout", identity |-> CustomerOf[c], customer |-> c], "account")
    BY <1>3 DEF Checkout
  <2>2. CustomerOf[c] \in Identity BY BillingAssumption
  <2> QED BY <1>1, <2>1, <2>2, Asks
<1> QED BY <1>2, <1>3

LEMMA EndsPreserve ==
  ASSUME IInv, NEW r \in Request, End(r), Reading
  PROVE  IInv'
<1>1. backend' = backend BY DEF Reading
<1> QED BY <1>1, EndStep, ReadingPreserves DEF IInv

\* A step that goes on to the next storage call.
LEMMA GoesPreserve ==
  ASSUME IInv, NEW r \in Request, NEW at \in Steps, Goto(r, at), Reading,
         step[r] # "idle", step[r] \notin {"lookup", "relookup", "failed"},
         at \notin {"session", "put"},
         backend = "d1" => at # "get",
         backend = "blob" => at = "get",
         at \in {"receipt", "lookup", "failed", "relookup", "record"} => request[r].op = "event",
         at \in {"account", "current", "owner", "insert", "saved"} => request[r].op = "checkout",
         at = "get" => request[r].op # "none"
  PROVE  IInv'
<1> USE DEF IInv
<1>1. /\ AskedTyped /\ Others(r)
      /\ step'[r] = at /\ request'[r] = request[r] /\ found'[r] = found[r]
      /\ snapshot'[r] = snapshot[r]
  BY GotoStep
<1>2. found[r] = Unread BY DEF AskFits
<1>3. backend' = backend BY DEF Reading
<1>4. AskFits(r)' BY <1>1, <1>2, <1>3, Empty DEF AskFits
<1> QED BY <1>1, <1>4, ReadingPreserves

LEMMA OpensPreserve ==
  ASSUME IInv, NEW r \in Request, NEW x \in Mine(r), Open(r, x.customer), Reading,
         request[r].op = "checkout"
  PROVE  IInv'
<1>1. /\ accounts' = accounts /\ backend' = backend
      /\ x \in accounts /\ x.identity = request[r].identity /\ accounts \subseteq Account
  BY DEF Reading, store, Mine, Owned, IInv, Typed, TypeOK
<1>2. x.customer \in Customer BY <1>1, Accounts
<1> QED BY <1>1, <1>2, OpenStep, ReadingPreserves DEF IInv

LEMMA LookupsPreserve ==
  ASSUME IInv, NEW r \in Request, FindReceipt(r) \/ LookUp(r) \/ Failed(r) \/ GiveUp(r)
  PROVE  IInv'
<1> USE DEF IInv
<1>0. backend \in {"d1", "blob"} /\ step[r] \in Steps /\ backend' = backend
  BY DEF Typed, TypeOK, Steps, Reading, FindReceipt, LookUp, Failed, GiveUp
<1>1. CASE FindReceipt(r)
  <2>1. request[r].op = "event" /\ backend = "d1"
    BY <1>0, <1>1 DEF AskFits, FindReceipt, Working
  <2>2. CASE request[r].event \in receipts
    BY <1>1, <2>2, EndsPreserve DEF FindReceipt
  <2>3. CASE request[r].event \notin receipts
    <3> DEFINE at == IF request[r].event.subscribes THEN "lookup" ELSE "record"
    <3>1. Goto(r, at) /\ Reading /\ step[r] = "receipt"
      BY <1>1, <2>3 DEF FindReceipt, Working
    <3>2. at \in {"lookup", "record"} OBVIOUS
    <3> HIDE DEF at
    <3> QED BY <2>1, <3>1, <3>2, GoesPreserve DEF Steps
  <2> QED BY <2>2, <2>3
<1>2. CASE LookUp(r)
  <2>1. PICK k \in Key :
          /\ found[r][k] = NotYet
          /\ found' = [found EXCEPT ![r][k] = By(k, request[r].event, accounts)]
    BY <1>2 DEF LookUp
  <2>2. /\ step[r] \in {"lookup", "relookup"} /\ request' = request /\ step' = step
        /\ snapshot' = snapshot /\ attempt' = attempt /\ accounts' = accounts
        /\ accounts \subseteq Account /\ found \in [Request -> Rows]
    BY <1>2 DEF LookUp, Reading, store, Typed, TypeOK
  <2>3. By(k, request[r].event, accounts) \subseteq accounts
    BY DEF By
  <2>4. [found[r] EXCEPT ![k] = By(k, request[r].event, accounts)] \in Rows
    BY <2>2, <2>3 DEF Rows
  <2>5. AskedTyped /\ Others(r)
    BY <2>1, <2>2, <2>4 DEF AskedTyped, Others, Typed, TypeOK, Ask, Steps
  <2>6. \A x \in By(k, request[r].event, accounts) :
          k = "identity" => x.identity = request[r].event.identity
    BY DEF By
  <2>7. \A x \in accounts : Follows(x, x)
    BY <2>2, Accounts, Order DEF Follows
  <2>8. ASSUME NEW l \in Key PROVE found'[r][l] = NotYet \/ FoundFits(r, l)'
    <3>1. CASE l = k
      <4>1. found'[r][l] = By(k, request[r].event, accounts)
        BY <2>1, <2>2, <3>1 DEF Rows
      <4> QED BY <2>2, <2>3, <2>6, <2>7, <3>1, <4>1 DEF FoundFits
    <3>2. CASE l # k
      <4>1. found'[r][l] = found[r][l] BY <2>1, <2>2, <3>2 DEF Rows
      <4>2. found[r][l] = NotYet \/ FoundFits(r, l) BY <2>2 DEF AskFits
      <4> QED BY <2>2, <4>1, <4>2 DEF FoundFits
    <3> QED BY <3>1, <3>2
  <2>9. AskFits(r)' BY <1>0, <2>2, <2>8 DEF AskFits
  <2> QED BY <1>2, <2>5, <2>9, ReadingPreserves DEF LookUp
<1>3. CASE Failed(r)
  <2>1. step[r] = "failed" /\ request[r].op = "event" /\ backend = "d1"
    BY <1>0, <1>3 DEF AskFits, Failed, Working
  <2>2. CASE request[r].event \in receipts
    BY <1>3, <2>2, EndsPreserve DEF Failed
  <2>3. CASE request[r].event \notin receipts
    <3>1. /\ AskedTyped /\ Others(r) /\ step'[r] = "relookup" /\ request'[r] = request[r]
          /\ found'[r] = Unread
      BY <1>3, <2>3, Empty DEF Failed, AskedTyped, Others, Typed, TypeOK, Ask, Steps
    <3>2. AskFits(r)' BY <1>0, <2>1, <3>1, Empty DEF AskFits
    <3> QED BY <1>3, <3>1, <3>2, ReadingPreserves DEF Failed
  <2> QED BY <2>2, <2>3
<1>4. CASE GiveUp(r) BY <1>4, EndsPreserve DEF GiveUp
<1> QED BY <1>1, <1>2, <1>3, <1>4

LEMMA CheckoutReadsPreserve ==
  ASSUME IInv, NEW r \in Request,
         ReadAccount(r) \/ ReadCurrent(r) \/ ReadOwner(r) \/ ReadSaved(r)
  PROVE  IInv'
<1> USE DEF IInv
<1>0. request[r].op = "checkout" /\ backend \in {"d1", "blob"} /\ Reading
  BY DEF AskFits, Typed, TypeOK, ReadAccount, ReadCurrent, ReadOwner, ReadSaved, Working
<1>1. CASE ReadAccount(r)
  <2>1. CASE \E x \in Mine(r) : Open(r, x.customer) BY <1>0, <2>1, OpensPreserve
  <2>2. CASE End(r) BY <1>0, <2>2, EndsPreserve
  <2>3. CASE Goto(r, IF backend = "d1" THEN "current" ELSE "get")
    BY <1>0, <1>1, <2>3, GoesPreserve DEF ReadAccount, Working, Steps
  <2> QED BY <1>1, <2>1, <2>2, <2>3 DEF ReadAccount
<1>2. CASE ReadCurrent(r)
  <2>0. step[r] = "current" /\ backend = "d1"
    BY <1>0, <1>2 DEF ReadCurrent, Working, AskFits
  <2>1. CASE \E x \in Mine(r) : Open(r, x.customer) BY <1>0, <2>1, OpensPreserve
  <2>2. CASE Goto(r, "owner") BY <1>0, <2>0, <2>2, GoesPreserve DEF Steps
  <2> QED BY <1>2, <2>1, <2>2 DEF ReadCurrent
<1>3. CASE ReadOwner(r)
  <2>0. step[r] = "owner" /\ backend = "d1"
    BY <1>0, <1>3 DEF ReadOwner, Working, AskFits
  <2>1. CASE End(r) BY <1>0, <2>1, EndsPreserve
  <2>2. CASE Goto(r, "insert") BY <1>0, <2>0, <2>2, GoesPreserve DEF Steps
  <2> QED BY <1>3, <2>1, <2>2 DEF ReadOwner
<1>4. CASE ReadSaved(r)
  <2>1. CASE \E c \in SavedCustomer(r) : Open(r, c)
    <3>1. PICK x \in Mine(r) : Open(r, x.customer) BY <2>1 DEF SavedCustomer
    <3> QED BY <1>0, <3>1, OpensPreserve
  <2>2. CASE End(r) BY <1>0, <2>2, EndsPreserve
  <2> QED BY <1>4, <2>1, <2>2 DEF ReadSaved
<1> QED BY <1>1, <1>2, <1>3, <1>4

\* A receipt without a change of the accounts.
LEMMA RecordPreserves == ASSUME IInv, NEW r \in Request, Record(r) PROVE IInv'
<1> USE DEF IInv
<1> DEFINE e == request[r].event
<1>0. /\ step[r] \in {"record", "lookup", "relookup"} /\ request[r].op = "event"
      /\ backend \in {"d1", "blob"} /\ request[r] \in Ask
  BY DEF Record, Working, AskFits, Typed, TypeOK, Ask
<1>1. e \in StripeEvent /\ backend = "d1" BY <1>0, Asks DEF AskFits
<1>2. /\ End(r) /\ backend' = backend /\ accounts' = accounts /\ log' = log
      /\ present' = present /\ fresh' = fresh /\ sessions' = sessions
      /\ receipts' = receipts \cup {e}
  BY DEF Record
<1>3. AskedTyped /\ Others(r) /\ AskFits(r)' BY <1>2, EndStep
<1>4. /\ accounts' \subseteq Account /\ Grows /\ AccountIsNewest' /\ AccountsAreApart'
      /\ judged' \subseteq StripeEvent \X Identity
  <2>1. CASE judged' = judged
    BY <1>2, <2>1, AccountsStay DEF Typed, TypeOK
  <2>2. CASE judged' # judged
    <3>1. /\ step[r] = "lookup" /\ LookedUp(r) /\ Judgement(e, found[r]) = "stale"
          /\ judged' = judged \cup {<<e, i>> : i \in Mapped(e, found[r])}
      BY <2>2 DEF Record, Working
    <3>2. /\ e.customer # None /\ Mapped(e, found[r]) # {} /\ ~Conflicts(e, found[r])
          /\ \E x \in Current(found[r]) : Stale(x, e)
      BY <3>1 DEF Judgement
    <3>3. PICK i : Mapped(e, found[r]) = {i} BY <3>2 DEF Conflicts
    <3>4. \A k \in Key : FoundFits(r, k) /\ found[r][k] \subseteq Account
      BY <3>1 DEF LookedUp, AskFits, Typed, Rows
    <3>5. PICK x \in Current(found[r]) : Stale(x, e) BY <3>2
    <3>6. PICK k \in Key : x \in found[r][k] BY DEF Current, Key
    <3>7. x.identity = i
      <4>1. CASE k = "identity"
        <5>1. x.identity = e.identity BY <3>4, <3>6, <4>1 DEF FoundFits
        <5>2. e.identity # None
          BY <3>4, <3>6, <5>1, Accounts, BillingAssumption
        <5> QED BY <3>3, <5>1, <5>2 DEF Mapped
      <4>2. CASE k # "identity" BY <3>3, <3>6, <4>2 DEF Mapped, Key
      <4> QED BY <4>1, <4>2
    <3>8. PICK y \in accounts : Follows(y, x) BY <3>4, <3>6 DEF FoundFits
    <3>9. x \in Account /\ y \in Account BY <3>4, <3>6, <3>8 DEF Typed, TypeOK
    <3>10. Stale(y, e) BY <1>1, <3>5, <3>8, <3>9, Accounts, Events, Order DEF Follows
    <3>11. i \in Identity /\ y \in Owned(i, accounts)
      BY <3>7, <3>8, <3>9, Accounts DEF Follows, Owned
    <3>12. judged' = judged \cup {<<e, i>>} BY <3>1, <3>3
    <3> HIDE DEF e
    <3> QED BY <1>1, <1>2, <3>10, <3>11, <3>12, StaleJudged
  <2> QED BY <2>1, <2>2
<1> QED BY <1>1, <1>2, <1>3, <1>4, StepPreserves DEF Typed, TypeOK

\* The batch decides again by what it meets, so only a newer event changes an account.
LEMMA BatchPreserves == ASSUME IInv, NEW r \in Request, Batch(r) PROVE IInv'
<1> USE DEF IInv
<1> DEFINE e == request[r].event
<1>0. /\ step[r] = "lookup" /\ request[r].op = "event" /\ LookedUp(r)
      /\ Judgement(e, found[r]) = "processed"
      /\ backend \in {"d1", "blob"} /\ request[r] \in Ask
  BY DEF Batch, Working, AskFits, Typed, TypeOK, Ask
<1>1. e \in StripeEvent /\ backend = "d1" BY <1>0, Asks DEF AskFits
<1>2. PICK i \in Mapped(e, found[r]) :
        IF e \in receipts \/ (Upserts(i, e) /\ ~Unique(Upserted(i, e)))
          THEN Goto(r, "failed") /\ UNCHANGED <<accounts, receipts, judged>>
          ELSE /\ receipts' = receipts \cup {e}
               /\ accounts' = IF Upserts(i, e) THEN Upserted(i, e) ELSE accounts
               /\ judged' = IF \E x \in Owned(i, accounts) : x.customer # e.customer
                              THEN judged ELSE judged \cup {<<e, i>>}
               /\ End(r)
  BY DEF Batch
<1>3. /\ backend' = backend /\ log' = log /\ present' = present /\ fresh' = fresh
      /\ sessions' = sessions
  BY DEF Batch
<1>4. CASE e \in receipts \/ (Upserts(i, e) /\ ~Unique(Upserted(i, e)))
  <2>1. Goto(r, "failed") /\ UNCHANGED <<accounts, receipts, judged>> BY <1>2, <1>4
  <2>2. AskedTyped /\ Others(r) /\ step'[r] = "failed" /\ request'[r] = request[r]
    BY <2>1, GotoStep DEF Steps
  <2>3. AskFits(r)' BY <1>0, <1>1, <1>3, <2>2 DEF AskFits
  <2>4. Reading BY <1>3, <2>1 DEF Reading, store
  <2> QED BY <2>2, <2>3, <2>4, ReadingPreserves
<1>5. CASE ~(e \in receipts \/ (Upserts(i, e) /\ ~Unique(Upserted(i, e))))
  <2>1. AskedTyped /\ Others(r) /\ AskFits(r)' BY <1>2, <1>3, <1>5, EndStep
  <2>2. i \in Identity
    <3>1. \A k \in Key : found[r][k] \subseteq Account BY <1>0 DEF LookedUp, Typed, Rows
    <3> QED BY <1>1, <3>1, Accounts, Events DEF Mapped, Key
  <2>3. e.customer # None BY <1>0 DEF Judgement
  <2>4. /\ accounts' \subseteq Account /\ Grows /\ AccountIsNewest' /\ AccountsAreApart'
        /\ judged' \subseteq StripeEvent \X Identity
    <3>1. CASE Upserts(i, e)
      <4>1. \A x \in Owned(i, accounts) : x.customer = e.customer /\ ~Stale(x, e)
        BY <3>1 DEF Upserts
      <4>2. accounts' = Upserted(i, e) /\ judged' = judged \cup {<<e, i>>}
        BY <1>2, <1>5, <3>1, <4>1
      <4> HIDE DEF e
      <4> QED BY <1>1, <1>5, <2>2, <2>3, <3>1, <4>1, <4>2, EventApplied
    <3>2. CASE ~Upserts(i, e) /\ \E x \in Owned(i, accounts) : x.customer # e.customer
      <4>1. accounts' = accounts /\ judged' = judged BY <1>2, <1>5, <3>2
      <4> QED BY <4>1, AccountsStay DEF Typed, TypeOK
    <3>3. CASE ~Upserts(i, e) /\ \A x \in Owned(i, accounts) : x.customer = e.customer
      <4>1. accounts' = accounts /\ judged' = judged \cup {<<e, i>>} BY <1>2, <1>5, <3>3
      <4>2. \E x \in Owned(i, accounts) : Stale(x, e) BY <3>3 DEF Upserts
      <4> HIDE DEF e
      <4> QED BY <1>1, <2>2, <4>1, <4>2, StaleJudged
    <3> QED BY <3>1, <3>2, <3>3
  <2>5. receipts' \subseteq StripeEvent BY <1>1, <1>2, <1>5 DEF Typed, TypeOK
  <2> QED BY <1>1, <1>3, <2>1, <2>4, <2>5, StepPreserves DEF Typed, TypeOK
<1> QED BY <1>4, <1>5

\* The customer of a first checkout is linked once.
LEMMA InsertPreserves == ASSUME IInv, NEW r \in Request, InsertCustomer(r) PROVE IInv'
<1> USE DEF IInv
<1>0. /\ step[r] = "insert" /\ request[r].op = "checkout" /\ backend \in {"d1", "blob"}
      /\ request[r] \in Ask /\ found[r] = Unread
  BY DEF InsertCustomer, Working, AskFits, Typed, TypeOK, Ask
<1>1. /\ backend = "d1" /\ Goto(r, "saved") /\ backend' = backend /\ receipts' = receipts
      /\ log' = log /\ present' = present /\ fresh' = fresh /\ judged' = judged
      /\ sessions' = sessions
  BY <1>0 DEF InsertCustomer, AskFits
<1>2. AskedTyped /\ Others(r) /\ AskFits(r)'
  <2>1. /\ AskedTyped /\ Others(r) /\ step'[r] = "saved" /\ request'[r] = request[r]
        /\ found'[r] = found[r]
    BY <1>1, GotoStep DEF Steps
  <2> QED BY <1>0, <1>1, <2>1 DEF AskFits
<1>3. accounts' \subseteq Account /\ Grows /\ AccountIsNewest' /\ AccountsAreApart'
  <2>1. CASE Mine(r) # {} \/ Taken(request[r].customer, accounts)
    BY <1>1, <2>1, AccountsStay DEF InsertCustomer
  <2>2. CASE ~(Mine(r) # {} \/ Taken(request[r].customer, accounts))
    <3>1. request[r] \in [op : {"checkout"}, identity : Identity, customer : Customer]
      BY <1>0 DEF Ask, NoAsk
    <3> QED BY <1>1, <2>2, <3>1, AccountLinked DEF InsertCustomer, Mine
  <2> QED BY <2>1, <2>2
<1> QED BY <1>1, <1>2, <1>3, StepPreserves DEF Typed, TypeOK

\* A session is opened for the customer found in the account.
LEMMA OpenSessionPreserves == ASSUME IInv, NEW r \in Request, OpenSession(r) PROVE IInv'
<1> USE DEF IInv
<1>0. /\ step[r] = "session" /\ request[r].op = "checkout" /\ request[r] \in Ask
      /\ End(r) /\ UNCHANGED <<backend, store>>
      /\ sessions' \in {sessions, sessions \cup {<<request[r].identity, request[r].customer>>}}
  BY DEF OpenSession, Working, AskFits, Typed, TypeOK, Ask
<1>1. AskedTyped /\ Others(r) /\ AskFits(r)' BY <1>0, EndStep
<1>2. /\ accounts' \subseteq Account /\ Grows /\ AccountIsNewest' /\ AccountsAreApart'
  BY <1>0, AccountsStay DEF store
<1>3. \A q \in Request : AskFits(q)'
  <2>1. \A q \in Request \ {r} : AskFits(q)'
    BY <1>0, <1>1, <1>2, OthersFit DEF store
  <2> QED BY <1>1, <2>1
<1>4. SessionsAreOwn'
  <2>1. \E x \in accounts : x.identity = request[r].identity /\ x.customer = request[r].customer
    BY <1>0 DEF AskFits
  <2> QED BY <1>0, <2>1 DEF SessionsAreOwn, store
<1>5. Typed'
  <2>1. request[r].identity \in Identity /\ request[r].customer \in Customer
    BY <1>0, Asks
  <2>2. sessions' \subseteq Identity \X Customer BY <1>0, <2>1 DEF Typed, TypeOK
  <2> QED BY <1>0, <1>1, <2>2 DEF Typed, TypeOK, AskedTyped, Ask, Steps, Rows, State, Key, store
<1> QED BY <1>2, <1>3, <1>4, <1>5

\* MAX_EVENTS bounds the receipts kept.
LEMMA TrimmedFits ==
  ASSUME NEW events \in Seq(StripeEvent)
  PROVE  Trimmed(events) \in Seq(StripeEvent) /\ Len(Trimmed(events)) <= MaxEvents
<1>1. Len(events) \in Nat /\ MaxEvents \in Nat \ {0} BY BillingAssumption
<1>2. CASE Len(events) <= MaxEvents BY <1>1, <1>2 DEF Trimmed
<1>3. CASE Len(events) > MaxEvents
  <2> DEFINE first == Len(events) - MaxEvents + 1
  <2>1. first \in 1..Len(events) BY <1>1, <1>3
  <2>2. Len(events) - first + 1 = MaxEvents BY <1>1
  <2>3. \A n \in first..Len(events) : events[n] \in StripeEvent BY <2>1
  <2>4. /\ SubSeq(events, first, Len(events)) \in Seq(StripeEvent)
        /\ Len(SubSeq(events, first, Len(events))) = MaxEvents
    <3> HIDE DEF first
    <3> QED BY <1>1, <2>1, <2>2, <2>3, SubSeqProperties
  <2> QED BY <1>1, <1>3, <2>4 DEF Trimmed
<1> QED BY <1>1, <1>2, <1>3

\* What the blob store's state becomes is computed from the newest state.
LEMMA PutPreserves == ASSUME IInv, NEW r \in Request, Put(r) PROVE IInv'
<1> USE DEF IInv
<1> DEFINE q == request[r]
<1>0. /\ step[r] = "put" /\ r \in fresh /\ ~Refuses(r) /\ q \in Ask /\ q.op # "none"
      /\ backend' = backend /\ receipts' = receipts /\ sessions' = sessions
      /\ present' = TRUE /\ fresh' = {}
  BY DEF Put, Working, Matches, AskFits, Typed, TypeOK, Ask
<1>1. snapshot[r].accounts = accounts /\ snapshot[r].log = log
  BY <1>0 DEF AskFits, StateNow
<1>2. CASE q.op = "event" /\ Apply(q.event, snapshot[r]) /\ End(r)
  <2> DEFINE e == q.event
             rows == Lookups(e, accounts)
             i == CHOOSE i \in Mapped(e, rows) : TRUE
  <2>1. e \in StripeEvent BY <1>0, <1>2, Asks
  <2>2. AskedTyped /\ Others(r) /\ AskFits(r)' BY <1>0, <1>2, EndStep
  <2>3. log' \in Seq(StripeEvent) /\ Len(log') <= MaxEvents
    <3>0. log \in Seq(StripeEvent) /\ Len(log) <= MaxEvents /\ MaxEvents \in Nat \ {0}
      BY BillingAssumption DEF Typed, TypeOK
    <3>1. log' = IF Logged(e, log) THEN log ELSE Trimmed(Append(log, e))
      BY <1>1, <1>2 DEF Apply
    <3>2. Append(log, e) \in Seq(StripeEvent)
      BY <2>1, <3>0
    <3>3. Trimmed(Append(log, e)) \in Seq(StripeEvent) /\ Len(Trimmed(Append(log, e))) <= MaxEvents
      BY <3>2, TrimmedFits
    <3> QED BY <3>0, <3>1, <3>3
  <2>4. /\ accounts' \subseteq Account /\ Grows /\ AccountIsNewest' /\ AccountsAreApart'
        /\ judged' \subseteq StripeEvent \X Identity
    <3>1. /\ IF ~Logged(e, log) /\ Judgement(e, rows) = "processed"
               THEN accounts' = (accounts \ Current(rows)) \cup {Merged(i, e, Current(rows))}
               ELSE accounts' = accounts
          /\ judged' = IF Logged(e, log) \/ Judgement(e, rows) = "ignored"
                         THEN judged ELSE judged \cup {<<e, i>>}
      BY <1>1, <1>2 DEF Apply
    <3> HIDE DEF e, i, rows
    <3>2. CASE Logged(e, log) \/ Judgement(e, rows) = "ignored"
      <4>1. accounts' = accounts /\ judged' = judged BY <3>1, <3>2
      <4> QED BY <4>1, AccountsStay DEF Typed, TypeOK
    <3>3. CASE ~(Logged(e, log) \/ Judgement(e, rows) = "ignored")
      <4>1. /\ e.customer # None /\ Mapped(e, rows) # {} /\ ~Conflicts(e, rows)
            /\ Judgement(e, rows) = IF \E x \in Current(rows) : Stale(x, e)
                                      THEN "stale" ELSE "processed"
        BY <3>3 DEF Judgement
      <4>2. i \in Mapped(e, rows) BY <4>1 DEF i
      <4>3. /\ i \in Identity /\ Current(rows) = Owned(i, accounts)
            /\ \A x \in Owned(i, accounts) : x.customer = e.customer
            /\ Unique(Upserted(i, e))
        BY <2>1, <4>1, <4>2, CurrentIsOwned DEF rows
      <4>4. CASE \E x \in Current(rows) : Stale(x, e)
        <5>1. accounts' = accounts /\ judged' = judged \cup {<<e, i>>}
          BY <3>1, <3>3, <4>1, <4>4
        <5> QED BY <2>1, <4>3, <4>4, <5>1, StaleJudged
      <4>5. CASE ~\E x \in Current(rows) : Stale(x, e)
        <5>1. accounts' = Upserted(i, e) /\ judged' = judged \cup {<<e, i>>}
          BY <3>1, <3>3, <4>1, <4>3, <4>5 DEF Upserted
        <5>2. \A x \in Owned(i, accounts) : x.customer = e.customer /\ ~Stale(x, e)
          BY <4>3, <4>5
        <5> QED BY <2>1, <4>1, <4>3, <5>1, <5>2, EventApplied
      <4> QED BY <4>4, <4>5
    <3> QED BY <3>2, <3>3
  <2> QED BY <1>0, <2>2, <2>3, <2>4, StepPreserves DEF Typed, TypeOK
<1>3. CASE /\ q.op = "checkout" /\ Link(q, snapshot[r])
           /\ \/ End(r)
              \/ \E x \in Owned(q.identity, accounts') : Open(r, x.customer)
  <2>1. /\ accounts' = IF Owned(q.identity, accounts) # {} THEN accounts
                       ELSE accounts \cup {Placeholder(q)}
        /\ log' = log /\ judged' = judged
    BY <1>1, <1>3 DEF Link
  <2>2. accounts' \subseteq Account /\ Grows /\ AccountIsNewest' /\ AccountsAreApart'
    <3>1. CASE Owned(q.identity, accounts) # {} BY <2>1, <3>1, AccountsStay
    <3>2. CASE Owned(q.identity, accounts) = {}
      <4>1. ~Taken(q.customer, accounts) BY <1>0, <1>1, <1>3, <3>2 DEF Refuses
      <4>2. q \in [op : {"checkout"}, identity : Identity, customer : Customer]
        BY <1>0, <1>3 DEF Ask, NoAsk
      <4> HIDE DEF q
      <4> QED BY <2>1, <3>2, <4>1, <4>2, AccountLinked
    <3> QED BY <3>1, <3>2
  <2>3. AskedTyped /\ Others(r) /\ AskFits(r)'
    <3>1. CASE End(r) BY <1>0, <3>1, EndStep
    <3>2. CASE \E x \in Owned(q.identity, accounts') : Open(r, x.customer)
      <4>1. PICK x \in Owned(q.identity, accounts') : Open(r, x.customer) BY <3>2
      <4>2. x \in accounts' /\ x.identity = q.identity BY <4>1 DEF Owned
      <4>3. x.customer \in Customer BY <2>2, <4>2, Accounts
      <4> QED BY <1>0, <1>3, <4>1, <4>2, <4>3, OpenStep
    <3> QED BY <1>3, <3>1, <3>2
  <2> QED BY <1>0, <2>1, <2>2, <2>3, StepPreserves DEF Typed, TypeOK
<1> QED BY <1>2, <1>3 DEF Put

LEMMA BlobReadsPreserve ==
  ASSUME IInv, NEW r \in Request, Get(r) \/ GetRefused(r) \/ PutRefused(r) \/ Fails(r)
  PROVE  IInv'
<1> USE DEF IInv
<1>1. CASE Get(r)
  <2>1. /\ step[r] = "get" /\ request[r].op # "none" /\ found[r] = Unread /\ backend # "d1"
    BY <1>1 DEF Get, Working, AskFits
  <2>2. StateNow \in State BY DEF StateNow, State, Typed, TypeOK
  <2>3. /\ AskedTyped /\ Others(r) /\ step'[r] = "put" /\ request'[r] = request[r]
        /\ found'[r] = found[r] /\ snapshot'[r] = StateNow
    BY <1>1, <2>2 DEF Get, AskedTyped, Others, Typed, TypeOK, Ask, Steps
  <2>4. /\ UNCHANGED <<backend, accounts, receipts, log, present, judged, sessions>>
        /\ fresh' = fresh \cup {r}
    BY <1>1 DEF Get
  <2>5. AskFits(r)' BY <2>1, <2>3, <2>4 DEF AskFits, StateNow
  <2>6. accounts' \subseteq Account /\ Grows /\ AccountIsNewest' /\ AccountsAreApart'
    BY <2>4, AccountsStay
  <2> QED BY <2>3, <2>4, <2>5, <2>6, StepPreserves DEF Typed, TypeOK
<1>2. CASE GetRefused(r) BY <1>2, EndsPreserve DEF GetRefused
<1>3. CASE PutRefused(r)
  <2>1. CASE End(r) BY <1>3, <2>1, EndsPreserve DEF PutRefused
  <2>2. CASE /\ attempt[r] + 1 < MaxAttempts
             /\ attempt' = [attempt EXCEPT ![r] = @ + 1]
             /\ step' = [step EXCEPT ![r] = "get"]
             /\ snapshot' = [snapshot EXCEPT ![r] = NoState]
             /\ UNCHANGED <<request, found>>
    <3>1. /\ step[r] = "put" /\ request[r].op # "none" /\ found[r] = Unread /\ backend # "d1"
      BY <1>3 DEF PutRefused, Working, AskFits
    <3>2. attempt[r] + 1 \in 0..MaxAttempts
      <4>1. attempt[r] \in 0..MaxAttempts BY DEF Typed, TypeOK
      <4> QED BY <2>2, <4>1, BillingAssumption
    <3>3. /\ AskedTyped /\ Others(r) /\ step'[r] = "get" /\ request'[r] = request[r]
          /\ found'[r] = found[r]
      BY <2>2, <3>2, Empty DEF AskedTyped, Others, Typed, TypeOK, Ask, Steps
    <3>4. AskFits(r)' BY <1>3, <3>1, <3>3 DEF AskFits, PutRefused, Reading
    <3> QED BY <1>3, <3>3, <3>4, ReadingPreserves DEF PutRefused
  <2> QED BY <1>3, <2>1, <2>2 DEF PutRefused
<1>4. CASE Fails(r) BY <1>4, EndsPreserve DEF Fails
<1> QED BY <1>1, <1>2, <1>3, <1>4

LEMMA NextPreserves == ASSUME IInv, Next PROVE IInv'
BY BeginPreserves, LookupsPreserve, CheckoutReadsPreserve, RecordPreserves, BatchPreserves,
   InsertPreserves, OpenSessionPreserves, PutPreserves, BlobReadsPreserve
DEF Next, Webhook, Member, Blob

LEMMA StutterPreserves == ASSUME IInv, UNCHANGED vars PROVE IInv'
<1> USE DEF IInv, vars, store, asked
<1>1. Typed' BY DEF Typed, TypeOK
<1>2. \A r \in Request : AskFits(r)' BY DEF AskFits, FoundFits, Follows, StateNow
<1>3. AccountIsNewest' /\ AccountsAreApart' /\ SessionsAreOwn'
  BY DEF AccountIsNewest, AccountsAreApart, SessionsAreOwn, Owned
<1> QED BY <1>1, <1>2, <1>3

LEMMA Invariance == Spec => []IInv
<1>1. IInv /\ [Next]_vars => IInv' BY NextPreserves, StutterPreserves
<1> QED BY InitIInv, <1>1, PTL DEF Spec

-----------------------------------------------------------------------------
(* The theorems                                                            *)

\* The accounts, receipts and requests keep their types, and the receipts of the blob
\* state stay within MAX_EVENTS.
THEOREM TypeCorrect == Spec => []TypeOK
<1>1. IInv => TypeOK BY DEF IInv, Typed
<1> QED BY Invariance, <1>1, PTL

\* Every account shows the newest event receipted for it, whatever the order, the
\* repetitions and the races of the deliveries (staleSubscriptionEvent, the upsert's WHERE).
THEOREM AccountsStayNewest == Spec => []AccountIsNewest
<1>1. IInv => AccountIsNewest BY DEF IInv
<1> QED BY Invariance, <1>1, PTL

\* A customer, a subscription and an identity belong to one account (resolveEventMapping,
\* saveBillingCustomer and the UNIQUE columns).
THEOREM AccountsStayApart == Spec => []AccountsAreApart
<1>1. IInv => AccountsAreApart BY DEF IInv
<1> QED BY Invariance, <1>1, PTL

\* A checkout is opened for the customer its account keeps (createProCheckout).
THEOREM SessionsStayOwn == Spec => []SessionsAreOwn
<1>1. IInv => SessionsAreOwn BY DEF IInv
<1> QED BY Invariance, <1>1, PTL
================================================================================
