------------------------------- MODULE MCBilling -------------------------------
(* Two requests at once over two accounts.  Account a has two Stripe         *)
(* customers: every attempt of its checkout has one idempotency key, but     *)
(* Stripe forgets a key, and a later attempt makes another customer.         *)
EXTENDS Billing, TLC

CONSTANTS r1, r2, a, b, c, d, s, t

Requests == {r1, r2}
Identities == {a, b}
Customers == {c, d}
Subscriptions == {s, t}
MCCustomerOf == [x \in Customers |-> a]

On(i, x, sub, status, at) ==
  [subscribes |-> TRUE, at |-> at, identity |-> i, customer |-> x, subscription |-> sub,
   status |-> status]

\* A subscription that becomes active and another one of the customer that is canceled in
\* the same second, an earlier event without an identity, one of another account over the
\* first subscription, and one that is no subscription event.
MCEvents ==
  {On(a, c, s, "active", 2), On(a, c, t, "canceled", 2), On(None, c, None, "past_due", 1),
   On(b, d, s, "active", 3),
   [On(a, c, s, "active", 1) EXCEPT !.subscribes = FALSE]}

Symmetry == Permutations(Requests)
=============================================================================
