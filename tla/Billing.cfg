SPECIFICATION Spec
CONSTANTS
  r1 = r1
  r2 = r2
  a = a
  b = b
  c = c
  d = d
  s = s
  t = t
  None = None
  Request <- Requests
  Identity <- Identities
  Customer <- Customers
  Subscription <- Subscriptions
  StripeEvent <- MCEvents
  CustomerOf <- MCCustomerOf
  MaxEvents = 1
  MaxAttempts = 2
SYMMETRY Symmetry
INVARIANTS AccountIsNewest AccountsAreApart SessionsAreOwn
