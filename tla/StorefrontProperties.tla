------------------------ MODULE StorefrontProperties ------------------------
(* What a customer may rely on, whatever the answers and their delays.     *)
EXTENDS Storefront

Pages == {"sent", "denied", "refreshing", "done", "refused", "failed", "gone"}

Token == [account : Accounts \cup {None}, iat : 0..MaxTime]

\* A bag: lines for different products, none above what the page was told.
IsBag(lines) ==
  /\ lines \in Seq([prodId : Products, quantity : Nat \ {0}])
  /\ \A i \in DOMAIN lines : lines[i].quantity <= Shelf[lines[i].prodId]
  /\ \A i, j \in DOMAIN lines : lines[i].prodId = lines[j].prodId => i = j

IsCall(call) ==
  /\ call \in [kind : {"login", "order"}, tab : Tabs,
               account : Accounts \cup {None},
               items : Seq([prodId : Products, quantity : Nat \ {0}]),
               header : Token, page : Pages,
               job : {"none", "working", "created", "ended"},
               via : Accounts \cup {None}, retried : BOOLEAN]
  /\ call.job # "none" => call.kind = "order"

\* The state has its shape; the bag, as `add' keeps it, has one line for a
\* product and no more of it than the shelf had.
TypeOK ==
  /\ user \in [Tabs -> Accounts \cup {None}]
  /\ token \in [Tabs -> Token]
  /\ \A t \in Tabs : IsBag(bag[t])
  /\ cookie \in Accounts \cup {None}
  /\ \A c \in Clicks : calls[c] = Idle \/ IsCall(calls[c])
  /\ clock \in 0..MaxTime /\ mixed \in BOOLEAN

Placed(c) == {i \in DOMAIN orders : orders[i].click = c}

\* However a click on Checkout fares (a refresh and a second attempt, a
\* timeout at the gateway, an error after the commit), it makes at most one
\* order.  There is no idempotency key: request() repeats only what
\* verifyUser turned away.
OneOrderPerClick ==
  \A i, j \in DOMAIN orders : orders[i].click = orders[j].click => i = j

\* "Order placed" is shown only if the order is there, with the lines that
\* were clicked; and a refusal (401, 422, 429, 503) means that there is no
\* order of that click and none will come: the customer who clicks again
\* after one does not buy twice.  Nothing of the kind holds of a failure.
ToldTheTruth ==
  \A c \in Clicks :
    /\ calls[c].page = "done" /\ calls[c].kind = "order" =>
         \E i \in Placed(c) : orders[i].lines = Merge(calls[c].items)
    /\ calls[c].page = "refused" => Placed(c) = {}

\* An order belongs to the account the page showed when Checkout was
\* clicked, although the token may be that of whatever cookie the browser
\* has when the 401 comes: unless another account was signed in while one
\* was in use (in another tab, or while a refresh for it was under way).
OwnAccount ==
  mixed \/ \A i \in DOMAIN orders :
             orders[i].account = calls[orders[i].click].account

\* However the items of a body repeat a product, an order has one line for
\* it (the row locks, the reservation and the price rely on it), no unit is
\* lost or added, and the lines keep the order in which the products first
\* appear, in which the reservation will lock them.
MergeAddsUp ==
  /\ BodiesAddUp
  /\ \A i \in DOMAIN orders :
       AddsUp(calls[orders[i].click].items, orders[i].lines)

\* Every call of the page ends in a notice (or with the page): no refresh,
\* second attempt or silent service keeps it waiting for ever.
Answered == \A c \in Clicks : Waiting(c) ~> ~ Waiting(c)
=============================================================================
