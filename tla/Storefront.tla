----------------------------- MODULE Storefront -----------------------------
(***************************************************************************)
(* One browser and the way of its calls: the tabs that show the shop, each *)
(* with its signed-in user, access token and bag, and the refresh cookie   *)
(* they share; the frontend's request(), which answers a 401 by a refresh  *)
(* and a second attempt; the gateway, which limits and times out; and      *)
(* POST /orders, which the gateway's timeout does not stop.                *)
(*                                                                         *)
(* A call has a page, which waits for its answer, and, once the order      *)
(* service has accepted it, a job, which goes on when the page gave up.    *)
(***************************************************************************)
EXTENDS OrderLines

CONSTANTS
  Tabs, Accounts, None,
  Remembered,  \* the account of the cookie an earlier visit left, or None
  Shelf,     \* Shelf[p]: the quantity of p the page was told
  Lifetime,  \* of an access token
  MaxCalls,  \* bound on the sign-ins and checkouts of a behaviour
  MaxTime,   \* bound on the clock
  MaxFaults  \* bound on reloads, lost answers, timeouts and errors of the server

VARIABLES
  user,    \* the account each tab shows
  token,   \* accessToken of each tab
  bag,     \* the cart of each tab
  cookie,  \* the account of the browser's refresh token
  calls,   \* the calls of request()
  orders,  \* the rows, in the order of their creation
  clock,
  faults,  \* faults so far
  mixed    \* history: an account was signed in while another was in use

tabVars == <<user, token, bag>>
otherVars == <<tabVars, cookie, orders, clock, faults, mixed>>
vars == <<tabVars, cookie, calls, orders, clock, faults, mixed>>

Clicks == 1..MaxCalls

NoToken == [account |-> None, iat |-> 0]

Idle == [page |-> "idle"]

ASSUME StorefrontAssumption ==
  /\ None \notin Accounts /\ Remembered \in Accounts \cup {None}
  /\ Shelf \in [Products -> Nat]
  /\ Lifetime \in Nat /\ MaxCalls \in Nat /\ MaxTime \in Nat /\ MaxFaults \in Nat

\* There is no sign-out: the cookie outlives a visit.  Some of the tabs may
\* be signed in to its account already.
Init ==
  /\ cookie = Remembered
  /\ user \in [Tabs -> {Remembered, None}]
  /\ token = [t \in Tabs |-> [account |-> user[t], iat |-> 0]]
  /\ bag = [t \in Tabs |-> <<>>]
  /\ calls = [c \in Clicks |-> Idle]
  /\ orders = <<>>
  /\ clock = 0 /\ faults = 0
  /\ mixed = FALSE

Valid(header) == header.account # None /\ clock < header.iat + Lifetime

\* The call of kind k that is at the given stage.
Waits(c, k, stage) == calls[c].page = stage /\ calls[c].kind = k

Waiting(c) == calls[c].page \in {"sent", "denied", "refreshing"}

Working(c, stages) == calls[c].page # "idle" /\ calls[c].job \in stages

Mishap == faults < MaxFaults /\ faults' = faults + 1

Show(c, result) == calls' = [calls EXCEPT ![c].page = result]

\* The first unused call; a call is used once.
Open(c, kind, t, account, items, header) ==
  /\ calls[c] = Idle
  /\ \A d \in Clicks : d < c => calls[d] # Idle
  /\ calls' = [calls EXCEPT ![c] =
       [kind |-> kind, tab |-> t, account |-> account, items |-> items,
        header |-> header, page |-> "sent", job |-> "none", via |-> None,
        retried |-> FALSE]]

-----------------------------------------------------------------------------
(* The customer.                                                           *)

\* The forms are offered while nobody is signed in.  The account is None
\* when the password is wrong.
SignIn(c, t, account) ==
  /\ user[t] = None
  /\ Open(c, "login", t, account, <<>>, NoToken)
  /\ UNCHANGED otherVars

\* The button is enabled whenever a user is shown, also while an earlier
\* checkout is in progress.
Checkout(c, t) ==
  /\ user[t] # None /\ bag[t] # <<>>
  /\ Open(c, "order", t, user[t], bag[t], token[t])
  /\ UNCHANGED otherVars

\* Bound: the bag is of interest while a checkout may follow.
CallsLeft == \E c \in Clicks : calls[c] = Idle

\* Mutant: the count is not limited by the quantity.
Add_Unlimited(t, p) ==
  /\ CallsLeft /\ Shelf[p] > 0
  /\ Entry(bag[t], p) <= Shelf[p]
  /\ bag' = [bag EXCEPT ![t] = SetEntry(@, [prodId |-> p, quantity |-> 1],
                                        Entry(@, p) + 1)]
  /\ UNCHANGED <<user, token, cookie, calls, orders, clock, faults, mixed>>

Add(t, p) ==
  /\ CallsLeft /\ Shelf[p] > 0
  /\ Entry(bag[t], p) < Shelf[p]  \* from there on Math.min keeps it
  /\ bag' = [bag EXCEPT ![t] = SetEntry(@, [prodId |-> p, quantity |-> 1],
                                        Entry(@, p) + 1)]
  /\ UNCHANGED <<user, token, cookie, calls, orders, clock, faults, mixed>>

\* The line for p is filtered out; `add' made but one.
Remove(t, p) ==
  /\ CallsLeft
  /\ \E i \in DOMAIN bag[t] :
       /\ bag[t][i].prodId = p
       /\ bag' = [bag EXCEPT ![t] = SubSeq(@, 1, i - 1) \o SubSeq(@, i + 1, Len(@))]
  /\ UNCHANGED <<user, token, cookie, calls, orders, clock, faults, mixed>>

\* The page's memory is gone, and nobody waits for its calls; the cookie
\* stays.
Reload(t) ==
  /\ <<user[t], bag[t], token[t]>> # <<None, <<>>, NoToken>>
  /\ user' = [user EXCEPT ![t] = None]
  /\ token' = [token EXCEPT ![t] = NoToken]
  /\ bag' = [bag EXCEPT ![t] = <<>>]
  /\ calls' = [c \in Clicks |-> IF Waiting(c) /\ calls[c].tab = t
                                THEN [calls[c] EXCEPT !.page = "gone"]
                                ELSE calls[c]]
  /\ Mishap
  /\ UNCHANGED <<cookie, orders, clock, mixed>>

-----------------------------------------------------------------------------
(* request(): the answers that reach the page.                             *)

\* Accounts the browser is at work for.
InUse ==
  {user[t] : t \in Tabs} \cup
  {calls[c].account : c \in {d \in Clicks : Waiting(d) /\ calls[d].kind = "order"}} \cup
  {calls[c].via : c \in {d \in Clicks : calls[d].page = "refreshing"}}

\* Mutant: the request is sent without credentials, and the cookie of the
\* answer is ignored.
CookieSet_Ignored(u) ==
  /\ mixed' = (mixed \/ ~ InUse \subseteq {u, None})
  /\ UNCHANGED cookie

\* The refresh token of u takes the place of whichever the browser had.
CookieSet(u) ==
  /\ mixed' = (mixed \/ ~ InUse \subseteq {u, None})
  /\ cookie' = u

\* The answer of a login or a registration.
SignedIn(c) ==
  LET u == calls[c].account
      t == calls[c].tab
  IN  /\ Waits(c, "login", "sent") /\ u # None
      /\ CookieSet(u)
      /\ user' = [user EXCEPT ![t] = u]
      /\ token' = [token EXCEPT ![t] = [account |-> u, iat |-> clock]]
      /\ Show(c, "done")
      /\ UNCHANGED <<bag, orders, clock, faults>>

\* An answer whose body is cut off sets the cookie, and that is all.
CutOff(c) ==
  /\ Waits(c, "login", "sent") /\ calls[c].account # None
  /\ Mishap
  /\ CookieSet(calls[c].account)
  /\ Show(c, "failed")
  /\ UNCHANGED <<tabVars, orders, clock>>

\* 401, from the login or from verifyUser: the first is followed by a
\* refresh, the second is the answer.
Denied(c) ==
  /\ \/ Waits(c, "login", "sent") /\ calls[c].account = None
     \/ Waits(c, "order", "sent") /\ calls[c].job = "none" /\ ~ Valid(calls[c].header)
  /\ Show(c, IF calls[c].retried THEN "refused" ELSE "denied")
  /\ UNCHANGED otherVars

\* The refresh carries the cookie of the moment.
Refresh(c) ==
  /\ calls[c].page = "denied"
  /\ calls' = [calls EXCEPT ![c].page = "refreshing", ![c].via = cookie]
  /\ UNCHANGED otherVars

\* The token is the tab's, whoever it shows; the same body is sent again.
Refreshed(c) ==
  LET issued == [account |-> calls[c].via, iat |-> clock]
  IN  /\ calls[c].page = "refreshing" /\ calls[c].via # None
      /\ cookie' = calls[c].via
      /\ token' = [token EXCEPT ![calls[c].tab] = issued]
      /\ calls' = [calls EXCEPT ![c].page = "sent", ![c].header = issued,
                                ![c].retried = TRUE, ![c].via = None]
      /\ UNCHANGED <<user, bag, orders, clock, faults, mixed>>

\* Mutant: request() tries until a refresh succeeds.
RefreshFails_Again(c) ==
  /\ calls[c].page = "refreshing"
  /\ calls' = [calls EXCEPT ![c].page = "denied", ![c].via = None]
  /\ UNCHANGED otherVars

\* No cookie, a token that was exchanged, a 429: the 401 is the answer.
RefreshFails(c) ==
  /\ calls[c].page = "refreshing"
  /\ calls' = [calls EXCEPT ![c].page = "refused", ![c].via = None]
  /\ UNCHANGED otherVars

\* 429: the counter is that of the client's address, which others share.
RateLimited(c) ==
  /\ calls[c].page = "sent" /\ calls[c].job = "none"
  /\ Show(c, "refused")
  /\ UNCHANGED otherVars

\* Mutant: request() sends the body again after any error.
GivenUp_SentAgain(c) ==
  /\ calls[c].page = "sent"
  /\ calls' = [calls EXCEPT ![c].page = IF calls[c].retried THEN "failed" ELSE "sent",
                            ![c].job = "none", ![c].retried = TRUE]
  /\ Mishap
  /\ UNCHANGED <<tabVars, cookie, orders, clock, mixed>>

\* 502 when the gateway's timeout ends the wait, or no answer at all: what
\* became of the call is not known to the page.
GivenUp(c) ==
  /\ calls[c].page = "sent"
  /\ Show(c, "failed")
  /\ Mishap
  /\ UNCHANGED <<tabVars, cookie, orders, clock, mixed>>

-----------------------------------------------------------------------------
(* POST /orders.  What is sent may arrive after the page gave up.          *)

Arrives(c) ==
  /\ calls[c].page \in {"sent", "failed", "gone"}
  /\ calls[c].kind = "order" /\ calls[c].job = "none"
  /\ Valid(calls[c].header)

Accept(c) ==
  /\ Arrives(c) /\ Acceptable(calls[c].items)
  /\ calls' = [calls EXCEPT ![c].job = "working"]
  /\ UNCHANGED otherVars

\* The page learns how a job ended, if it still waits.
End(c, result) ==
  calls' = [calls EXCEPT ![c].job = "ended",
                         ![c].page = IF @ = "sent" THEN result ELSE @]

\* 422: the bag has more lines or more of a product than the schema admits.
Unprocessable(c) ==
  /\ Arrives(c) /\ ~ Acceptable(calls[c].items)
  /\ End(c, "refused")
  /\ UNCHANGED otherVars

\* Mutant: the row is inserted before the stock is looked at.
Unavailable_Stored(c) ==
  /\ Working(c, {"working", "created"})
  /\ End(c, "refused")
  /\ UNCHANGED otherVars

\* 503: GetProduct fails or reports too few.
Unavailable(c) ==
  /\ Working(c, {"working"})
  /\ End(c, "refused")
  /\ UNCHANGED otherVars

Row(c) == [click |-> c, account |-> calls[c].header.account,
           lines |-> Merge(calls[c].items)]

Create(c) ==
  /\ Working(c, {"working"})
  /\ orders' = Append(orders, Row(c))
  /\ calls' = [calls EXCEPT ![c].job = "created"]
  /\ UNCHANGED <<tabVars, cookie, clock, faults, mixed>>

\* 500: the insert or the publication throws, or the service dies, before
\* or after the row is committed.
CreateFails(c) ==
  /\ Working(c, {"working", "created"})
  /\ End(c, "failed")
  /\ Mishap
  /\ UNCHANGED <<tabVars, cookie, orders, clock, mixed>>

\* 201: "Order placed", and the bag is emptied, whatever is in it by now.
Created(c) ==
  /\ Working(c, {"created"})
  /\ End(c, "done")
  /\ bag' = IF calls[c].page = "sent" THEN [bag EXCEPT ![calls[c].tab] = <<>>]
                                      ELSE bag
  /\ UNCHANGED <<user, token, cookie, orders, clock, faults, mixed>>

Tick ==
  /\ clock < MaxTime
  /\ clock' = clock + 1
  /\ UNCHANGED <<tabVars, cookie, calls, orders, faults, mixed>>

-----------------------------------------------------------------------------
Customer ==
  \E t \in Tabs :
    \/ \E p \in Products : Add(t, p) \/ Remove(t, p)
    \/ \E c \in Clicks :
         Checkout(c, t) \/ \E u \in Accounts \cup {None} : SignIn(c, t, u)

\* What becomes of a call.
Proceed(c) ==
  \/ SignedIn(c) \/ Denied(c) \/ Refresh(c) \/ Refreshed(c) \/ RefreshFails(c)
  \/ RateLimited(c) \/ Accept(c) \/ Unprocessable(c) \/ Unavailable(c)
  \/ Create(c) \/ Created(c)

Fault ==
  \/ \E t \in Tabs : Reload(t)
  \/ \E c \in Clicks : CutOff(c) \/ GivenUp(c) \/ CreateFails(c)

Next == Customer \/ Tick \/ Fault \/ \E c \in Clicks : Proceed(c)

Spec == Init /\ [][Next]_vars

\* Some call gets on as long as one can; the customer and the clock need not.
FairSpec == Spec /\ WF_vars(\E c \in Clicks : Proceed(c))
=============================================================================
