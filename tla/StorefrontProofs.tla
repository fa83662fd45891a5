-------------------------- MODULE StorefrontProofs --------------------------
(***************************************************************************)
(* The safety properties of the storefront, for any number of tabs,        *)
(* accounts, products and calls.  What a page is told follows from where   *)
(* the job of its call is; whose order it is, from all the browser shows   *)
(* being one account until another is mixed in; that no unit is lost, from *)
(* each turn of createOrder's loop.                                        *)
(***************************************************************************)
EXTENDS StorefrontProperties, TLAPS, WellFoundedInduction, FiniteSetTheorems

Account == Accounts \cup {None}
Header == [account : Account, iat : Nat]

\* A call that carries the given items, whatever they are.
CallWith(items) ==
  [kind : {"login", "order"}, tab : Tabs, account : Account, items : {items},
   header : Header, page : Pages, job : {"none", "working", "created", "ended"},
   via : Account, retried : BOOLEAN]

Shape ==
  /\ user \in [Tabs -> Account] /\ token \in [Tabs -> Header]
  /\ cookie \in Account /\ clock \in Nat /\ mixed \in BOOLEAN
  /\ calls = [c \in Clicks |-> calls[c]]
  /\ \A c \in Clicks : calls[c] = Idle \/ calls[c] \in CallWith(calls[c].items)
  /\ \E S : orders \in Seq(S)

\* How far the page and the job of a call can be apart.
Stages(call) ==
  call # Idle =>
    /\ call.kind = "login" => call.job = "none"
    /\ call.page \in {"denied", "refreshing", "refused"} => call.job \in {"none", "ended"}
    /\ call.page \in {"denied", "refreshing"} => call.job = "none"
    /\ call.page = "done" /\ call.kind = "order" => call.job = "ended"
    /\ call.kind = "order" => call.account # None

StagesKept == \A c \in Clicks : Stages(calls[c])

\* A row is the result of its click's job, of which the page may know.
RowsExplained ==
  \A i \in DOMAIN orders :
    LET call == calls[orders[i].click]
    IN  /\ orders[i].click \in Clicks /\ call # Idle /\ call.kind = "order"
        /\ call.job \in {"created", "ended"} /\ call.page # "refused"
        /\ orders[i].lines = Merge(call.items)

\* A job that came that far, or a page that says so, has a row.
JobsRecorded ==
  \A c \in Clicks :
    calls[c] # Idle /\ calls[c].kind = "order" /\ (calls[c].job = "created" \/ calls[c].page = "done")
      => Placed(c) # {}

\* Before another account is mixed in: the cookie, the tokens of the tabs
\* that show somebody, and the calls that may still be answered are all of
\* the account shown; and the orders are of the account they were clicked for.
OneAccount ==
  mixed \/
    /\ \A t \in Tabs : user[t] # None =>
         user[t] = cookie /\ token[t].account = user[t]
    /\ \A c \in Clicks : calls[c] # Idle =>
         /\ calls[c].kind = "order" => calls[c].header.account = calls[c].account
         /\ calls[c].kind = "order" /\ Waiting(c) => calls[c].account = cookie
         /\ calls[c].page = "refreshing" => calls[c].via \in {cookie, None}
    /\ \A i \in DOMAIN orders : orders[i].account = calls[orders[i].click].account

StorefrontInv ==
  Shape /\ StagesKept /\ RowsExplained /\ OneOrderPerClick /\ JobsRecorded /\ OneAccount

-----------------------------------------------------------------------------
\* At the start no call was opened and no order made.
LEMMA InitEstablishes == Init => StorefrontInv
<1> SUFFICES ASSUME Init PROVE StorefrontInv
  OBVIOUS
<1> USE StorefrontAssumption DEF Init
<1>1. Shape
  <2>1. orders \in Seq({})
    OBVIOUS
  <2>2. token \in [Tabs -> Header]
    BY DEF Header, Account
  <2> QED
    BY <2>1, <2>2 DEF Shape, Account
<1>2. StagesKept
  BY DEF StagesKept, Stages
<1>3. RowsExplained /\ OneOrderPerClick
  BY DEF RowsExplained, OneOrderPerClick
<1>4. JobsRecorded
  BY DEF JobsRecorded
<1>5. OneAccount
  BY DEF OneAccount
<1> QED
  BY <1>1, <1>2, <1>3, <1>4, <1>5 DEF StorefrontInv

-----------------------------------------------------------------------------
(* What the steps of a call have in common.                                *)

\* Call c becomes `new', still the same request.
Becomes(c, new) ==
  /\ c \in Clicks /\ calls[c] # Idle
  /\ calls' = [calls EXCEPT ![c] = new]
  /\ new \in CallWith(calls[c].items)
  /\ new.kind = calls[c].kind /\ new.tab = calls[c].tab
  /\ new.account = calls[c].account
  /\ Stages(new)

\* A call that was opened is a record.
LEMMA NotIdle ==
  ASSUME Shape, NEW c \in Clicks, calls[c] # Idle
  PROVE  calls[c] \in CallWith(calls[c].items)
BY DEF Shape

\* An unused slot is no such record.
LEMMA IdleIsNoCall ==
  ASSUME NEW items, NEW new \in CallWith(items)
  PROVE  new # Idle
<1>1. new.page # "idle"
  BY DEF CallWith, Pages
<1> QED
  BY <1>1 DEF Idle

\* A step of a call that makes no order keeps what is said of the orders, if
\* it forgets none and claims none.
LEMMA BecomesKeeps ==
  ASSUME StorefrontInv, NEW c, NEW new, Becomes(c, new), orders' = orders,
         Placed(c) # {} => new.job \in {"created", "ended"} /\ new.page # "refused",
         new.kind = "order" /\ (new.job = "created" \/ new.page = "done") => Placed(c) # {}
  PROVE  /\ calls' = [d \in Clicks |-> calls'[d]]
         /\ \A d \in Clicks : calls'[d] = Idle \/ calls'[d] \in CallWith(calls'[d].items)
         /\ (StagesKept /\ RowsExplained /\ OneOrderPerClick /\ JobsRecorded)'
<1> USE DEF StorefrontInv, Becomes
<1>1. calls = [d \in Clicks |-> calls[d]]
  BY DEF Shape
<1>2. calls'[c] = new /\ \A d \in Clicks \ {c} : calls'[d] = calls[d]
  BY <1>1
<1>3. new.items = calls[c].items /\ new # Idle
  BY IdleIsNoCall DEF CallWith
<1>4. calls' = [d \in Clicks |-> calls'[d]]
  BY <1>1
<1>5. \A d \in Clicks : calls'[d] = Idle \/ calls'[d] \in CallWith(calls'[d].items)
  BY <1>2, <1>3 DEF Shape
<1>6. StagesKept'
  BY <1>2 DEF StagesKept, Stages
<1>7. RowsExplained'
  <2> SUFFICES ASSUME NEW i \in DOMAIN orders
               PROVE  LET call == calls'[orders[i].click]
                      IN  /\ orders[i].click \in Clicks /\ call # Idle /\ call.kind = "order"
                          /\ call.job \in {"created", "ended"} /\ call.page # "refused"
                          /\ orders[i].lines = Merge(call.items)
    BY DEF RowsExplained
  <2>1. CASE orders[i].click = c
    BY <2>1, <1>2, <1>3 DEF RowsExplained, Placed
  <2>2. CASE orders[i].click # c
    BY <2>2, <1>2 DEF RowsExplained
  <2> QED
    BY <2>1, <2>2
<1>8. OneOrderPerClick'
  BY DEF OneOrderPerClick
<1>9. JobsRecorded'
  BY <1>2 DEF JobsRecorded, Placed
<1> QED
  BY <1>4, <1>5, <1>6, <1>7, <1>8, <1>9

\* The same, when at most a bag changes and the call keeps its header and
\* does not begin to wait.
LEMMA PageKeeps ==
  ASSUME StorefrontInv, NEW c, NEW new, Becomes(c, new),
         UNCHANGED <<user, token, cookie, orders, clock, mixed>>,
         Placed(c) # {} => new.job \in {"created", "ended"} /\ new.page # "refused",
         new.kind = "order" /\ (new.job = "created" \/ new.page = "done") => Placed(c) # {},
         new.header = calls[c].header,
         new.page \in {"sent", "denied", "refreshing"} => Waiting(c),
         new.page = "refreshing" => new.via = cookie
  PROVE  StorefrontInv'
<1>1. /\ calls' = [d \in Clicks |-> calls'[d]]
      /\ \A d \in Clicks : calls'[d] = Idle \/ calls'[d] \in CallWith(calls'[d].items)
      /\ (StagesKept /\ RowsExplained /\ OneOrderPerClick /\ JobsRecorded)'
  BY BecomesKeeps
<1>2. Shape'
  BY <1>1 DEF StorefrontInv, Shape, tabVars
<1>3. calls'[c] = new /\ \A d \in Clicks \ {c} : calls'[d] = calls[d]
  BY DEF StorefrontInv, Shape, Becomes
<1>4. OneAccount'
  <2> SUFFICES ASSUME ~ mixed PROVE OneAccount'
    BY DEF OneAccount
  <2>1. \A t \in Tabs : user'[t] # None =>
          user'[t] = cookie' /\ token'[t].account = user'[t]
    BY DEF StorefrontInv, OneAccount, tabVars
  <2>2. \A d \in Clicks : calls'[d] # Idle =>
         /\ calls'[d].kind = "order" => calls'[d].header.account = calls'[d].account
         /\ calls'[d].kind = "order" /\ Waiting(d)' => calls'[d].account = cookie'
         /\ calls'[d].page = "refreshing" => calls'[d].via \in {cookie', None}
    BY <1>3 DEF StorefrontInv, OneAccount, Becomes, Waiting
  <2>3. \A i \in DOMAIN orders' : orders'[i].account = calls'[orders'[i].click].account
    BY <1>3 DEF StorefrontInv, OneAccount, Becomes, RowsExplained
  <2> QED
    BY <2>1, <2>2, <2>3 DEF OneAccount
<1> QED
  BY <1>1, <1>2, <1>4 DEF StorefrontInv

-----------------------------------------------------------------------------
(* The steps of a call that change no order and no tab.                    *)

\* The answers to a page, and the steps of a job, that store no order.
LEMMA PageSteps ==
  ASSUME StorefrontInv, NEW c \in Clicks,
         \/ Denied(c) \/ Refresh(c) \/ RefreshFails(c) \/ RateLimited(c) \/ GivenUp(c)
         \/ Accept(c) \/ Unprocessable(c) \/ Unavailable(c) \/ CreateFails(c)
  PROVE  StorefrontInv'
<1> DEFINE Job(job) == [calls[c] EXCEPT !.job = job]
           Page(page) == [calls[c] EXCEPT !.page = page]
           Ended(page) == [calls[c] EXCEPT !.job = "ended",
                                           !.page = IF @ = "sent" THEN page ELSE @]
<1> USE DEF Mishap, otherVars, tabVars
<1>1. calls[c] # Idle => calls[c] \in CallWith(calls[c].items) /\ Stages(calls[c])
  BY NotIdle DEF StorefrontInv, StagesKept
<1>2. Placed(c) # {} => calls[c].job \in {"created", "ended"} /\ calls[c].page # "refused"
  BY DEF StorefrontInv, RowsExplained, Placed
<1>3. calls[c] # Idle /\ calls[c].kind = "order" /\ (calls[c].job = "created" \/ calls[c].page = "done")
        => Placed(c) # {}
  BY DEF StorefrontInv, JobsRecorded
<1>4. calls[c].page # "idle" => calls[c] # Idle
  BY DEF Idle
<1>5. CASE Denied(c)
  <2> DEFINE result == IF calls[c].retried THEN "refused" ELSE "denied"
  <2>1. calls[c] # Idle /\ calls[c].page = "sent" /\ calls[c].job = "none"
    BY <1>5, <1>1, <1>4 DEF Denied, Waits, Stages
  <2>2. Becomes(c, Page(result))
    BY <2>1, <1>5, <1>1 DEF Becomes, CallWith, Stages, Pages, Denied, Show
  <2> QED
    BY <1>5, <2>1, <2>2, <1>1, <1>2, PageKeeps DEF Denied, CallWith, Waiting
<1>6. CASE Refresh(c)
  <2> DEFINE new == [calls[c] EXCEPT !.page = "refreshing", !.via = cookie]
  <2>1. calls[c] # Idle /\ calls[c].page = "denied" /\ calls[c].job = "none"
    BY <1>6, <1>1, <1>4 DEF Refresh, Stages
  <2>2. Becomes(c, new)
    BY <2>1, <1>6, <1>1 DEF Becomes, CallWith, Stages, Pages, Refresh, StorefrontInv, Shape
  <2> QED
    BY <1>6, <2>1, <2>2, <1>1, <1>2, PageKeeps DEF Refresh, CallWith, Waiting
<1>7. CASE RefreshFails(c)
  <2> DEFINE new == [calls[c] EXCEPT !.page = "refused", !.via = None]
  <2>1. calls[c] # Idle /\ calls[c].page = "refreshing" /\ calls[c].job = "none"
    BY <1>7, <1>1, <1>4 DEF RefreshFails, Stages
  <2>2. Becomes(c, new)
    BY <2>1, <1>7, <1>1 DEF Becomes, CallWith, Stages, Pages, RefreshFails, Account
  <2> QED
    BY <1>7, <2>1, <2>2, <1>1, <1>2, PageKeeps DEF RefreshFails, CallWith, Waiting
<1>8. CASE RateLimited(c)
  <2>1. calls[c] # Idle /\ calls[c].page = "sent" /\ calls[c].job = "none"
    BY <1>8, <1>4 DEF RateLimited
  <2>2. Becomes(c, Page("refused"))
    BY <2>1, <1>8, <1>1 DEF Becomes, CallWith, Stages, Pages, RateLimited, Show
  <2> QED
    BY <1>8, <2>1, <2>2, <1>1, <1>2, PageKeeps DEF RateLimited, CallWith, Waiting
<1>9. CASE GivenUp(c)
  <2>1. calls[c] # Idle /\ calls[c].page = "sent"
    BY <1>9, <1>4 DEF GivenUp
  <2>2. Becomes(c, Page("failed"))
    BY <2>1, <1>9, <1>1 DEF Becomes, CallWith, Stages, Pages, GivenUp, Show
  <2> QED
    BY <1>9, <2>1, <2>2, <1>1, <1>2, <1>3, PageKeeps DEF GivenUp, CallWith, Waiting
<1>10. CASE Accept(c)
  <2>1. calls[c] # Idle /\ calls[c].page \in {"sent", "failed", "gone"} /\ calls[c].job = "none"
        /\ calls[c].kind = "order"
    BY <1>10, <1>4 DEF Accept, Arrives
  <2>2. Becomes(c, Job("working"))
    BY <2>1, <1>10, <1>1 DEF Becomes, CallWith, Stages, Pages, Accept
  <2> QED
    BY <1>10, <2>1, <2>2, <1>1, <1>2, PageKeeps DEF Accept, CallWith, Waiting
<1>11. CASE Unprocessable(c)
  <2>1. calls[c] # Idle /\ calls[c].page \in {"sent", "failed", "gone"} /\ calls[c].job = "none"
        /\ calls[c].kind = "order"
    BY <1>11, <1>4 DEF Unprocessable, Arrives
  <2>2. Becomes(c, Ended("refused"))
    BY <2>1, <1>11, <1>1 DEF Becomes, CallWith, Stages, Pages, Unprocessable, End
  <2> QED
    BY <1>11, <2>1, <2>2, <1>1, <1>2, PageKeeps DEF Unprocessable, CallWith, Waiting
<1>12. CASE Unavailable(c)
  <2>1. calls[c] # Idle /\ calls[c].job = "working" /\ calls[c].kind = "order"
        /\ calls[c].page \in {"sent", "failed", "gone"}
    BY <1>12, <1>1, <1>4 DEF Unavailable, Working, Stages, CallWith, Pages
  <2>2. Becomes(c, Ended("refused"))
    BY <2>1, <1>12, <1>1 DEF Becomes, CallWith, Stages, Pages, Unavailable, End
  <2> QED
    BY <1>12, <2>1, <2>2, <1>1, <1>2, PageKeeps DEF Unavailable, CallWith, Waiting
<1>13. CASE CreateFails(c)
  <2>1. calls[c] # Idle /\ calls[c].job \in {"working", "created"} /\ calls[c].kind = "order"
        /\ calls[c].page \in {"sent", "failed", "gone"}
    BY <1>13, <1>1, <1>4 DEF CreateFails, Working, Stages, CallWith, Pages
  <2>2. Becomes(c, Ended("failed"))
    BY <2>1, <1>13, <1>1 DEF Becomes, CallWith, Stages, Pages, CreateFails, End
  <2> QED
    BY <1>13, <2>1, <2>2, <1>1, <1>2, PageKeeps DEF CreateFails, CallWith, Waiting
<1> QED
  BY <1>5, <1>6, <1>7, <1>8, <1>9, <1>10, <1>11, <1>12, <1>13

-----------------------------------------------------------------------------
(* The steps that change a token, the cookie or an order.                  *)

\* The cookie of another account comes with the flag.
LEMMA CookieFacts ==
  ASSUME StorefrontInv, NEW u \in Accounts, CookieSet(u)
  PROVE  /\ cookie' \in Account /\ mixed' \in BOOLEAN /\ cookie' = u
         /\ ~ mixed' =>
              /\ ~ mixed
              /\ \A t \in Tabs : user[t] \in {u, None}
              /\ \A c \in Clicks : Waiting(c) /\ calls[c].kind = "order" => calls[c].account \in {u, None}
              /\ \A c \in Clicks : calls[c].page = "refreshing" => calls[c].via \in {u, None}
<1>1. cookie' \in Account /\ mixed' \in BOOLEAN /\ cookie' = u
  BY DEF CookieSet, Account, StorefrontInv, Shape
<1>2. ASSUME ~ mixed' PROVE ~ mixed /\ InUse \subseteq {u, None}
  BY <1>2 DEF CookieSet
<1>3. /\ \A t \in Tabs : user[t] \in InUse
      /\ \A c \in Clicks : Waiting(c) /\ calls[c].kind = "order" => calls[c].account \in InUse
      /\ \A c \in Clicks : calls[c].page = "refreshing" => calls[c].via \in InUse
  BY DEF InUse
<1> QED
  BY <1>1, <1>2, <1>3

\* A sign-in that is answered, whole or cut off.
LEMMA SignInKeeps ==
  ASSUME StorefrontInv, NEW c \in Clicks, SignedIn(c) \/ CutOff(c)
  PROVE  StorefrontInv'
<1> DEFINE u == calls[c].account
           t == calls[c].tab
           issued == [account |-> u, iat |-> clock]
<1>1. calls[c] # Idle /\ calls[c].page = "sent" /\ calls[c].kind = "login" /\ u # None
  BY DEF SignedIn, CutOff, Waits, Idle
<1>2. calls[c] \in CallWith(calls[c].items) /\ Stages(calls[c])
  BY <1>1, NotIdle DEF StorefrontInv, StagesKept
<1>3. u \in Accounts /\ t \in Tabs /\ issued \in Header
  BY <1>1, <1>2 DEF CallWith, Account, Header, StorefrontInv, Shape
<1>4. CookieSet(u) /\ UNCHANGED <<bag, orders, clock>>
  BY DEF SignedIn, CutOff, tabVars
<1>5. PICK page \in {"done", "failed"} : calls' = [calls EXCEPT ![c].page = page]
  BY DEF SignedIn, CutOff, Show
<1> DEFINE new == [calls[c] EXCEPT !.page = page]
<1>6. Becomes(c, new)
  BY <1>1, <1>2, <1>5 DEF Becomes, CallWith, Stages, Pages
<1>7. Placed(c) = {}
  BY <1>1 DEF StorefrontInv, RowsExplained, Placed
<1>8. /\ calls' = [d \in Clicks |-> calls'[d]]
      /\ \A d \in Clicks : calls'[d] = Idle \/ calls'[d] \in CallWith(calls'[d].items)
      /\ (StagesKept /\ RowsExplained /\ OneOrderPerClick /\ JobsRecorded)'
  BY <1>1, <1>4, <1>6, <1>7, BecomesKeeps DEF Becomes
<1>9. \/ UNCHANGED <<user, token>>
      \/ user' = [user EXCEPT ![t] = u] /\ token' = [token EXCEPT ![t] = issued]
  BY DEF SignedIn, CutOff, tabVars
<1>10. user' \in [Tabs -> Account] /\ token' \in [Tabs -> Header]
  BY <1>3, <1>9 DEF StorefrontInv, Shape, Account
<1>11. Shape'
  BY <1>3, <1>4, <1>8, <1>10, CookieFacts DEF StorefrontInv, Shape
<1>12. OneAccount'
  <2> SUFFICES ASSUME ~ mixed' PROVE OneAccount'
    BY DEF OneAccount
  <2>1. /\ ~ mixed /\ cookie' = u
        /\ \A s \in Tabs : user[s] \in {u, None}
        /\ \A d \in Clicks : Waiting(d) /\ calls[d].kind = "order" => calls[d].account \in {u, None}
        /\ \A d \in Clicks : calls[d].page = "refreshing" => calls[d].via \in {u, None}
    BY <1>3, <1>4, CookieFacts
  <2>2. \A s \in Tabs : user'[s] # None =>
          user'[s] = cookie' /\ token'[s].account = user'[s]
    BY <1>3, <1>9, <2>1 DEF StorefrontInv, OneAccount, Shape
  <2>3. calls'[c] = new /\ \A d \in Clicks \ {c} : calls'[d] = calls[d]
    BY <1>5 DEF StorefrontInv, Shape
  <2>4. \A d \in Clicks : calls'[d] # Idle =>
         /\ calls'[d].kind = "order" => calls'[d].header.account = calls'[d].account
         /\ calls'[d].kind = "order" /\ Waiting(d)' => calls'[d].account = cookie'
         /\ calls'[d].page = "refreshing" => calls'[d].via \in {cookie', None}
    BY <1>1, <1>6, <2>1, <2>3 DEF StorefrontInv, OneAccount, StagesKept, Stages, Becomes, Waiting
  <2>5. \A i \in DOMAIN orders' : orders'[i].account = calls'[orders'[i].click].account
    BY <1>4, <1>6, <2>1, <2>3 DEF StorefrontInv, OneAccount, RowsExplained, Becomes
  <2> QED
    BY <2>2, <2>4, <2>5 DEF OneAccount
<1> QED
  BY <1>8, <1>11, <1>12 DEF StorefrontInv

\* A refresh gives the tab a token of the cookie it was sent with.
LEMMA RefreshedKeeps ==
  ASSUME StorefrontInv, NEW c \in Clicks, Refreshed(c)
  PROVE  StorefrontInv'
<1> DEFINE u == calls[c].via
           t == calls[c].tab
           issued == [account |-> u, iat |-> clock]
           new == [calls[c] EXCEPT !.page = "sent", !.header = issued,
                                   !.retried = TRUE, !.via = None]
<1>1. calls[c] # Idle /\ calls[c].page = "refreshing" /\ u # None
  BY DEF Refreshed, Idle
<1>2. calls[c] \in CallWith(calls[c].items) /\ Stages(calls[c])
  BY <1>1, NotIdle DEF StorefrontInv, StagesKept
<1>3. u \in Account /\ t \in Tabs /\ issued \in Header /\ calls[c].job = "none"
  BY <1>1, <1>2 DEF CallWith, Account, Header, StorefrontInv, Shape, Stages
<1>4. /\ UNCHANGED <<user, bag, orders, clock, mixed>>
      /\ cookie' = u /\ token' = [token EXCEPT ![t] = issued]
      /\ calls' = [calls EXCEPT ![c] = new]
  BY DEF Refreshed
<1>5. Becomes(c, new)
  BY <1>1, <1>2, <1>3, <1>4 DEF Becomes, CallWith, Stages, Pages, Account
<1>6. Placed(c) = {}
  BY <1>3 DEF StorefrontInv, RowsExplained, Placed
<1>7. new.page = "sent" /\ new.job = "none" /\ new.header = issued
  BY <1>2, <1>3 DEF CallWith
<1>8. /\ calls' = [d \in Clicks |-> calls'[d]]
      /\ \A d \in Clicks : calls'[d] = Idle \/ calls'[d] \in CallWith(calls'[d].items)
      /\ (StagesKept /\ RowsExplained /\ OneOrderPerClick /\ JobsRecorded)'
  BY <1>4, <1>5, <1>6, <1>7, BecomesKeeps
<1>9. Shape'
  BY <1>3, <1>4, <1>8 DEF StorefrontInv, Shape
<1>10. OneAccount'
  <2> SUFFICES ASSUME ~ mixed PROVE OneAccount'
    BY <1>4 DEF OneAccount
  <2>1. u = cookie
    BY <1>1 DEF StorefrontInv, OneAccount
  <2>2. \A s \in Tabs : user'[s] # None =>
          user'[s] = cookie' /\ token'[s].account = user'[s]
    BY <1>3, <1>4, <2>1 DEF StorefrontInv, OneAccount, Shape
  <2>3. calls'[c] = new /\ \A d \in Clicks \ {c} : calls'[d] = calls[d]
    BY <1>4 DEF StorefrontInv, Shape
  <2>4. calls[c].kind = "order" => calls[c].account = u
    BY <1>1, <2>1 DEF StorefrontInv, OneAccount, Waiting
  <2>5. \A d \in Clicks : calls'[d] # Idle =>
         /\ calls'[d].kind = "order" => calls'[d].header.account = calls'[d].account
         /\ calls'[d].kind = "order" /\ Waiting(d)' => calls'[d].account = cookie'
         /\ calls'[d].page = "refreshing" => calls'[d].via \in {cookie', None}
    BY <1>4, <1>5, <1>7, <2>1, <2>3, <2>4 DEF StorefrontInv, OneAccount, Becomes, Waiting
  <2>6. \A i \in DOMAIN orders' : orders'[i].account = calls'[orders'[i].click].account
    BY <1>4, <1>5, <2>3 DEF StorefrontInv, OneAccount, RowsExplained, Becomes
  <2> QED
    BY <2>2, <2>5, <2>6 DEF OneAccount
<1> QED
  BY <1>8, <1>9, <1>10 DEF StorefrontInv

\* The row is added at the end, and is the only one of its click.
LEMMA CreateKeeps ==
  ASSUME StorefrontInv, NEW c \in Clicks, Create(c)
  PROVE  StorefrontInv'
<1>0. PICK new, n : new = [calls[c] EXCEPT !.job = "created"] /\ n = Len(orders) + 1
  OBVIOUS
<1>1. calls[c] # Idle /\ calls[c].job = "working" /\ calls' = [calls EXCEPT ![c] = new]
  BY <1>0 DEF Create, Working, Idle
<1>2. calls[c] \in CallWith(calls[c].items) /\ Stages(calls[c])
  BY <1>1, NotIdle DEF StorefrontInv, StagesKept
<1>3. /\ calls[c].kind = "order" /\ calls[c].page \in {"sent", "failed", "gone"}
      /\ new.kind = "order" /\ new.page = calls[c].page /\ new.job = "created"
      /\ new.items = calls[c].items /\ new.account = calls[c].account
      /\ new.header = calls[c].header /\ new.via = calls[c].via
      /\ new \in CallWith(new.items) /\ Stages(new) /\ new # Idle
  <2>1. new \in CallWith(calls[c].items)
    BY <1>0, <1>2 DEF CallWith
  <2>2. new # Idle
    BY <2>1, IdleIsNoCall
  <2> QED
    BY <1>0, <1>1, <1>2, <2>1, <2>2 DEF CallWith, Stages, Pages
<1>4. calls'[c] = new /\ \A d \in Clicks \ {c} : calls'[d] = calls[d]
  BY <1>1 DEF StorefrontInv, Shape
<1>5. PICK S : orders \in Seq(S)
  BY DEF StorefrontInv, Shape
<1>6. orders \in Seq(S \cup {Row(c)})
  BY <1>5
<1>7. /\ orders' = Append(orders, Row(c)) /\ orders' \in Seq(S \cup {Row(c)})
      /\ DOMAIN orders' = 1..n /\ DOMAIN orders = 1..(n - 1) /\ n \in Nat \ {0}
      /\ orders'[n] = Row(c) /\ \A i \in 1..(n - 1) : orders'[i] = orders[i]
  BY <1>0, <1>6 DEF Create
<1>8. \A i \in DOMAIN orders : orders[i].click # c
  BY <1>1 DEF StorefrontInv, RowsExplained
<1>9. Row(c).click = c /\ Row(c).account = calls[c].header.account
      /\ Row(c).lines = Merge(calls[c].items)
  BY DEF Row
<1>10. Shape'
  <2>1. calls' = [d \in Clicks |-> calls'[d]]
    BY <1>1 DEF StorefrontInv, Shape
  <2>2. \A d \in Clicks : calls'[d] = Idle \/ calls'[d] \in CallWith(calls'[d].items)
    BY <1>3, <1>4 DEF StorefrontInv, Shape
  <2> QED
    BY <1>7, <2>1, <2>2 DEF Create, StorefrontInv, Shape, tabVars
<1>11. StagesKept'
  BY <1>3, <1>4 DEF StorefrontInv, StagesKept, Stages
<1>12. RowsExplained'
  <2> SUFFICES ASSUME NEW i \in 1..n
               PROVE  LET call == calls'[orders'[i].click]
                      IN  /\ orders'[i].click \in Clicks /\ call # Idle /\ call.kind = "order"
                          /\ call.job \in {"created", "ended"} /\ call.page # "refused"
                          /\ orders'[i].lines = Merge(call.items)
    BY <1>7 DEF RowsExplained
  <2>1. CASE i = n
    BY <2>1, <1>3, <1>4, <1>7, <1>9
  <2>2. CASE i \in 1..(n - 1)
    BY <2>2, <1>4, <1>7, <1>8 DEF StorefrontInv, RowsExplained
  <2> QED
    BY <2>1, <2>2, <1>7
<1>13. OneOrderPerClick'
  BY <1>7, <1>8, <1>9 DEF StorefrontInv, OneOrderPerClick
<1>14. JobsRecorded'
  <2> SUFFICES ASSUME NEW d \in Clicks, calls'[d] # Idle, calls'[d].kind = "order",
                      calls'[d].job = "created" \/ calls'[d].page = "done"
               PROVE  \E i \in DOMAIN orders' : orders'[i].click = d
    BY DEF JobsRecorded, Placed
  <2>1. CASE d = c
    BY <2>1, <1>7, <1>9
  <2>2. CASE d # c
    <3>1. PICK i \in DOMAIN orders : orders[i].click = d
      BY <2>2, <1>4 DEF StorefrontInv, JobsRecorded, Placed
    <3> QED
      BY <3>1, <1>7
  <2> QED
    BY <2>1, <2>2
<1>15. OneAccount'
  <2> SUFFICES ASSUME ~ mixed PROVE OneAccount'
    BY DEF OneAccount, Create
  <2>1. \A t \in Tabs : user'[t] # None =>
          user'[t] = cookie' /\ token'[t].account = user'[t]
    BY DEF StorefrontInv, OneAccount, Create, tabVars
  <2>2. \A d \in Clicks : calls'[d] # Idle =>
         /\ calls'[d].kind = "order" => calls'[d].header.account = calls'[d].account
         /\ calls'[d].kind = "order" /\ Waiting(d)' => calls'[d].account = cookie'
         /\ calls'[d].page = "refreshing" => calls'[d].via \in {cookie', None}
    BY <1>1, <1>3, <1>4 DEF StorefrontInv, OneAccount, Waiting, Create
  <2>3. \A i \in 1..n : orders'[i].account = calls'[orders'[i].click].account
    BY <1>1, <1>3, <1>4, <1>7, <1>8, <1>9 DEF StorefrontInv, OneAccount, RowsExplained
  <2> QED
    BY <1>7, <2>1, <2>2, <2>3 DEF OneAccount
<1> QED
  BY <1>10, <1>11, <1>12, <1>13, <1>14, <1>15 DEF StorefrontInv

\* The bag is of no account: a job that ends well is a page step otherwise.
LEMMA CreatedKeeps ==
  ASSUME StorefrontInv, NEW c \in Clicks, Created(c)
  PROVE  StorefrontInv'
<1> DEFINE new == [calls[c] EXCEPT !.job = "ended",
                                   !.page = IF @ = "sent" THEN "done" ELSE @]
<1>1. calls[c] # Idle /\ calls[c].job = "created" 
  BY DEF Created, Working, Idle
<1>2. calls[c] \in CallWith(calls[c].items) /\ Stages(calls[c])
  BY <1>1, NotIdle DEF StorefrontInv, StagesKept
<1>3. /\ calls[c].kind = "order" /\ calls[c].page \in {"sent", "failed", "gone"}
      /\ calls' = [calls EXCEPT ![c] = new]
  BY <1>1, <1>2 DEF CallWith, Stages, Pages, Created, End
<1>4. Becomes(c, new)
  BY <1>1, <1>2, <1>3 DEF Becomes, CallWith, Stages, Pages
<1>5. Placed(c) # {} /\ new.job = "ended" /\ new.page # "refused"
      /\ new.page \notin {"denied", "refreshing"}
      /\ new.header = calls[c].header /\ (new.page = "sent" => calls[c].page = "sent")
  BY <1>1, <1>2, <1>3 DEF StorefrontInv, JobsRecorded, CallWith
<1> QED
  BY <1>1, <1>3, <1>4, <1>5, PageKeeps DEF Created, Waiting

-----------------------------------------------------------------------------
(* The customer's steps, and the theorems.                                 *)

\* A new call has no order, and is of the account shown.
LEMMA OpenKeeps ==
  ASSUME StorefrontInv, NEW c \in Clicks, NEW t \in Tabs, NEW u \in Account,
         SignIn(c, t, u) \/ Checkout(c, t)
  PROVE  StorefrontInv'
<1>1. calls[c] = Idle /\ UNCHANGED <<tabVars, cookie, orders, clock, mixed>>
  BY DEF SignIn, Checkout, Open, otherVars
<1>2. PICK new : /\ calls' = [calls EXCEPT ![c] = new]
                 /\ new \in CallWith(new.items)
                 /\ new.page = "sent" /\ new.job = "none"
                 /\ new.kind = "order" => /\ user[t] # None /\ new.account = user[t]
                                          /\ new.header = token[t]
  <2>1. CASE SignIn(c, t, u)
    <3> DEFINE r == [kind |-> "login", tab |-> t, account |-> u, items |-> <<>>,
                     header |-> NoToken, page |-> "sent", job |-> "none", via |-> None,
                     retried |-> FALSE]
    <3>1. r \in CallWith(r.items) /\ r.page = "sent" /\ r.job = "none" /\ r.kind # "order"
      BY DEF CallWith, Account, Header, NoToken, Pages
    <3>2. calls' = [calls EXCEPT ![c] = r]
      BY <2>1 DEF SignIn, Open
    <3> HIDE DEF r
    <3> QED
      BY <3>1, <3>2
  <2>2. CASE Checkout(c, t)
    <3> DEFINE r == [kind |-> "order", tab |-> t, account |-> user[t], items |-> bag[t],
                     header |-> token[t], page |-> "sent", job |-> "none", via |-> None,
                     retried |-> FALSE]
    <3>1. r \in CallWith(r.items) /\ r.page = "sent" /\ r.job = "none"
          /\ user[t] # None /\ r.account = user[t] /\ r.header = token[t]
      BY <2>2 DEF Checkout, CallWith, Account, Pages, StorefrontInv, Shape
    <3>2. calls' = [calls EXCEPT ![c] = r]
      BY <2>2 DEF Checkout, Open
    <3> HIDE DEF r
    <3> QED
      BY <3>1, <3>2
  <2> QED
    BY <2>1, <2>2
<1>3. calls'[c] = new /\ \A d \in Clicks \ {c} : calls'[d] = calls[d]
  BY <1>2 DEF StorefrontInv, Shape
<1>4. new # Idle /\ new.kind \in {"login", "order"}
  BY <1>2, IdleIsNoCall DEF CallWith
<1>5. \A i \in DOMAIN orders : orders[i].click # c
  BY <1>1 DEF StorefrontInv, RowsExplained
<1>6. Shape'
  <2>1. calls' = [d \in Clicks |-> calls'[d]]
    BY <1>2 DEF StorefrontInv, Shape
  <2> QED
    BY <1>1, <1>2, <1>3, <2>1 DEF StorefrontInv, Shape, tabVars
<1>7. StagesKept'
  BY <1>2, <1>3, <1>4 DEF StorefrontInv, StagesKept, Stages, Shape
<1>8. RowsExplained' /\ OneOrderPerClick'
  BY <1>1, <1>3, <1>5 DEF StorefrontInv, RowsExplained, OneOrderPerClick
<1>9. JobsRecorded'
  BY <1>1, <1>2, <1>3 DEF StorefrontInv, JobsRecorded, Placed
<1>10. OneAccount'
  <2> SUFFICES ASSUME ~ mixed PROVE OneAccount'
    BY <1>1 DEF OneAccount
  <2>1. new.kind = "order" => new.header.account = new.account /\ new.account = cookie
    BY <1>2 DEF StorefrontInv, OneAccount
  <2> QED
    BY <1>1, <1>2, <1>3, <1>5, <2>1 DEF StorefrontInv, OneAccount, RowsExplained, Waiting, tabVars
<1> QED
  BY <1>6, <1>7, <1>8, <1>9, <1>10 DEF StorefrontInv

\* A page that is gone waits for nothing and shows nobody.
LEMMA ReloadKeeps ==
  ASSUME StorefrontInv, NEW t \in Tabs, Reload(t)
  PROVE  StorefrontInv'
<1>1. \A c \in Clicks :
         calls'[c] = IF Waiting(c) /\ calls[c].tab = t
                     THEN [calls[c] EXCEPT !.page = "gone"] ELSE calls[c]
  BY DEF Reload
<1>2. calls' = [c \in Clicks |-> calls'[c]]
  BY DEF Reload
<1>3. \A c \in Clicks : Waiting(c) => calls[c] # Idle
  BY DEF Waiting, Idle
<1>4. ASSUME NEW c \in Clicks
      PROVE  \/ calls'[c] = calls[c]
             \/ /\ calls[c] # Idle /\ calls'[c] # Idle
                /\ calls'[c] \in CallWith(calls[c].items) /\ calls'[c].items = calls[c].items
                /\ calls'[c].page = "gone" /\ calls'[c].kind = calls[c].kind
                /\ calls'[c].job = calls[c].job /\ calls'[c].account = calls[c].account
                /\ calls'[c].header = calls[c].header
  <2>1. CASE Waiting(c) /\ calls[c].tab = t
    <3>1. calls[c] # Idle /\ calls[c] \in CallWith(calls[c].items)
      BY <2>1, <1>3, NotIdle DEF StorefrontInv
    <3>2. calls'[c] \in CallWith(calls[c].items) /\ calls'[c].items = calls[c].items
          /\ calls'[c].page = "gone" /\ calls'[c].kind = calls[c].kind
          /\ calls'[c].job = calls[c].job /\ calls'[c].account = calls[c].account
          /\ calls'[c].header = calls[c].header
      <4>1. calls'[c] = [calls[c] EXCEPT !.page = "gone"]
        BY <2>1, <1>1
      <4>2. calls'[c] \in CallWith(calls[c].items)
        BY <3>1, <4>1 DEF CallWith, Pages
      <4> QED
        BY <3>1, <4>1, <4>2 DEF CallWith
    <3> QED
      BY <3>1, <3>2, IdleIsNoCall
  <2> QED
    BY <2>1, <1>1
<1>5. Shape'
  <2>1. user' \in [Tabs -> Account] /\ token' \in [Tabs -> Header]
    BY DEF Reload, StorefrontInv, Shape, Account, Header, NoToken
  <2>2. \A c \in Clicks : calls'[c] = Idle \/ calls'[c] \in CallWith(calls'[c].items)
    BY <1>4 DEF StorefrontInv, Shape
  <2> QED
    BY <1>2, <2>1, <2>2 DEF Reload, StorefrontInv, Shape
<1>6. StagesKept'
  BY <1>4 DEF StorefrontInv, StagesKept, Stages
<1>7. RowsExplained' /\ OneOrderPerClick'
  BY <1>4 DEF StorefrontInv, RowsExplained, OneOrderPerClick, Reload
<1>8. JobsRecorded'
  BY <1>4 DEF StorefrontInv, JobsRecorded, Placed, Reload
<1>9. OneAccount'
  <2> SUFFICES ASSUME ~ mixed PROVE OneAccount'
    BY DEF OneAccount, Reload
  <2>1. \A s \in Tabs : user'[s] # None =>
          user'[s] = cookie' /\ token'[s].account = user'[s]
    BY DEF StorefrontInv, OneAccount, Reload, Shape
  <2>2. \A d \in Clicks : calls'[d] # Idle =>
         /\ calls'[d].kind = "order" => calls'[d].header.account = calls'[d].account
         /\ calls'[d].kind = "order" /\ Waiting(d)' => calls'[d].account = cookie'
         /\ calls'[d].page = "refreshing" => calls'[d].via \in {cookie', None}
    BY <1>4 DEF StorefrontInv, OneAccount, Waiting, Reload
  <2>3. \A i \in DOMAIN orders' : orders'[i].account = calls'[orders'[i].click].account
    BY <1>4 DEF StorefrontInv, OneAccount, RowsExplained, Reload
  <2> QED
    BY <2>1, <2>2, <2>3 DEF OneAccount
<1> QED
  BY <1>5, <1>6, <1>7, <1>8, <1>9 DEF StorefrontInv

\* The bag, and a tick of the clock, are of no account and no call.
LEMMA ElsewhereKeeps ==
  ASSUME StorefrontInv, UNCHANGED <<user, token, cookie, calls, orders, mixed>>,
         clock' \in Nat
  PROVE  StorefrontInv'
<1>1. Shape'
  BY DEF StorefrontInv, Shape
<1>2. StagesKept' /\ RowsExplained' /\ OneOrderPerClick' /\ JobsRecorded'
  BY DEF StorefrontInv, StagesKept, Stages, RowsExplained, OneOrderPerClick, JobsRecorded, Placed
<1>3. OneAccount'
  BY DEF StorefrontInv, OneAccount, Waiting
<1> QED
  BY <1>1, <1>2, <1>3 DEF StorefrontInv

\* The browser's pages, calls and orders keep to StorefrontInv.
THEOREM StorefrontInvariant == Spec => []StorefrontInv
<1>1. ASSUME StorefrontInv, [Next]_vars PROVE StorefrontInv'
  <2> USE <1>1
  <2>1. clock \in Nat
    BY DEF StorefrontInv, Shape
  <2>2. ASSUME NEW c \in Clicks, Proceed(c) \/ CutOff(c) \/ GivenUp(c) \/ CreateFails(c)
        PROVE  StorefrontInv'
    BY <2>2, PageSteps, SignInKeeps, RefreshedKeeps, CreateKeeps, CreatedKeeps DEF Proceed
  <2>3. ASSUME NEW t \in Tabs, Reload(t) PROVE StorefrontInv'
    BY <2>3, ReloadKeeps
  <2>4. CASE Customer
    <3>1. ASSUME NEW t \in Tabs, NEW p \in Products, Add(t, p) \/ Remove(t, p)
          PROVE  StorefrontInv'
      BY <3>1, <2>1, ElsewhereKeeps DEF Add, Remove
    <3>2. ASSUME NEW t \in Tabs, NEW c \in Clicks, NEW u \in Account,
                 SignIn(c, t, u) \/ Checkout(c, t)
          PROVE  StorefrontInv'
      BY <3>2, OpenKeeps
    <3>3. None \in Account
      BY DEF Account
    <3> QED
      BY <2>4, <3>1, <3>2, <3>3 DEF Customer, Account
  <2>5. CASE Tick
    BY <2>5, <2>1, ElsewhereKeeps DEF Tick, tabVars
  <2>6. CASE UNCHANGED vars
    BY <2>6, <2>1, ElsewhereKeeps DEF vars, tabVars
  <2> QED
    BY <2>2, <2>3, <2>4, <2>5, <2>6 DEF Next, Fault
<1> QED
  BY <1>1, InitEstablishes, PTL DEF Spec

-----------------------------------------------------------------------------
(* What createOrder makes of the items, by induction on their number.      *)

\* Induction, for a set rather than a formula with a parameter.
LEMMA Induction ==
  ASSUME NEW S, 0 \in S, \A n \in Nat : n \in S => n + 1 \in S
  PROVE  Nat \subseteq S
<1> SUFFICES ASSUME Nat \ S # {} PROVE FALSE
  OBVIOUS
<1> DEFINE R == OpToRel(<, Nat)
<1>1. PICK n \in Nat \ S : \A m \in Nat \ S : ~ (<<m, n>> \in R)
  <2> HIDE DEF R
  <2>1. Nat \ S \subseteq Nat
    OBVIOUS
  <2>2. IsWellFoundedOn(R, Nat)
    BY NatLessThanWellFounded DEF R
  <2> QED
    BY <2>1, <2>2, WFMin
<1>2. \A m \in Nat : m < n => m \in S
  BY <1>1 DEF OpToRel
<1>3. n # 0 /\ n - 1 \in Nat
  OBVIOUS
<1>4. n - 1 \in S
  BY <1>2, <1>3
<1> QED
  BY <1>3, <1>4

\* The recursive definition of Requested defines what it says.
LEMMA RequestedStep ==
  ASSUME NEW items \in Seq(Line)
  PROVE  /\ Requested(items)[0] = <<>>
         /\ \A n \in 1..Len(items) :
              Requested(items)[n] = Count(Requested(items)[n - 1], items[n])
<1> DEFINE Loop(f, N) ==
             f = [n \in 0..N |-> IF n = 0 THEN <<>> ELSE Count(f[n - 1], items[n])]
<1>1. \A N \in Nat : \E f : Loop(f, N)
  <2> DEFINE S == {N \in Nat : \E f : Loop(f, N)}
  <2>1. 0 \in S
    <3>1. Loop([n \in 0..0 |-> <<>>], 0)
      OBVIOUS
    <3> QED
      BY <3>1
  <2>2. ASSUME NEW N \in Nat, N \in S PROVE N + 1 \in S
    <3>1. PICK f : Loop(f, N)
      BY <2>2
    <3> DEFINE g == [n \in 0..(N + 1) |->
                       IF n = N + 1 THEN Count(f[N], items[N + 1]) ELSE f[n]]
    <3>2. Loop(g, N + 1)
      <4> SUFFICES ASSUME NEW n \in 0..(N + 1)
                   PROVE  g[n] = (IF n = 0 THEN <<>> ELSE Count(g[n - 1], items[n]))
        OBVIOUS
      <4>1. CASE n = N + 1
        BY <4>1
      <4>2. CASE n # N + 1
        <5>1. n \in 0..N /\ f[n] = (IF n = 0 THEN <<>> ELSE Count(f[n - 1], items[n]))
          BY <4>2, <3>1
        <5>2. n # 0 => n - 1 \in 0..N
          BY <5>1
        <5> QED
          BY <5>1, <5>2, <4>2
      <4> QED
        BY <4>1, <4>2
    <3> HIDE DEF g, Loop
    <3>3. \E h : Loop(h, N + 1)
      BY <3>2
    <3> QED
      BY <3>3
  <2> HIDE DEF S
  <2>3. Nat \subseteq S
    BY <2>1, <2>2, Induction
  <2> QED
    BY <2>3 DEF S
<1>2. Requested(items) = CHOOSE f : Loop(f, Len(items))
  BY DEF Requested
<1>3. Loop(Requested(items), Len(items))
  BY <1>1, <1>2
<1> QED
  BY <1>3

Asked(items) == {items[i].prodId : i \in DOMAIN items}

\* A product that is asked for has a first place, and only one.
LEMMA FirstPlace ==
  ASSUME NEW items \in Seq(Line), NEW p \in Asked(items)
  PROVE  /\ First(items, p) \in DOMAIN items /\ items[First(items, p)].prodId = p
         /\ \A j \in 1..(First(items, p) - 1) : items[j].prodId # p
         /\ \A i \in DOMAIN items :
              items[i].prodId = p /\ (\A j \in 1..(i - 1) : items[j].prodId # p)
                => i = First(items, p)
<1> DEFINE R == OpToRel(<, Nat)
           T == {i \in DOMAIN items : items[i].prodId = p}
           IsFirst(i) == items[i].prodId = p /\ \A j \in 1..(i - 1) : items[j].prodId # p
<1>1. T \subseteq Nat /\ T # {}
  BY DEF Asked
<1>2. PICK i \in T : \A j \in T : ~ (<<j, i>> \in R)
  <2> HIDE DEF R, T
  <2>1. IsWellFoundedOn(R, Nat)
    BY NatLessThanWellFounded DEF R
  <2> QED
    BY <2>1, <1>1, WFMin
<1>3. \A j \in T : ~ (j < i)
  BY <1>1, <1>2 DEF OpToRel
<1>4. i \in DOMAIN items /\ IsFirst(i)
  <2>1. i \in 1..Len(items) /\ Len(items) \in Nat
    OBVIOUS
  <2>2. ASSUME NEW j \in 1..(i - 1) PROVE items[j].prodId # p
    BY <2>1, <1>3
  <2> QED
    BY <2>2
<1>5. First(items, p) \in DOMAIN items /\ IsFirst(First(items, p))
  <2> HIDE DEF IsFirst
  <2>1. First(items, p) = CHOOSE k \in DOMAIN items : IsFirst(k)
    BY DEF First, IsFirst
  <2> QED
    BY <2>1, <1>4
<1>6. ASSUME NEW k \in DOMAIN items, IsFirst(k) PROVE k = First(items, p)
  <2> DEFINE m == First(items, p)
  <2>1. k \in Nat /\ m \in Nat /\ k >= 1 /\ m >= 1
    BY <1>5
  <2> HIDE DEF m
  <2>2. ~ (k < m) /\ ~ (m < k)
    BY <2>1, <1>5, <1>6 DEF m
  <2> QED
    BY <2>1, <2>2 DEF m
<1> QED
  BY <1>5, <1>6

\* The units of an item are as many as its quantity.
LEMMA UnitsOfItem ==
  ASSUME NEW n, NEW q \in Nat
  PROVE  LET units == {<<n, k>> : k \in 1..q}
         IN  IsFiniteSet(units) /\ Cardinality(units) = q
<1> DEFINE units == {<<n, k>> : k \in 1..q}
           f == [k \in 1..q |-> <<n, k>>]
<1>1. f \in Bijection(1..q, units)
  BY DEF Bijection, Injection, Surjection, IsInjective
<1>2. IsFiniteSet(1..q) /\ Cardinality(1..q) = q
  BY FS_Interval
<1>3. ExistsBijection(1..q, units)
  BY <1>1 DEF ExistsBijection
<1> HIDE DEF units
<1>4. IsFiniteSet(units) /\ Cardinality(units) = q
  BY <1>2, <1>3, FS_Bijection
<1> QED
  BY <1>4 DEF units

\* One more item adds its units to those of its product.
LEMMA UnitsAdd ==
  ASSUME NEW items \in Seq(Line), NEW item \in Line, NEW p,
         IsFiniteSet(Units(items, p))
  PROVE  LET more == Units(Append(items, item), p)
         IN  /\ IsFiniteSet(more)
             /\ Cardinality(more) = Cardinality(Units(items, p)) +
                                    (IF p = item.prodId THEN item.quantity ELSE 0)
<1> DEFINE n    == Len(items) + 1
           all  == Append(items, item)
           new  == {<<n, k>> : k \in 1..item.quantity}
           at(s) == {j \in DOMAIN s : s[j].prodId = p}
<1>1. /\ DOMAIN all = DOMAIN items \cup {n} /\ all[n] = item /\ n \notin DOMAIN items
      /\ \A i \in DOMAIN items : all[i] = items[i]
  OBVIOUS
<1>2. item.quantity \in Nat
  BY DEF Line
<1>3. IsFiniteSet(new) /\ Cardinality(new) = item.quantity
  BY <1>2, UnitsOfItem
<1>4. Cardinality(Units(items, p)) \in Nat
  BY FS_CardinalityType
<1> HIDE DEF all, n
<1>5. CASE p = item.prodId
  <2>1. at(all) = at(items) \cup {n}
    BY <1>1, <1>5
  <2>2. Units(all, p) = Units(items, p) \cup new
    BY <1>1, <2>1 DEF Units
  <2>3. Units(items, p) \cap new = {}
    BY <1>1 DEF Units
  <2> HIDE DEF new
  <2>4. /\ IsFiniteSet(Units(all, p))
        /\ Cardinality(Units(all, p)) = Cardinality(Units(items, p)) + item.quantity
    BY <2>2, <2>3, <1>2, <1>3, <1>4, FS_Union, FS_EmptySet
  <2> QED
    BY <2>4, <1>5 DEF all
<1>6. CASE p # item.prodId
  <2>1. at(all) = at(items)
    BY <1>1, <1>6
  <2>2. Units(all, p) = Units(items, p)
    BY <1>1, <2>1 DEF Units
  <2> QED
    BY <2>2, <1>4, <1>6 DEF all
<1> QED
  BY <1>5, <1>6

\* A product keeps its first place; a new one comes last.
LEMMA FirstAdds ==
  ASSUME NEW items \in Seq(Line), NEW item \in Line
  PROVE  LET all == Append(items, item)
         IN  /\ Asked(all) = Asked(items) \cup {item.prodId}
             /\ \A p \in Asked(items) :
                  First(all, p) = First(items, p) /\ First(items, p) \in 1..Len(items)
             /\ item.prodId \notin Asked(items) => First(all, item.prodId) = Len(items) + 1
<1> DEFINE n   == Len(items) + 1
           all == Append(items, item)
<1>1. /\ DOMAIN all = DOMAIN items \cup {n} /\ all[n] = item /\ n \notin DOMAIN items
      /\ \A i \in DOMAIN items : all[i] = items[i]
      /\ DOMAIN items = 1..(n - 1) /\ n \in Nat /\ all \in Seq(Line)
  OBVIOUS
<1> HIDE DEF all, n
<1>2. Asked(all) = Asked(items) \cup {item.prodId}
  BY <1>1 DEF Asked
<1>3. ASSUME NEW p \in Asked(items)
      PROVE  First(all, p) = First(items, p) /\ First(items, p) \in DOMAIN items
  <2> DEFINE m == First(items, p)
  <2>1. m \in DOMAIN items /\ items[m].prodId = p /\ \A j \in 1..(m - 1) : items[j].prodId # p
    BY FirstPlace
  <2> HIDE DEF m
  <2>2. m \in DOMAIN all /\ all[m].prodId = p /\ \A j \in 1..(m - 1) : all[j].prodId # p
    BY <2>1, <1>1
  <2>3. p \in Asked(all)
    BY <1>2
  <2>4. m = First(all, p)
    BY <2>2, <2>3, <1>1, FirstPlace
  <2> QED
    BY <2>1, <2>4 DEF m
<1>4. ASSUME item.prodId \notin Asked(items) PROVE First(all, item.prodId) = n
  <2>1. n \in DOMAIN all /\ \A j \in 1..(n - 1) : all[j].prodId # item.prodId
    BY <1>1, <1>4 DEF Asked
  <2>2. item.prodId \in Asked(all)
    BY <1>2
  <2> QED
    BY <2>1, <2>2, <1>1, FirstPlace
<1> QED
  BY <1>1, <1>2, <1>3, <1>4 DEF all, n

\* What the loop has made of the items so far.
CountedUp(items, lines) ==
  /\ lines \in Seq(Line) /\ AddsUp(items, lines)
  /\ \A p \in Products : IsFiniteSet(Units(items, p))

\* The entry of a product is what was asked for of it, also when it has none.
LEMMA EntryIsUnits ==
  ASSUME NEW items \in Seq(Line), NEW lines, CountedUp(items, lines), NEW p \in Products
  PROVE  Entry(lines, p) = Cardinality(Units(items, p))
<1>1. CASE \E i \in DOMAIN lines : lines[i].prodId = p
  <2> DEFINE found == CHOOSE i \in DOMAIN lines : lines[i].prodId = p
  <2>1. found \in DOMAIN lines /\ lines[found].prodId = p
    BY <1>1
  <2>2. Entry(lines, p) = lines[found].quantity
    BY <1>1 DEF Entry
  <2> QED
    BY <2>1, <2>2 DEF CountedUp, AddsUp
<1>2. CASE ~ \E i \in DOMAIN lines : lines[i].prodId = p
  <2>1. {j \in DOMAIN items : items[j].prodId = p} = {}
    BY <1>2 DEF CountedUp, AddsUp
  <2>2. Units(items, p) = {}
    BY <2>1 DEF Units
  <2> QED
    BY <1>2, <2>2, FS_EmptySet DEF Entry
<1> QED
  BY <1>1, <1>2

\* No two lines are for the same product.
LEMMA LinesDiffer ==
  ASSUME NEW items \in Seq(Line), NEW lines, CountedUp(items, lines),
         NEW i \in DOMAIN lines, NEW j \in DOMAIN lines, lines[i].prodId = lines[j].prodId
  PROVE  i = j
<1>1. lines[i].prodId \in Asked(items)
  BY DEF CountedUp, AddsUp, Asked
<1>2. First(items, lines[i].prodId) \in Nat
  BY <1>1, FirstPlace
<1>3. i \in Nat /\ j \in Nat
  BY DEF CountedUp
<1>4. ~ (i < j) /\ ~ (j < i)
  BY <1>2 DEF CountedUp, AddsUp
<1> QED
  BY <1>3, <1>4

\* One turn of the loop of createOrder.
LEMMA CountKeeps ==
  ASSUME NEW items \in Seq(Line), NEW item \in Line, NEW lines, CountedUp(items, lines)
  PROVE  CountedUp(Append(items, item), Count(lines, item))
<1> DEFINE p    == item.prodId
           all  == Append(items, item)
           new  == Count(lines, item)
           size == Entry(lines, p) + item.quantity
<1>1. /\ p \in Products /\ item.quantity \in Nat \ {0} /\ lines \in Seq(Line)
      /\ \A q \in Products : IsFiniteSet(Units(items, q))
      /\ {lines[i].prodId : i \in DOMAIN lines} = Asked(items)
      /\ \A i, j \in DOMAIN lines : i < j =>
           First(items, lines[i].prodId) < First(items, lines[j].prodId)
      /\ \A i \in DOMAIN lines :
           lines[i].quantity = Cardinality(Units(items, lines[i].prodId))
  BY DEF CountedUp, AddsUp, Line, Asked
<1>2. \A i \in DOMAIN lines : lines[i] \in Line /\ lines[i].prodId \in Products
  <2>1. \A i \in DOMAIN lines : lines[i] \in Line
    BY <1>1
  <2> QED
    BY <2>1 DEF Line
<1>3. /\ Asked(all) = Asked(items) \cup {p}
      /\ \A q \in Asked(items) :
           First(all, q) = First(items, q) /\ First(items, q) \in 1..Len(items)
      /\ p \notin Asked(items) => First(all, p) = Len(items) + 1
  BY FirstAdds
<1>4. \A q \in Products :
        /\ IsFiniteSet(Units(all, q))
        /\ Cardinality(Units(all, q)) =
             Cardinality(Units(items, q)) + (IF q = p THEN item.quantity ELSE 0)
  BY <1>1, UnitsAdd
<1>5. /\ \A q \in Products : Cardinality(Units(items, q)) \in Nat
      /\ size = Cardinality(Units(all, p)) /\ size \in Nat \ {0}
  BY <1>1, <1>4, EntryIsUnits, FS_CardinalityType
<1> HIDE DEF all, size
<1>6. CASE \E i \in DOMAIN lines : lines[i].prodId = p
  <2>1. new = [i \in DOMAIN lines |-> IF lines[i].prodId = p
                                      THEN [lines[i] EXCEPT !.quantity = size]
                                      ELSE lines[i]]
    BY <1>6 DEF Count, SetEntry, size
  <2> HIDE DEF new
  <2>2. ASSUME NEW i \in DOMAIN lines
        PROVE  /\ new[i] \in Line /\ new[i].prodId = lines[i].prodId
               /\ new[i].quantity = Cardinality(Units(all, new[i].prodId))
    <3>1. CASE lines[i].prodId = p
      <4>1. new[i] = [lines[i] EXCEPT !.quantity = size]
        BY <2>1, <3>1
      <4> QED
        BY <1>2, <1>5, <3>1, <4>1 DEF Line
    <3>2. CASE lines[i].prodId # p
      BY <2>1, <3>2, <1>1, <1>2, <1>4, <1>5
    <3> QED
      BY <3>1, <3>2
  <2>3. DOMAIN new = DOMAIN lines /\ new \in Seq(Line)
    BY <2>1, <2>2, <1>1
  <2>4. {new[i].prodId : i \in DOMAIN new} = Asked(all)
    BY <2>2, <2>3, <1>1, <1>3, <1>6
  <2>5. \A i, j \in DOMAIN new : i < j =>
          First(all, new[i].prodId) < First(all, new[j].prodId)
    <3>1. \A i \in DOMAIN new : new[i].prodId = lines[i].prodId /\ lines[i].prodId \in Asked(items)
      BY <2>2, <2>3, <1>1
    <3> QED
      BY <2>3, <3>1, <1>1, <1>3
  <2>6. CountedUp(all, new)
    BY <2>2, <2>3, <2>4, <2>5, <1>4 DEF CountedUp, AddsUp, Asked
  <2> QED
    BY <2>6 DEF all, new
<1>7. CASE ~ \E i \in DOMAIN lines : lines[i].prodId = p
  <2> DEFINE n    == Len(lines) + 1
             line == [item EXCEPT !.quantity = size]
  <2>1. new = Append(lines, line)
    BY <1>7 DEF Count, SetEntry, size
  <2>2. line \in Line /\ line.prodId = p /\ line.quantity = size
    BY <1>1, <1>5 DEF Line
  <2> HIDE DEF new, line
  <2>3. /\ new \in Seq(Line) /\ DOMAIN new = DOMAIN lines \cup {n} /\ new[n] = line
        /\ \A i \in DOMAIN lines : new[i] = lines[i] /\ i < n
        /\ n \notin DOMAIN lines /\ n \in Nat
    BY <2>1, <2>2, <1>1
  <2> HIDE DEF n
  <2>4. p \notin Asked(items)
    BY <1>1, <1>7
  <2>5. {new[i].prodId : i \in DOMAIN new} = Asked(all)
    BY <2>2, <2>3, <1>1, <1>3
  <2>6. ASSUME NEW i \in DOMAIN new, NEW j \in DOMAIN new, i < j
        PROVE  First(all, new[i].prodId) < First(all, new[j].prodId)
    <3>1. i \in DOMAIN lines
      BY <2>3, <2>6, <1>1
    <3>2. lines[i].prodId \in Asked(items) /\ new[i] = lines[i]
      BY <3>1, <2>3, <1>1
    <3>3. CASE j = n
      BY <3>2, <3>3, <2>2, <2>3, <2>4, <1>3
    <3>4. CASE j \in DOMAIN lines
      <4>1. lines[j].prodId \in Asked(items) /\ new[j] = lines[j]
        BY <3>4, <2>3, <1>1
      <4> QED
        BY <3>1, <3>2, <3>4, <4>1, <2>6, <1>1, <1>3
    <3> QED
      BY <3>3, <3>4, <2>3
  <2>7. ASSUME NEW i \in DOMAIN new
        PROVE  new[i].quantity = Cardinality(Units(all, new[i].prodId))
    <3>1. CASE i = n
      BY <3>1, <2>2, <2>3, <1>5
    <3>2. CASE i \in DOMAIN lines
      BY <3>2, <2>3, <1>1, <1>2, <1>4, <1>5, <1>7
    <3> QED
      BY <3>1, <3>2, <2>3
  <2>8. CountedUp(all, new)
    BY <2>3, <2>5, <2>6, <2>7, <1>4 DEF CountedUp, AddsUp, Asked
  <2> QED
    BY <2>8 DEF all, new
<1> QED
  BY <1>6, <1>7

\* What createOrder makes of any items adds up.
LEMMA MergeCorrect ==
  ASSUME NEW items \in Seq(Line)
  PROVE  AddsUp(items, Merge(items))
<1> DEFINE S == {n \in Nat : n <= Len(items) =>
                               CountedUp(SubSeq(items, 1, n), Requested(items)[n])}
<1>1. 0 \in S
  <2>1. SubSeq(items, 1, 0) = <<>> /\ Requested(items)[0] = <<>>
    BY RequestedStep
  <2>2. \A p \in Products : Units(<<>>, p) = {}
    BY DEF Units
  <2>3. AddsUp(<<>>, <<>>)
    BY DEF AddsUp
  <2>4. CountedUp(<<>>, <<>>)
    <3>1. \A p \in Products : IsFiniteSet(Units(<<>>, p))
      BY <2>2, FS_EmptySet
    <3>2. <<>> \in Seq(Line)
      OBVIOUS
    <3> QED
      BY <2>3, <3>1, <3>2 DEF CountedUp
  <2> QED
    BY <2>1, <2>4
<1>2. ASSUME NEW n \in Nat, n \in S PROVE n + 1 \in S
  <2> SUFFICES ASSUME n + 1 <= Len(items)
               PROVE  CountedUp(SubSeq(items, 1, n + 1), Requested(items)[n + 1])
    OBVIOUS
  <2> DEFINE some == SubSeq(items, 1, n)
  <2>1. n + 1 \in 1..Len(items) /\ items[n + 1] \in Line /\ some \in Seq(Line)
    OBVIOUS
  <2>2. SubSeq(items, 1, n + 1) = Append(some, items[n + 1])
    BY <2>1
  <2>3. Requested(items)[n + 1] = Count(Requested(items)[n], items[n + 1])
    BY <2>1, RequestedStep
  <2>4. CountedUp(some, Requested(items)[n])
    BY <1>2
  <2> HIDE DEF some
  <2> QED
    BY <2>1, <2>2, <2>3, <2>4, CountKeeps
<1>3. Len(items) \in S
  <2> HIDE DEF S
  <2> QED
    BY <1>1, <1>2, Induction
<1>4. CountedUp(SubSeq(items, 1, Len(items)), Requested(items)[Len(items)])
  BY <1>3
<1>5. CountedUp(items, Requested(items)[Len(items)])
  <2>1. SubSeq(items, 1, Len(items)) = items
    OBVIOUS
  <2> QED
    BY <1>4, <2>1, Zenon
<1> QED
  BY <1>5 DEF CountedUp, Merge

-----------------------------------------------------------------------------
(* The types, with what the bags and the times of the tokens are.          *)

Timely(header) == header.iat \in 0..MaxTime

\* The bags are as `add' keeps them, what is sent is a bag, and no token is
\* from the future.
Contents ==
  /\ clock \in 0..MaxTime
  /\ bag = [t \in Tabs |-> bag[t]]
  /\ \A t \in Tabs : IsBag(bag[t]) /\ Timely(token[t])
  /\ \A c \in Clicks : calls[c] # Idle =>
       calls[c].items \in Seq(Line) /\ Timely(calls[c].header)

\* One more of p, in its line or in one of its own.
LEMMA AddKeepsBag ==
  ASSUME StorefrontAssumption, NEW p \in Products, NEW lines, IsBag(lines),
         Shelf[p] > 0, Entry(lines, p) < Shelf[p]
  PROVE  IsBag(SetEntry(lines, [prodId |-> p, quantity |-> 1], Entry(lines, p) + 1))
<1> DEFINE item == [prodId |-> p, quantity |-> 1]
           n    == Entry(lines, p) + 1
           new  == SetEntry(lines, item, n)
<1>1. lines \in Seq(Line) /\ Shelf[p] \in Nat
  BY DEF IsBag, Line, StorefrontAssumption
<1>2. \A i \in DOMAIN lines : lines[i] \in Line
  BY <1>1
<1>3. Entry(lines, p) \in Nat
  <2> DEFINE found == CHOOSE i \in DOMAIN lines : lines[i].prodId = p
  <2>1. CASE \E i \in DOMAIN lines : lines[i].prodId = p
    <3>1. found \in DOMAIN lines
      BY <2>1
    <3>2. lines[found].quantity \in Nat
      BY <3>1, <1>2 DEF Line
    <3> QED
      BY <2>1, <3>2 DEF Entry
  <2>2. CASE ~ \E i \in DOMAIN lines : lines[i].prodId = p
    BY <2>2 DEF Entry
  <2> QED
    BY <2>1, <2>2
<1>4. n \in Nat \ {0} /\ n <= Shelf[p]
  BY <1>1, <1>3
<1>5. CASE \E i \in DOMAIN lines : lines[i].prodId = p
  <2>1. new = [i \in DOMAIN lines |-> IF lines[i].prodId = p
                                      THEN [lines[i] EXCEPT !.quantity = n]
                                      ELSE lines[i]]
    BY <1>5 DEF SetEntry
  <2> HIDE DEF n, new
  <2>2. \A i \in DOMAIN lines :
          /\ new[i] \in Line /\ new[i].prodId = lines[i].prodId
          /\ new[i].quantity <= Shelf[new[i].prodId]
    <3> SUFFICES ASSUME NEW i \in DOMAIN lines
                 PROVE  /\ new[i] \in Line /\ new[i].prodId = lines[i].prodId
                        /\ new[i].quantity <= Shelf[new[i].prodId]
      OBVIOUS
    <3>1. lines[i] \in Line /\ lines[i].quantity <= Shelf[lines[i].prodId]
      BY <1>2 DEF IsBag
    <3>2. CASE lines[i].prodId = p
      <4>1. new[i] = [lines[i] EXCEPT !.quantity = n]
        BY <2>1, <3>2
      <4> QED
        BY <3>1, <3>2, <4>1, <1>4 DEF Line
    <3>3. CASE lines[i].prodId # p
      BY <2>1, <3>1, <3>3
    <3> QED
      BY <3>2, <3>3
  <2>3. DOMAIN new = DOMAIN lines /\ new \in Seq(Line)
    BY <2>1, <2>2, <1>1
  <2>4. IsBag(new)
    BY <2>2, <2>3 DEF IsBag, Line
  <2> QED
    BY <2>4 DEF new, n
<1>6. CASE ~ \E i \in DOMAIN lines : lines[i].prodId = p
  <2> DEFINE line == [prodId |-> p, quantity |-> n]
  <2>1. new = Append(lines, line)
    BY <1>6 DEF SetEntry
  <2> HIDE DEF n, new
  <2>2. line \in Line /\ line.prodId = p /\ line.quantity = n
    BY <1>4 DEF Line
  <2> HIDE DEF line
  <2>3. /\ new \in Seq(Line) /\ Len(new) = Len(lines) + 1 /\ new[Len(lines) + 1] = line
        /\ \A i \in DOMAIN lines : new[i] = lines[i]
        /\ DOMAIN new = DOMAIN lines \cup {Len(lines) + 1}
    BY <2>1, <2>2, <1>1
  <2>4. \A i \in DOMAIN new : new[i].quantity <= Shelf[new[i].prodId]
    BY <2>2, <2>3, <1>4 DEF IsBag
  <2>5. \A i, j \in DOMAIN new : new[i].prodId = new[j].prodId => i = j
    BY <2>2, <2>3, <1>6 DEF IsBag
  <2>6. IsBag(new)
    BY <2>3, <2>4, <2>5 DEF IsBag, Line
  <2> QED
    BY <2>6 DEF new, n
<1> QED
  BY <1>5, <1>6

\* A bag without its i-th line.
LEMMA RemoveKeepsBag ==
  ASSUME NEW lines, IsBag(lines), NEW i \in DOMAIN lines
  PROVE  IsBag(SubSeq(lines, 1, i - 1) \o SubSeq(lines, i + 1, Len(lines)))
<1> DEFINE new == SubSeq(lines, 1, i - 1) \o SubSeq(lines, i + 1, Len(lines))
           from(j) == IF j < i THEN j ELSE j + 1
<1>1. lines \in Seq(Line)
  BY DEF IsBag, Line
<1> DEFINE front == SubSeq(lines, 1, i - 1)
           rest  == SubSeq(lines, i + 1, Len(lines))
<1>2. i \in 1..Len(lines) /\ Len(lines) \in Nat
  BY <1>1
<1>3. /\ front \in Seq(Line) /\ Len(front) = i - 1
      /\ \A j \in 1..(i - 1) : front[j] = lines[j]
  BY <1>1, <1>2
<1>4. /\ rest \in Seq(Line) /\ Len(rest) = Len(lines) - i
      /\ \A j \in 1..(Len(lines) - i) : rest[j] = lines[i + j]
  BY <1>1, <1>2
<1> HIDE DEF front, rest
<1>5. new = front \o rest
  BY DEF front, rest
<1> HIDE DEF new
<1>6. new \in Seq(Line) /\ Len(new) = Len(lines) - 1
  BY <1>2, <1>3, <1>4, <1>5
<1>7. \A j \in DOMAIN new : from(j) \in DOMAIN lines /\ new[j] = lines[from(j)]
  <2> SUFFICES ASSUME NEW j \in 1..(Len(lines) - 1)
               PROVE  from(j) \in DOMAIN lines /\ new[j] = lines[from(j)]
    BY <1>6, <1>2
  <2>1. CASE j < i
    BY <2>1, <1>1, <1>2, <1>3, <1>4, <1>5
  <2>2. CASE ~ (j < i)
    <3>1. j \in (Len(front) + 1)..(Len(front) + Len(rest))
      BY <2>2, <1>2, <1>3, <1>4
    <3>2. new[j] = rest[j - Len(front)]
      <4>1. front \in Seq(Line) /\ rest \in Seq(Line)
        BY <1>3, <1>4
      <4>2. (front \o rest)[j] = rest[j - Len(front)]
        BY <3>1, <4>1
      <4> QED
        BY <4>2, <1>5
    <3>3. rest[j - (i - 1)] = lines[j + 1]
      BY <2>2, <1>2, <1>4
    <3> QED
      BY <2>2, <3>2, <3>3, <1>1, <1>2, <1>3
  <2> QED
    BY <2>1, <2>2
<1>8. \A j, k \in DOMAIN new : from(j) = from(k) => j = k
  BY <1>6
<1> HIDE DEF from
<1>9. IsBag(new)
  BY <1>6, <1>7, <1>8 DEF IsBag, Line
<1> QED
  BY <1>9 DEF new

\* At the start the bags are empty and the tokens from time 0.
LEMMA InitContents == Init => Contents
<1> SUFFICES ASSUME Init PROVE Contents
  OBVIOUS
<1> USE StorefrontAssumption DEF Init
<1>1. \A t \in Tabs : bag[t] = <<>> /\ token[t].iat = 0
  OBVIOUS
<1>2. IsBag(<<>>)
  BY DEF IsBag
<1> QED
  BY <1>1, <1>2 DEF Contents, Timely

\* What a step makes of bags, tokens and calls, put together.
LEMMA ContentsFrom ==
  ASSUME StorefrontInv, Contents, clock' \in 0..MaxTime,
         bag' = [t \in Tabs |-> bag'[t]],
         \A t \in Tabs : IsBag(bag'[t]) /\ (token'[t] = token[t] \/ Timely(token'[t])),
         \A c \in Clicks : calls'[c] # Idle =>
           \/ /\ calls[c] # Idle /\ calls'[c].items = calls[c].items
              /\ calls'[c].header = calls[c].header \/ Timely(calls'[c].header)
           \/ calls'[c].items \in Seq(Line) /\ Timely(calls'[c].header)
  PROVE  Contents'
BY DEF Contents, Timely

\* A call keeps what it carries, whatever becomes of it; a refresh gives it
\* a token of the moment.
LEMMA CallsCarry ==
  ASSUME StorefrontInv, Contents, NEW c \in Clicks,
         Proceed(c) \/ CutOff(c) \/ GivenUp(c) \/ CreateFails(c)
  PROVE  \A d \in Clicks : calls'[d] # Idle =>
           /\ calls[d] # Idle /\ calls'[d].items = calls[d].items
           /\ calls'[d].header = calls[d].header \/ Timely(calls'[d].header)
<1>1. calls[c] # Idle
  BY DEF Proceed, SignedIn, Denied, Refresh, Refreshed, RefreshFails, RateLimited, Accept,
     Unprocessable, Unavailable, Create, Created, CutOff, GivenUp, CreateFails, Waits, Working,
     Arrives, Idle
<1>2. calls[c] \in CallWith(calls[c].items) /\ calls = [d \in Clicks |-> calls[d]]
  BY <1>1, NotIdle DEF StorefrontInv, Shape
<1>3. calls'[c].items = calls[c].items
      /\ calls'[c].header \in {calls[c].header, [account |-> calls[c].via, iat |-> clock]}
  BY <1>2 DEF CallWith, Proceed, SignedIn, Denied, Refresh, Refreshed, RefreshFails, RateLimited,
     Accept, Unprocessable, Unavailable, Create, Created, CutOff, GivenUp, CreateFails, Show, End
<1>4. \A d \in Clicks \ {c} : calls'[d] = calls[d]
  BY <1>2 DEF Proceed, SignedIn, Denied, Refresh, Refreshed, RefreshFails, RateLimited,
     Accept, Unprocessable, Unavailable, Create, Created, CutOff, GivenUp, CreateFails, Show, End
<1>5. Timely([account |-> calls[c].via, iat |-> clock])
  BY DEF Contents, Timely
<1> QED
  BY <1>1, <1>3, <1>4, <1>5

\* No step puts into a bag what is not on the shelf.
LEMMA ContentsKept ==
  ASSUME StorefrontInv, Contents, [Next]_vars
  PROVE  Contents'
<1> USE StorefrontAssumption
<1>1. /\ calls = [c \in Clicks |-> calls[c]] /\ token \in [Tabs -> Header]
      /\ bag = [t \in Tabs |-> bag[t]] /\ clock \in 0..MaxTime
      /\ \A t \in Tabs : IsBag(bag[t])
      /\ IsBag(<<>>)
  <2>1. IsBag(<<>>)
    BY DEF IsBag
  <2> QED
    BY <2>1 DEF StorefrontInv, Shape, Contents
<1>2. ASSUME NEW c \in Clicks, Proceed(c) \/ CutOff(c) \/ GivenUp(c) \/ CreateFails(c)
      PROVE  Contents'
  <2>1. clock' = clock
    BY <1>2 DEF Proceed, SignedIn, Denied, Refresh, Refreshed, RefreshFails, RateLimited, Accept,
       Unprocessable, Unavailable, Create, Created, CutOff, GivenUp, CreateFails, otherVars, tabVars
  <2>2. bag' = bag \/ bag' = [bag EXCEPT ![calls[c].tab] = <<>>]
    BY <1>2 DEF Proceed, SignedIn, Denied, Refresh, Refreshed, RefreshFails, RateLimited, Accept,
       Unprocessable, Unavailable, Create, Created, CutOff, GivenUp, CreateFails, otherVars, tabVars
  <2>3. \/ token' = token
        \/ \E u : token' = [token EXCEPT ![calls[c].tab] = [account |-> u, iat |-> clock]]
    BY <1>2 DEF Proceed, SignedIn, Denied, Refresh, Refreshed, RefreshFails, RateLimited, Accept,
       Unprocessable, Unavailable, Create, Created, CutOff, GivenUp, CreateFails, otherVars, tabVars
  <2>4. \A t \in Tabs : token'[t] = token[t] \/ Timely(token'[t])
    <3> SUFFICES ASSUME NEW t \in Tabs, token'[t] # token[t] PROVE Timely(token'[t])
      OBVIOUS
    <3>1. PICK u : token' = [token EXCEPT ![calls[c].tab] = [account |-> u, iat |-> clock]]
      BY <2>3
    <3>2. token'[t] = [account |-> u, iat |-> clock]
      BY <3>1, <1>1
    <3> QED
      BY <3>2, <1>1 DEF Timely
  <2>5. bag' = [t \in Tabs |-> bag'[t]] /\ \A t \in Tabs : IsBag(bag'[t])
    BY <2>2, <1>1
  <2> QED
    BY <1>1, <1>2, <2>1, <2>4, <2>5, CallsCarry, ContentsFrom
<1>3. ASSUME NEW t \in Tabs, Reload(t) PROVE Contents'
  <2>1. \A c \in Clicks : calls'[c] # Idle =>
          /\ calls[c] # Idle /\ calls'[c].items = calls[c].items
          /\ calls'[c].header = calls[c].header
    <3> SUFFICES ASSUME NEW c \in Clicks, calls'[c] # Idle
                 PROVE  /\ calls[c] # Idle /\ calls'[c].items = calls[c].items
                        /\ calls'[c].header = calls[c].header
      OBVIOUS
    <3>1. CASE Waiting(c) /\ calls[c].tab = t
      <4>1. calls[c] # Idle
        BY <3>1 DEF Waiting, Idle
      <4>2. calls[c] \in CallWith(calls[c].items)
        BY <4>1, NotIdle DEF StorefrontInv
      <4>3. calls'[c] = [calls[c] EXCEPT !.page = "gone"]
        BY <1>3, <3>1 DEF Reload
      <4> QED
        BY <4>1, <4>2, <4>3 DEF CallWith
    <3>2. CASE ~ (Waiting(c) /\ calls[c].tab = t)
      BY <1>3, <3>2 DEF Reload
    <3> QED
      BY <3>1, <3>2
  <2>2. /\ clock' = clock /\ bag' = [bag EXCEPT ![t] = <<>>]
        /\ token' = [token EXCEPT ![t] = NoToken]
    BY <1>3 DEF Reload
  <2>3. Timely(NoToken)
    BY DEF Timely, NoToken
  <2> QED
    BY <1>1, <2>1, <2>2, <2>3, ContentsFrom
<1>4. ASSUME NEW t \in Tabs, NEW p \in Products, Add(t, p) \/ Remove(t, p)
      PROVE  Contents'
  <2>1. \E lines : IsBag(lines) /\ bag' = [bag EXCEPT ![t] = lines]
    <3>1. CASE Add(t, p)
      BY <3>1, <1>1, AddKeepsBag DEF Add
    <3>2. CASE Remove(t, p)
      BY <3>2, <1>1, RemoveKeepsBag DEF Remove
    <3> QED
      BY <1>4, <3>1, <3>2
  <2>2. UNCHANGED <<token, calls, clock>>
    BY <1>4 DEF Add, Remove
  <2> QED
    BY <1>1, <2>1, <2>2, ContentsFrom
<1>5. ASSUME NEW t \in Tabs, NEW c \in Clicks, NEW u \in Account, SignIn(c, t, u) \/ Checkout(c, t)
      PROVE  Contents'
  <2>1. PICK items, header :
          /\ items \in Seq(Line) /\ Timely(header)
          /\ \E kind, account : Open(c, kind, t, account, items, header)
    <3>1. bag[t] \in Seq(Line) /\ Timely(token[t]) /\ Timely(NoToken) /\ <<>> \in Seq(Line)
      <4>1. bag[t] \in Seq(Line) /\ Timely(token[t])
        BY DEF Contents, IsBag, Line
      <4>2. Timely(NoToken)
        BY DEF Timely, NoToken
      <4> QED
        BY <4>1, <4>2
    <3> QED
      BY <1>5, <3>1 DEF SignIn, Checkout
  <2>2. /\ \A d \in Clicks \ {c} : calls'[d] = calls[d]
        /\ calls'[c].items = items /\ calls'[c].header = header
    BY <2>1, <1>1 DEF Open
  <2>3. UNCHANGED otherVars
    BY <1>5 DEF SignIn, Checkout
  <2> QED
    BY <1>1, <2>1, <2>2, <2>3, ContentsFrom DEF otherVars, tabVars
<1>6. CASE Tick
  <2>1. clock' \in 0..MaxTime
    BY <1>6, <1>1 DEF Tick
  <2> QED
    BY <1>6, <1>1, <2>1, ContentsFrom DEF Tick, tabVars
<1>7. CASE UNCHANGED vars
  BY <1>7, <1>1, ContentsFrom DEF vars, tabVars
<1>8. None \in Account /\ Accounts \cup {None} = Account
  BY DEF Account
<1> QED
  BY <1>2, <1>3, <1>4, <1>5, <1>6, <1>7, <1>8 DEF Next, Customer, Fault

\* No step of the storefront disturbs Contents.
LEMMA ContentsInvariant == Spec => []Contents
<1>1. StorefrontInv /\ Contents /\ [Next]_vars => Contents'
  BY ContentsKept
<1> QED
  BY <1>1, InitContents, StorefrontInvariant, PTL DEF Spec

\* The types, for any shelf and any calls: no bag has two lines for a
\* product, or more of it than the page was told.
THEOREM TypesHold == Spec => []TypeOK
<1>1. ASSUME StorefrontInv, Contents PROVE TypeOK
  <2>1. token \in [Tabs -> Token]
    <3>1. \A t \in Tabs : token[t] \in Token
      BY <1>1 DEF StorefrontInv, Shape, Contents, Timely, Header, Account, Token
    <3> QED
      BY <1>1, <3>1 DEF StorefrontInv, Shape
  <2>2. ASSUME NEW c \in Clicks, calls[c] # Idle PROVE IsCall(calls[c])
    <3>1. calls[c] \in CallWith(calls[c].items)
      BY <1>1, <2>2, NotIdle DEF StorefrontInv
    <3>2. calls[c].items \in Seq(Line) /\ calls[c].header \in Token
      BY <1>1, <2>2, <3>1 DEF Contents, Timely, CallWith, Header, Account, Token
    <3>3. calls[c].job # "none" => calls[c].kind = "order"
      BY <1>1, <2>2, <3>1 DEF StorefrontInv, StagesKept, Stages, CallWith
    <3> QED
      BY <3>1, <3>2, <3>3 DEF IsCall, CallWith, Account, Line
  <2> QED
    BY <1>1, <2>1, <2>2 DEF TypeOK, StorefrontInv, Shape, Contents, Account
<1> QED
  BY <1>1, ContentsInvariant, StorefrontInvariant, PTL

\* The lines of an order are those of its click, put together by product,
\* for bodies of any length.
THEOREM MergeAddsUpHolds == Spec => []MergeAddsUp
<1>1. BodiesAddUp
  <2> SUFFICES ASSUME NEW items \in Bodies PROVE AddsUp(items, Merge(items))
    BY DEF BodiesAddUp
  <2>1. PICK n \in 1..(MaxLines + 1) :
          items \in [1..n -> [prodId : Products, quantity : 1..(MaxQuantity + 1)]]
    BY DEF Bodies
  <2>2. \A i \in 1..n : items[i] \in Line
    BY <2>1, SchemaAssumption DEF Line
  <2>3. items \in Seq(Line)
    BY <2>1, <2>2, SchemaAssumption
  <2> QED
    BY <2>3, MergeCorrect
<1>2. ASSUME StorefrontInv, Contents PROVE MergeAddsUp
  <2>1. ASSUME NEW i \in DOMAIN orders
        PROVE  AddsUp(calls[orders[i].click].items, orders[i].lines)
    <3>1. /\ calls[orders[i].click].items \in Seq(Line)
          /\ orders[i].lines = Merge(calls[orders[i].click].items)
      BY <1>2, <2>1 DEF StorefrontInv, RowsExplained, Contents
    <3> QED
      BY <3>1, MergeCorrect
  <2> QED
    BY <1>1, <2>1 DEF MergeAddsUp
<1> QED
  BY <1>2, ContentsInvariant, StorefrontInvariant, PTL

\* No click makes two orders, for any number of calls, faults and ticks.
THEOREM OneOrderPerClickHolds == Spec => []OneOrderPerClick
<1>1. StorefrontInv => OneOrderPerClick
  BY DEF StorefrontInv
<1> QED
  BY <1>1, StorefrontInvariant, PTL

\* "Order placed" and the refusals tell the truth, for any delays.
THEOREM ToldTheTruthHolds == Spec => []ToldTheTruth
<1>1. ASSUME StorefrontInv PROVE ToldTheTruth
  <2> SUFFICES ASSUME NEW c \in Clicks
               PROVE  /\ calls[c].page = "done" /\ calls[c].kind = "order" =>
                           \E i \in Placed(c) : orders[i].lines = Merge(calls[c].items)
                      /\ calls[c].page = "refused" => Placed(c) = {}
    BY DEF ToldTheTruth
  <2>1. calls[c].page \in {"done", "refused"} => calls[c] # Idle
    BY DEF Idle
  <2>2. \A i \in Placed(c) : orders[i].lines = Merge(calls[c].items) /\ calls[c].page # "refused"
    BY <1>1 DEF StorefrontInv, RowsExplained, Placed
  <2>3. calls[c] # Idle /\ calls[c].kind = "order" /\ calls[c].page = "done" => Placed(c) # {}
    BY <1>1 DEF StorefrontInv, JobsRecorded
  <2> QED
    BY <2>1, <2>2, <2>3
<1> QED
  BY <1>1, StorefrontInvariant, PTL

\* Orders are of the account shown until accounts are mixed in one browser.
THEOREM OwnAccountHolds == Spec => []OwnAccount
<1>1. StorefrontInv => OwnAccount
  BY DEF StorefrontInv, OneAccount, OwnAccount
<1> QED
  BY <1>1, StorefrontInvariant, PTL
=============================================================================
