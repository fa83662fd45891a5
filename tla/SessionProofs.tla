---------------------------- MODULE SessionProofs ----------------------------
(***************************************************************************)
(* Safety of accounts and sessions, for any users, browsers and requests.  *)
(***************************************************************************)
EXTENDS SessionProperties, FiniteSetTheorems, TLAPS

\* The inductive invariant.
SessionInv == TypeOK /\ ExchangedOnce /\ WalletCreatedOnce

\* What TypeOK says of the requests.
RequestsOK ==
  /\ request \in [Requests -> Request \cup {Idle}]
  /\ \A r \in Requests : request[r] # Idle => RequestOK(request[r])

\* A request at an await is one of a handler, as TypeOK describes it.
LEMMA InProgress ==
  ASSUME RequestsOK, NEW r \in Requests, request[r].at \in Stages
  PROVE  request[r] \in Request /\ RequestOK(request[r]) /\ request[r] # Idle
<1>1. request[r] # Idle
  BY DEF Idle, Stages
<1> QED
  BY <1>1 DEF RequestsOK

\* Changing one request to a well-formed one keeps them all well-formed.
LEMMA MovedRequest ==
  ASSUME RequestsOK, NEW r \in Requests, NEW q \in Request \cup {Idle},
         q # Idle => RequestOK(q),
         request' = [request EXCEPT ![r] = q]
  PROVE  /\ RequestsOK'
         /\ request'[r] = q
         /\ \A s \in Requests \ {r} : request'[s] = request[s]
<1>1. request' \in [Requests -> Request \cup {Idle}]
  BY DEF RequestsOK
<1>2. request'[r] = q /\ \A s \in Requests \ {r} : request'[s] = request[s]
  BY DEF RequestsOK
<1>3. \A s \in Requests : request'[s] # Idle => RequestOK(request'[s])
  BY <1>2 DEF RequestsOK
<1> QED
  BY <1>1, <1>2, <1>3 DEF RequestsOK, RequestOK, Request, Idle, Token, Kinds, Stages

\* Moving a request to its next await.
LEMMA AdvancedRequest ==
  ASSUME RequestsOK, NEW r \in Requests, NEW s \in Stages,
         request[r].at \in Stages, Advance(r, s),
         RequestOK([request[r] EXCEPT !.at = s])
  PROVE  /\ RequestsOK'
         /\ request'[r] = [request[r] EXCEPT !.at = s]
         /\ \A x \in Requests \ {r} : request'[x] = request[x]
<1> DEFINE q == [request[r] EXCEPT !.at = s]
<1>1. q \in Request
  BY InProgress DEF Request
<1>2. request' = [request EXCEPT ![r] = q]
  BY DEF Advance, RequestsOK
<1> QED
  BY <1>1, <1>2, MovedRequest

\* Issuing a token to a request.
LEMMA IssuedRequest ==
  ASSUME RequestsOK, clock \in 0..MaxTime, NEW r \in Requests, NEW s \in Stages,
         request[r].at \in Stages, Issue(r, s),
         \A t \in Token :
           RequestOK([request[r] EXCEPT !.at = s, !.next = t])
  PROVE  /\ RequestsOK'
         /\ request'[r].at = s
         /\ \A x \in Requests \ {r} : request'[x] = request[x]
<1> DEFINE t == [user |-> request[r].user, iat |-> clock]
           q == [request[r] EXCEPT !.at = s, !.next = t]
<1>1. request[r] \in Request
  BY InProgress
<1>2. t \in Token
  BY <1>1 DEF Token, Request
<1>3. q \in Request /\ q.at = s
  BY <1>1, <1>2 DEF Request
<1>4. request' = [request EXCEPT ![r] = q]
  BY <1>1 DEF Issue, RequestsOK
<1>5. RequestOK(q)
  BY <1>2
<1> QED
  BY <1>3, <1>4, <1>5, MovedRequest

\* A step that creates no account and no wallet, and brings no registration
\* to the creation of its wallet.
LEMMA WalletsKept ==
  ASSUME WalletCreatedOnce, UNCHANGED <<accounts, wallets>>,
         \A r \in Requests :
           request'[r].at = "created" => request'[r] = request[r]
  PROVE  WalletCreatedOnce'
BY DEF WalletCreatedOnce

\* A step that touches neither the store nor its history, and brings no
\* registration to the creation of its wallet.
LEMMA BooksKept ==
  ASSUME SessionInv, UNCHANGED <<storeVars, granted, exchanged>>,
         \A r \in Requests :
           request'[r].at = "created" => request'[r] = request[r]
  PROVE  ExchangedOnce' /\ WalletCreatedOnce'
BY WalletsKept DEF SessionInv, ExchangedOnce, storeVars

-----------------------------------------------------------------------------
\* At the start nobody has an account.
LEMMA SessionInit == Init => SessionInv
<1> SUFFICES ASSUME Init PROVE SessionInv
  OBVIOUS
<1>1. RequestsOK
  BY DEF Init, RequestsOK
<1>2. TypeOK
  BY <1>1, SessionAssumption DEF Init, TypeOK, RequestsOK
<1>3. ExchangedOnce
  BY DEF Init, ExchangedOnce
<1>4. WalletCreatedOnce
  BY DEF Init, WalletCreatedOnce, Idle
<1> QED
  BY <1>2, <1>3, <1>4 DEF SessionInv

\* Types, of a step that keeps requests well-formed.
LEMMA TypesKept ==
  ASSUME TypeOK, RequestsOK', UNCHANGED boundVars,
         accounts' \subseteq Users, wallets' \subseteq Users, stored' \subseteq Token,
         cookie' \in [Browsers -> Token \cup {NoToken}],
         granted' \in [Token -> Nat], exchanged' \in [Token -> Nat],
         opened' \in [Users -> Nat]
  PROVE  TypeOK'
<1>1. clock' \in 0..MaxTime /\ sends' \in Nat /\ faults' \in Nat
  BY DEF TypeOK, boundVars
<1> QED
  BY <1>1 DEF TypeOK, RequestsOK

\* What is left to show of a step that keeps requests well-formed and leaves
\* the books alone.
LEMMA QuietStep ==
  ASSUME SessionInv, RequestsOK', clock' \in 0..MaxTime,
         faults' \in Nat, sends' \in Nat,
         cookie' \in [Browsers -> Token \cup {NoToken}],
         UNCHANGED <<storeVars, historyVars>>,
         \A r \in Requests :
           request'[r].at = "created" => request'[r] = request[r]
  PROVE  SessionInv'
<1>1. TypeOK'
  BY DEF SessionInv, TypeOK, RequestsOK, storeVars, historyVars
<1>2. ExchangedOnce' /\ WalletCreatedOnce'
  BY BooksKept DEF historyVars
<1> QED
  BY <1>1, <1>2 DEF SessionInv

\* Sending a request (register, login, refresh, logout) keeps the invariant.
LEMMA BrowserStep ==
  ASSUME SessionInv, NEW r \in Requests, Send(r)
  PROVE  SessionInv'
<1> RequestsOK /\ TypeOK
  BY DEF SessionInv, TypeOK, RequestsOK
<1>1. PICK b \in Browsers, kind \in Kinds :
        UseCookie(r, b, kind) \/ \E u \in Users : SignIn(r, b, u, kind)
  BY DEF Send
<1>2. ASSUME UseCookie(r, b, kind)
      PROVE  /\ RequestsOK'
             /\ request'[r].at = "sent"
             /\ \A x \in Requests \ {r} : request'[x] = request[x]
             /\ sends' \in Nat /\ UNCHANGED <<storeVars, cookie, historyVars, clock, faults>>
  <2> DEFINE q == [kind |-> kind, browser |-> b, user |-> cookie[b].user,
                   at |-> "sent", token |-> cookie[b], next |-> NoToken]
  <2>1. cookie[b] \in Token /\ cookie[b].user \in Users
    BY <1>2 DEF UseCookie, TypeOK, Token
  <2>2. q \in Request /\ RequestOK(q)
    BY <1>2, <2>1 DEF UseCookie, Request, RequestOK, Stages
  <2>3. request' = [request EXCEPT ![r] = q] /\ sends' \in Nat
    BY <1>2 DEF UseCookie, TypeOK
  <2> HIDE DEF q
  <2>4. RequestsOK' /\ request'[r] = q /\ \A x \in Requests \ {r} : request'[x] = request[x]
    BY <2>2, <2>3, MovedRequest
  <2> QED
    BY <1>2, <2>3, <2>4 DEF UseCookie, q
<1>3. ASSUME NEW u \in Users, SignIn(r, b, u, kind)
      PROVE  /\ RequestsOK'
             /\ request'[r].at = "sent"
             /\ \A x \in Requests \ {r} : request'[x] = request[x]
             /\ sends' \in Nat /\ UNCHANGED <<storeVars, cookie, historyVars, clock, faults>>
  <2> DEFINE q == [kind |-> kind, browser |-> b, user |-> u,
                   at |-> "sent", token |-> NoToken, next |-> NoToken]
  <2>1. q \in Request /\ RequestOK(q)
    BY <1>3 DEF SignIn, Request, RequestOK, Stages
  <2>2. request' = [request EXCEPT ![r] = q] /\ sends' \in Nat
    BY <1>3 DEF SignIn, TypeOK
  <2> HIDE DEF q
  <2>3. RequestsOK' /\ request'[r] = q /\ \A x \in Requests \ {r} : request'[x] = request[x]
    BY <2>1, <2>2, MovedRequest
  <2> QED
    BY <1>3, <2>2, <2>3 DEF SignIn, q
<1>4. /\ RequestsOK'
      /\ request'[r].at = "sent"
      /\ \A x \in Requests \ {r} : request'[x] = request[x]
      /\ sends' \in Nat /\ UNCHANGED <<storeVars, cookie, historyVars, clock, faults>>
  BY <1>1, <1>2, <1>3
<1> QED
  BY <1>4, QuietStep DEF TypeOK

\* A request that ends.
LEMMA FinishedRequest ==
  ASSUME RequestsOK, NEW r \in Requests, Finish(r)
  PROVE  /\ RequestsOK'
         /\ \A s \in Requests : request'[s].at = "created" => request'[s] = request[s]
<1>1. RequestsOK' /\ request'[r] = Idle /\ \A s \in Requests \ {r} : request'[s] = request[s]
  BY MovedRequest DEF Finish
<1> QED
  BY <1>1 DEF Idle

\* Handling a request: the steps that read, then those that write.
LEMMA HandleStep ==
  ASSUME SessionInv, NEW r \in Requests, Handle(r)
  PROVE  SessionInv'
<1> RequestsOK /\ TypeOK /\ ExchangedOnce /\ WalletCreatedOnce
  BY DEF SessionInv, TypeOK, RequestsOK
<1> clock \in 0..MaxTime /\ sends \in Nat /\ faults \in Nat
  BY DEF TypeOK
<1> DEFINE q == request[r]
<1>0. q.at \in Stages => q \in Request /\ RequestOK(q) /\ q # Idle
  BY InProgress
<1>1. CASE CheckPassword(r)
  <2>1. q.at = "sent" /\ q.kind = "login" /\ Issue(r, "adding")
    BY <1>1 DEF CheckPassword, At
  <2>2. \A t \in Token : RequestOK([request[r] EXCEPT !.at = "adding", !.next = t])
    BY <1>0, <2>1 DEF RequestOK, Request, Stages
  <2>3. /\ RequestsOK' /\ request'[r].at = "adding"
        /\ \A x \in Requests \ {r} : request'[x] = request[x]
    BY <2>1, <2>2, IssuedRequest DEF Stages
  <2> QED
    BY <1>1, <2>3, QuietStep DEF CheckPassword, boundVars, TypeOK
<1>2. CASE FindEmail(r)
  <2>1. q.at = "sent" /\ q.kind = "register" /\ Advance(r, "hashing")
    BY <1>2 DEF FindEmail, At
  <2>2. RequestOK([request[r] EXCEPT !.at = "hashing"])
    BY <1>0, <2>1 DEF RequestOK, Request, Stages
  <2>3. /\ RequestsOK' /\ request'[r] = [request[r] EXCEPT !.at = "hashing"]
        /\ \A x \in Requests \ {r} : request'[x] = request[x]
    BY <2>1, <2>2, AdvancedRequest DEF Stages
  <2>4. request'[r].at = "hashing"
    BY <1>0, <2>1, <2>3 DEF Request, Stages
  <2> QED
    BY <1>2, <2>3, <2>4, QuietStep DEF FindEmail, boundVars, TypeOK
<1>3. CASE CreateUser(r)
  <2>1. /\ q.at = "hashing" /\ q.kind = "register" /\ Advance(r, "created")
        /\ q.user \notin accounts /\ accounts' = accounts \cup {q.user}
        /\ UNCHANGED <<wallets, stored, cookie, historyVars, boundVars>>
    BY <1>3 DEF CreateUser, At
  <2>2. RequestOK([request[r] EXCEPT !.at = "created"])
    BY <1>0, <2>1 DEF RequestOK, Request, Stages
  <2>3. /\ RequestsOK' /\ request'[r] = [request[r] EXCEPT !.at = "created"]
        /\ \A x \in Requests \ {r} : request'[x] = request[x]
    BY <2>1, <2>2, AdvancedRequest DEF Stages
  <2>4. request'[r].user = q.user /\ q.user \in Users
    BY <1>0, <2>1, <2>3 DEF Request, Stages
  <2>5. TypeOK'
    BY <2>1, <2>3, <2>4, TypesKept DEF TypeOK, historyVars
  <2>6. ExchangedOnce'
    BY <2>1 DEF ExchangedOnce, historyVars
  <2>7. WalletCreatedOnce'
    <3>1. \A s \in Requests \ {r} :
            request'[s].at = "created" =>
              /\ request'[s].user \in accounts \ wallets
              /\ request'[s].user # q.user
      BY <2>1, <2>3 DEF WalletCreatedOnce
    <3>2. q.user \in accounts' \ wallets' /\ wallets' \subseteq accounts'
      BY <2>1 DEF WalletCreatedOnce
    <3>3. \A s, x \in Requests \ {r} : s # x =>
            (request'[s].at = "created" /\ request'[x].at = "created" =>
               request'[x].user # request'[s].user)
      BY <2>3 DEF WalletCreatedOnce
    <3> HIDE DEF q
    <3> QED
      BY <2>1, <2>4, <3>1, <3>2, <3>3 DEF WalletCreatedOnce
  <2> QED
    BY <2>5, <2>6, <2>7 DEF SessionInv
<1>4. CASE CreateWallet(r)
  <2>1. /\ q.at = "created" /\ q.kind = "register" /\ Issue(r, "adding")
        /\ wallets' = wallets \cup {q.user}
        /\ UNCHANGED <<accounts, stored, cookie, historyVars, boundVars>>
    BY <1>4 DEF CreateWallet, At
  <2>2. \A t \in Token : RequestOK([request[r] EXCEPT !.at = "adding", !.next = t])
    BY <1>0, <2>1 DEF RequestOK, Request, Stages
  <2>3. /\ RequestsOK' /\ request'[r].at = "adding"
        /\ \A x \in Requests \ {r} : request'[x] = request[x]
    BY <2>1, <2>2, IssuedRequest DEF Stages
  <2>4. q.user \in accounts /\ q.user \in Users
    BY <1>0, <2>1 DEF WalletCreatedOnce, Request, Stages
  <2>5. TypeOK'
    BY <2>1, <2>3, <2>4, TypesKept DEF TypeOK, historyVars
  <2>6. ExchangedOnce'
    BY <2>1 DEF ExchangedOnce, historyVars
  <2>7. WalletCreatedOnce'
    BY <2>1, <2>3, <2>4 DEF WalletCreatedOnce
  <2> QED
    BY <2>5, <2>6, <2>7 DEF SessionInv
<1>5. CASE CheckToken(r)
  <2>1. q.at = "sent" /\ q.kind = "refresh" /\ Advance(r, "checked")
    BY <1>5 DEF CheckToken, At
  <2>2. RequestOK([request[r] EXCEPT !.at = "checked"])
    BY <1>0, <2>1 DEF RequestOK, Request, Stages
  <2>3. /\ RequestsOK' /\ request'[r] = [request[r] EXCEPT !.at = "checked"]
        /\ \A x \in Requests \ {r} : request'[x] = request[x]
    BY <2>1, <2>2, AdvancedRequest DEF Stages
  <2>4. request'[r].at = "checked"
    BY <1>0, <2>1, <2>3 DEF Request, Stages
  <2> QED
    BY <1>5, <2>3, <2>4, QuietStep DEF CheckToken, boundVars, TypeOK
<1>6. CASE IssueNext(r)
  <2>1. q.at = "checked" /\ q.kind = "refresh" /\ Issue(r, "issued")
    BY <1>6 DEF IssueNext, At
  <2>2. \A t \in Token : RequestOK([request[r] EXCEPT !.at = "issued", !.next = t])
    BY <1>0, <2>1 DEF RequestOK, Request, Stages
  <2>3. /\ RequestsOK' /\ request'[r].at = "issued"
        /\ \A x \in Requests \ {r} : request'[x] = request[x]
    BY <2>1, <2>2, IssuedRequest DEF Stages
  <2> QED
    BY <1>6, <2>3, QuietStep DEF IssueNext, boundVars, TypeOK
<1>7. CASE Exchange(r)
  <2> DEFINE t == q.token
  <2>1. /\ q.at = "issued" /\ q.kind = "refresh" /\ Advance(r, "adding")
        /\ t \in stored /\ stored' = stored \ {t}
        /\ exchanged' = [exchanged EXCEPT ![t] = @ + 1]
        /\ UNCHANGED <<accounts, wallets, cookie, granted, opened, boundVars>>
    BY <1>7 DEF Exchange, At
  <2>2. RequestOK([request[r] EXCEPT !.at = "adding"]) /\ t \in Token
    BY <1>0, <2>1 DEF RequestOK, Request, Stages
  <2>3. /\ RequestsOK' /\ request'[r] = [request[r] EXCEPT !.at = "adding"]
        /\ \A x \in Requests \ {r} : request'[x] = request[x]
    BY <2>1, <2>2, AdvancedRequest DEF Stages
  <2>4. request'[r].at = "adding"
    BY <1>0, <2>1, <2>3 DEF Request, Stages
  <2>5. TypeOK'
    BY <2>1, <2>2, <2>3, TypesKept DEF TypeOK
  <2>6. ExchangedOnce'
    BY <2>1, <2>2 DEF ExchangedOnce, TypeOK
  <2>7. WalletCreatedOnce'
    BY <2>1, <2>3, <2>4, WalletsKept
  <2> QED
    BY <2>5, <2>6, <2>7 DEF SessionInv
<1>8. CASE AddToken(r)
  <2> DEFINE t == q.next
  <2>1. /\ q.at = "adding" /\ Advance(r, "answering")
        /\ stored' = stored \cup {t}
        /\ granted' = [granted EXCEPT ![t] = @ + 1]
        /\ opened' \in {opened, [opened EXCEPT ![t.user] = @ + 1]}
        /\ UNCHANGED <<accounts, wallets, cookie, exchanged, boundVars>>
    BY <1>8 DEF AddToken
  <2>2. RequestOK([request[r] EXCEPT !.at = "answering"]) /\ t \in Token
    BY <1>0, <2>1 DEF RequestOK, Request, Stages
  <2>3. /\ RequestsOK' /\ request'[r] = [request[r] EXCEPT !.at = "answering"]
        /\ \A x \in Requests \ {r} : request'[x] = request[x]
    BY <2>1, <2>2, AdvancedRequest DEF Stages
  <2>4. request'[r].at = "answering" /\ opened' \in [Users -> Nat]
    BY <1>0, <2>1, <2>3 DEF Request, Stages, TypeOK
  <2>5. TypeOK'
    BY <2>1, <2>2, <2>3, <2>4, TypesKept DEF TypeOK
  <2>6. ExchangedOnce'
    BY <2>1, <2>2 DEF ExchangedOnce, TypeOK
  <2>7. WalletCreatedOnce'
    BY <2>1, <2>3, <2>4, WalletsKept
  <2> QED
    BY <2>5, <2>6, <2>7 DEF SessionInv
<1>9. CASE RemoveToken(r)
  <2> DEFINE t == q.token
  <2>1. /\ q.at = "sent" /\ q.kind = "logout" /\ Advance(r, "answering")
        /\ stored' \in {stored, stored \ {t}}
        /\ UNCHANGED <<accounts, wallets, cookie, historyVars, boundVars>>
    BY <1>9 DEF RemoveToken, At
  <2>2. RequestOK([request[r] EXCEPT !.at = "answering"])
    BY <1>0, <2>1 DEF RequestOK, Request, Stages
  <2>3. /\ RequestsOK' /\ request'[r] = [request[r] EXCEPT !.at = "answering"]
        /\ \A x \in Requests \ {r} : request'[x] = request[x]
    BY <2>1, <2>2, AdvancedRequest DEF Stages
  <2>4. request'[r].at = "answering"
    BY <1>0, <2>1, <2>3 DEF Request, Stages
  <2>5. TypeOK'
    BY <2>1, <2>3, TypesKept DEF TypeOK, historyVars
  <2>6. ExchangedOnce'
    BY <2>1 DEF ExchangedOnce, TypeOK, historyVars
  <2>7. WalletCreatedOnce'
    BY <2>1, <2>3, <2>4, WalletsKept
  <2> QED
    BY <2>5, <2>6, <2>7 DEF SessionInv
<1>10. CASE Answer(r)
  <2>1. /\ q.at = "answering" /\ Finish(r)
        /\ cookie' = [cookie EXCEPT ![q.browser] = q.next]
    BY <1>10 DEF Answer
  <2>2. q.next \in Token \cup {NoToken}
    BY <1>0, <2>1 DEF Request, Stages
  <2> QED
    BY <1>10, <2>1, <2>2, FinishedRequest, QuietStep DEF Answer, boundVars, TypeOK
<1>11. CASE Refuse(r)
  BY <1>11, FinishedRequest, QuietStep DEF Refuse, boundVars, TypeOK
<1> QED
  BY <1>1, <1>2, <1>3, <1>4, <1>5, <1>6, <1>7, <1>8, <1>9, <1>10, <1>11 DEF Handle

\* Lost requests, failed logouts and crashes.
LEMMA FaultStep ==
  ASSUME SessionInv, Fault
  PROVE  SessionInv'
<1> RequestsOK /\ TypeOK
  BY DEF SessionInv, TypeOK, RequestsOK
<1>1. /\ faults' \in Nat
      /\ Crash \/ \E r \in Requests : Lose(r) \/ RemoveFails(r)
  BY DEF Fault, TypeOK
<1>2. CASE Crash
  <2>1. RequestsOK' /\ \A r \in Requests : request'[r].at # "created"
    BY <1>2 DEF Crash, RequestsOK, Idle
  <2> QED
    BY <1>1, <1>2, <2>1, QuietStep DEF Crash, TypeOK
<1>3. ASSUME NEW r \in Requests, Lose(r) PROVE SessionInv'
  BY <1>1, <1>3, FinishedRequest, QuietStep DEF Lose, TypeOK
<1>4. ASSUME NEW r \in Requests, RemoveFails(r) PROVE SessionInv'
  <2>1. /\ request[r].at = "sent" /\ request[r].kind = "logout"
        /\ Advance(r, "answering")
    BY <1>4 DEF RemoveFails, At
  <2>2. /\ RequestOK([request[r] EXCEPT !.at = "answering"])
        /\ request[r] \in Request
    BY <2>1, InProgress DEF RequestOK, Request, Stages
  <2>3. /\ RequestsOK' /\ request'[r] = [request[r] EXCEPT !.at = "answering"]
        /\ \A x \in Requests \ {r} : request'[x] = request[x]
    BY <2>1, <2>2, AdvancedRequest DEF Stages
  <2>4. request'[r].at = "answering"
    BY <2>2, <2>3 DEF Request
  <2> QED
    BY <1>1, <1>4, <2>3, <2>4, QuietStep DEF RemoveFails, TypeOK
<1> QED
  BY <1>1, <1>2, <1>3, <1>4

\* Every step keeps the invariant.
LEMMA SessionStep == SessionInv /\ [Next]_vars => SessionInv'
<1> SUFFICES ASSUME SessionInv, [Next]_vars PROVE SessionInv'
  OBVIOUS
<1> RequestsOK /\ TypeOK
  BY DEF SessionInv, TypeOK, RequestsOK
<1>1. CASE Fault
  BY <1>1, FaultStep
<1>2. CASE Tick
  <2>1. RequestsOK' /\ clock' \in 0..MaxTime /\ UNCHANGED request
    BY <1>2, SessionAssumption DEF Tick, TypeOK, RequestsOK
  <2> QED
    BY <1>2, <2>1, QuietStep DEF Tick, TypeOK
<1>3. ASSUME NEW r \in Requests, Send(r) \/ Handle(r) PROVE SessionInv'
  BY <1>3, BrowserStep, HandleStep
<1>4. CASE UNCHANGED vars
  <2>1. RequestsOK' /\ UNCHANGED <<request, storeVars, historyVars>>
    BY <1>4 DEF vars, RequestsOK
  <2> QED
    BY <1>4, <2>1, QuietStep DEF vars, boundVars, TypeOK
<1> QED
  BY <1>1, <1>2, <1>3, <1>4 DEF Next

\* The invariant of accounts and sessions.
THEOREM SessionInvariant == Spec => []SessionInv
BY SessionInit, SessionStep, PTL DEF Spec

\* However refreshes, logouts, sign-ins and crashes interleave, a grant of a
\* refresh token is exchanged at most once.
THEOREM ExchangedOnceHolds == Spec => []ExchangedOnce
<1>1. SessionInv => ExchangedOnce
  BY DEF SessionInv
<1> QED
  BY <1>1, SessionInvariant, PTL

\* However registrations interleave and fail, no wallet is without an account
\* and none is created a second time.
THEOREM WalletCreatedOnceHolds == Spec => []WalletCreatedOnce
<1>1. SessionInv => WalletCreatedOnce
  BY DEF SessionInv
<1> QED
  BY <1>1, SessionInvariant, PTL

\* Types: a request is at an await of its own handler, with the tokens it has
\* been given and has issued so far.
THEOREM SessionTypesHold == Spec => []TypeOK
<1>1. SessionInv => TypeOK
  BY DEF SessionInv
<1> QED
  BY <1>1, SessionInvariant, PTL

-----------------------------------------------------------------------------
(* What the steps of a request do to it, to the store and to the cookies.  *)

SameRequest(r) ==
  /\ request[r] \in Request /\ request'[r] \in Request
  /\ request'[r].kind = request[r].kind /\ request'[r].browser = request[r].browser
  /\ request'[r].user = request[r].user /\ request'[r].token = request[r].token

\* It reads, hashes, registers or issues.
Prepares(r) ==
  /\ SameRequest(r)
  /\ request[r].at \notin {"adding", "answering"}
  /\ request'[r].at # "answering"
  /\ request'[r].at = "adding" => request'[r].kind # "refresh"
  /\ \/ request'[r].next = request[r].next
     \/ /\ request'[r].next \in Token
        /\ request'[r].next.user = request[r].user
  /\ UNCHANGED <<stored, cookie, historyVars>>

\* It pulls the token that it presented.
Swaps(r) ==
  /\ SameRequest(r)
  /\ request[r].at = "issued" /\ request'[r].at = "adding"
  /\ request[r].kind = "refresh"
  /\ request'[r].next = request[r].next
  /\ request[r].token \in stored /\ stored' = stored \ {request[r].token}
  /\ UNCHANGED <<cookie, granted, opened>>

\* It stores the token that it issued.
Stores(r) ==
  /\ SameRequest(r)
  /\ request[r].at = "adding" /\ request'[r].at = "answering"
  /\ request'[r].next = request[r].next /\ request[r].next \in Token
  /\ stored' = stored \cup {request[r].next}
  /\ granted' = [granted EXCEPT ![request[r].next] = @ + 1]
  /\ opened' = IF request[r].kind = "refresh" THEN opened
               ELSE [opened EXCEPT ![request[r].next.user] = @ + 1]
  /\ UNCHANGED cookie

\* It signs out, of the store if it can.
Leaves(r) ==
  /\ SameRequest(r)
  /\ request[r].at = "sent" /\ request'[r].at = "answering"
  /\ request[r].kind = "logout"
  /\ request'[r].next = NoToken
  /\ stored' \in {stored, stored \ {request[r].token}}
  /\ UNCHANGED <<cookie, historyVars>>

Replies(r) ==
  /\ request[r] \in Request /\ request[r].at = "answering" /\ request'[r] = Idle
  /\ cookie' = [cookie EXCEPT ![request[r].browser] = request[r].next]
  /\ UNCHANGED <<stored, historyVars>>

TurnsAway(r) ==
  /\ request[r] \in Request /\ request[r].at \notin {"adding", "answering"}
  /\ request'[r] = Idle
  /\ UNCHANGED <<stored, cookie, historyVars>>

Others(r) == \A x \in Requests \ {r} : request'[x] = request[x]

\* Going on changes one request, to the next await.
LEMMA AdvanceIs ==
  ASSUME RequestsOK, NEW r \in Requests, NEW s \in Stages,
         request[r].at \in Stages, Advance(r, s)
  PROVE  /\ SameRequest(r) /\ request'[r].at = s /\ Others(r)
         /\ request'[r].next = request[r].next
<1>1. request[r] \in Request
  BY InProgress
<1>2. request'[r] = [request[r] EXCEPT !.at = s]
  BY DEF Advance, RequestsOK
<1>3. Others(r)
  BY DEF Advance, RequestsOK, Others
<1>4. [request[r] EXCEPT !.at = s] \in Request
  BY <1>1 DEF Request
<1>5. /\ request'[r].kind = request[r].kind /\ request'[r].browser = request[r].browser
      /\ request'[r].user = request[r].user /\ request'[r].token = request[r].token
      /\ request'[r].at = s /\ request'[r].next = request[r].next
  BY <1>1, <1>2 DEF Request
<1> QED
  BY <1>1, <1>2, <1>3, <1>4, <1>5 DEF SameRequest

\* Issuing a token changes one request, which then has the token.
LEMMA IssueIs ==
  ASSUME RequestsOK, clock \in 0..MaxTime, NEW r \in Requests, NEW s \in Stages,
         request[r].at \in Stages, Issue(r, s)
  PROVE  /\ SameRequest(r) /\ request'[r].at = s /\ Others(r)
         /\ request'[r].next \in Token /\ request'[r].next.user = request[r].user
<1> DEFINE t == [user |-> request[r].user, iat |-> clock]
<1>1. request[r] \in Request
  BY InProgress
<1>2. t \in Token /\ t.user = request[r].user
  BY <1>1 DEF Token, Request
<1>3. request'[r] = [request[r] EXCEPT !.at = s, !.next = t]
  BY DEF Issue, RequestsOK
<1>4. Others(r)
  BY DEF Issue, RequestsOK, Others
<1> HIDE DEF t
<1>5. [request[r] EXCEPT !.at = s, !.next = t] \in Request
  BY <1>1, <1>2 DEF Request
<1>6. /\ request'[r].kind = request[r].kind /\ request'[r].browser = request[r].browser
      /\ request'[r].user = request[r].user /\ request'[r].token = request[r].token
      /\ request'[r].at = s /\ request'[r].next = t
  BY <1>1, <1>3 DEF Request
<1> QED
  BY <1>1, <1>2, <1>3, <1>4, <1>5, <1>6 DEF SameRequest

\* Finishing frees one request and leaves the others.
LEMMA FinishIs ==
  ASSUME RequestsOK, NEW r \in Requests, Finish(r)
  PROVE  request'[r] = Idle /\ Others(r)
BY DEF Finish, RequestsOK, Others

\* A handler's step is one of these.
LEMMA HandleIs ==
  ASSUME SessionInv, NEW r \in Requests, Handle(r)
  PROVE  /\ Others(r)
         /\ \/ Prepares(r) \/ Swaps(r) \/ Stores(r) \/ Leaves(r)
            \/ Replies(r) \/ TurnsAway(r)
<1> RequestsOK /\ clock \in 0..MaxTime
  BY DEF SessionInv, TypeOK, RequestsOK
<1> DEFINE q == request[r]
<1>0. q.at \in Stages => q \in Request /\ RequestOK(q)
  BY InProgress
<1>1. CASE CheckPassword(r)
  <2>1. /\ q.at = "sent" /\ q.kind = "login" /\ Issue(r, "adding")
        /\ UNCHANGED <<stored, cookie, historyVars>>
    BY <1>1 DEF CheckPassword, At, storeVars
  <2>2. /\ SameRequest(r) /\ request'[r].at = "adding" /\ Others(r)
        /\ request'[r].next \in Token /\ request'[r].next.user = q.user
    BY <2>1, IssueIs DEF Stages
  <2> QED
    BY <2>1, <2>2 DEF Prepares, SameRequest
<1>2. CASE FindEmail(r)
  <2>1. /\ q.at = "sent" /\ Advance(r, "hashing")
        /\ UNCHANGED <<stored, cookie, historyVars>>
    BY <1>2 DEF FindEmail, At, storeVars
  <2>2. /\ SameRequest(r) /\ request'[r].at = "hashing" /\ Others(r)
        /\ request'[r].next = q.next
    BY <2>1, AdvanceIs DEF Stages
  <2> QED
    BY <2>1, <2>2 DEF Prepares
<1>3. CASE CreateUser(r)
  <2>1. /\ q.at = "hashing" /\ Advance(r, "created")
        /\ UNCHANGED <<stored, cookie, historyVars>>
    BY <1>3 DEF CreateUser, At
  <2>2. /\ SameRequest(r) /\ request'[r].at = "created" /\ Others(r)
        /\ request'[r].next = q.next
    BY <2>1, AdvanceIs DEF Stages
  <2> QED
    BY <2>1, <2>2 DEF Prepares
<1>4. CASE CreateWallet(r)
  <2>1. /\ q.at = "created" /\ q.kind = "register" /\ Issue(r, "adding")
        /\ UNCHANGED <<stored, cookie, historyVars>>
    BY <1>4 DEF CreateWallet, At
  <2>2. /\ SameRequest(r) /\ request'[r].at = "adding" /\ Others(r)
        /\ request'[r].next \in Token /\ request'[r].next.user = q.user
    BY <2>1, IssueIs DEF Stages
  <2> QED
    BY <2>1, <2>2 DEF Prepares, SameRequest
<1>5. CASE CheckToken(r)
  <2>1. /\ q.at = "sent" /\ Advance(r, "checked")
        /\ UNCHANGED <<stored, cookie, historyVars>>
    BY <1>5 DEF CheckToken, At, storeVars
  <2>2. /\ SameRequest(r) /\ request'[r].at = "checked" /\ Others(r)
        /\ request'[r].next = q.next
    BY <2>1, AdvanceIs DEF Stages
  <2> QED
    BY <2>1, <2>2 DEF Prepares
<1>6. CASE IssueNext(r)
  <2>1. /\ q.at = "checked" /\ Issue(r, "issued")
        /\ UNCHANGED <<stored, cookie, historyVars>>
    BY <1>6 DEF IssueNext, At, storeVars
  <2>2. /\ SameRequest(r) /\ request'[r].at = "issued" /\ Others(r)
        /\ request'[r].next \in Token /\ request'[r].next.user = q.user
    BY <2>1, IssueIs DEF Stages
  <2> QED
    BY <2>1, <2>2 DEF Prepares
<1>7. CASE Exchange(r)
  <2>1. /\ q.at = "issued" /\ q.kind = "refresh" /\ Advance(r, "adding")
        /\ q.token \in stored /\ stored' = stored \ {q.token}
        /\ UNCHANGED <<cookie, granted, opened>>
    BY <1>7 DEF Exchange, At
  <2>2. /\ SameRequest(r) /\ request'[r].at = "adding" /\ Others(r)
        /\ request'[r].next = q.next
    BY <2>1, AdvanceIs DEF Stages
  <2> QED
    BY <2>1, <2>2 DEF Swaps
<1>8. CASE AddToken(r)
  <2>1. /\ q.at = "adding" /\ Advance(r, "answering")
        /\ stored' = stored \cup {q.next}
        /\ granted' = [granted EXCEPT ![q.next] = @ + 1]
        /\ opened' = IF q.kind = "refresh" THEN opened
                     ELSE [opened EXCEPT ![q.next.user] = @ + 1]
        /\ UNCHANGED cookie
    BY <1>8 DEF AddToken
  <2>2. /\ SameRequest(r) /\ request'[r].at = "answering" /\ Others(r)
        /\ request'[r].next = q.next
    BY <2>1, AdvanceIs DEF Stages
  <2>3. q.next \in Token
    BY <1>0, <2>1 DEF RequestOK, Stages
  <2> QED
    BY <2>1, <2>2, <2>3 DEF Stores
<1>9. CASE RemoveToken(r)
  <2>1. /\ q.at = "sent" /\ q.kind = "logout" /\ Advance(r, "answering")
        /\ stored' \in {stored, stored \ {q.token}}
        /\ UNCHANGED <<cookie, historyVars>>
    BY <1>9 DEF RemoveToken, At
  <2>2. /\ SameRequest(r) /\ request'[r].at = "answering" /\ Others(r)
        /\ request'[r].next = q.next
    BY <2>1, AdvanceIs DEF Stages
  <2>3. q.next = NoToken
    BY <1>0, <2>1 DEF RequestOK, Stages
  <2> QED
    BY <2>1, <2>2, <2>3 DEF Leaves
<1>10. CASE Answer(r)
  BY <1>0, <1>10, FinishIs DEF Answer, Replies, Stages, storeVars
<1>11. CASE Refuse(r)
  BY <1>0, <1>11, FinishIs DEF Refuse, TurnsAway, At, Stages, storeVars
<1> QED
  BY <1>1, <1>2, <1>3, <1>4, <1>5, <1>6, <1>7, <1>8, <1>9, <1>10, <1>11 DEF Handle

-----------------------------------------------------------------------------
(* Every account gets its wallet.                                          *)

\* While nothing fails, an account without a wallet is one whose registration
\* is about to create it.
WalletsFollow == faults = 0 => \A u \in accounts \ wallets :
  \E r \in Requests : request[r].at = "created" /\ request[r].user = u

\* Without faults, every step leaves a wallet, or a registration, to each account.
LEMMA WalletsFollowKept == SessionInv /\ WalletsFollow /\ [Next]_vars => WalletsFollow'
<1> SUFFICES ASSUME SessionInv, WalletsFollow, [Next]_vars, faults' = 0,
                    NEW u \in accounts' \ wallets'
             PROVE  \E s \in Requests : request'[s].at = "created" /\ request'[s].user = u
  BY DEF WalletsFollow
<1> RequestsOK /\ faults \in Nat
  BY DEF SessionInv, TypeOK, RequestsOK
<1>1. CASE Fault
  BY <1>1 DEF Fault
<1>2. CASE Tick
  BY <1>2 DEF Tick, WalletsFollow, storeVars
<1>3. CASE UNCHANGED vars
  BY <1>3 DEF vars, WalletsFollow, storeVars, boundVars
<1>4. ASSUME NEW r \in Requests, Send(r)
      PROVE  \E s \in Requests : request'[s].at = "created" /\ request'[s].user = u
  <2>1. request[r] = Idle /\ Others(r) /\ UNCHANGED <<accounts, wallets, faults>>
    BY <1>4 DEF Send, SignIn, UseCookie, Others, RequestsOK, storeVars
  <2>2. PICK s \in Requests : request[s].at = "created" /\ request[s].user = u
    BY <2>1 DEF WalletsFollow
  <2> QED
    BY <2>1, <2>2 DEF Others, Idle
<1>5. ASSUME NEW r \in Requests, Handle(r)
      PROVE  \E s \in Requests : request'[s].at = "created" /\ request'[s].user = u
  <2>1. Others(r) /\ UNCHANGED faults
    BY <1>5, HandleIs DEF Handle, CheckPassword, FindEmail, CreateUser, CreateWallet,
       CheckToken, IssueNext, Exchange, AddToken, RemoveToken, Answer, Refuse, boundVars
  <2>2. CASE CreateUser(r)
    <3>1. /\ request[r].at = "hashing" /\ accounts' = accounts \cup {request[r].user}
          /\ wallets' = wallets /\ Advance(r, "created")
      BY <2>2 DEF CreateUser, At
    <3>2. SameRequest(r) /\ request'[r].at = "created"
      BY <3>1, AdvanceIs DEF Stages
    <3>3. CASE u = request[r].user
      BY <3>2, <3>3 DEF SameRequest
    <3>4. CASE u # request[r].user
      BY <2>1, <3>1, <3>4 DEF WalletsFollow, Others
    <3> QED
      BY <3>3, <3>4
  <2>3. CASE CreateWallet(r)
    <3>1. accounts' = accounts /\ wallets' = wallets \cup {request[r].user}
      BY <2>3 DEF CreateWallet
    <3> QED
      BY <2>1, <3>1 DEF WalletsFollow, Others
  <2>4. CASE ~ CreateUser(r) /\ ~ CreateWallet(r)
    <3>1. UNCHANGED <<accounts, wallets>> /\ request[r].at # "created"
      BY <1>5, <2>4 DEF Handle, CheckPassword, FindEmail, CheckToken, IssueNext, Exchange,
         AddToken, RemoveToken, Answer, Refuse, At, storeVars
    <3> QED
      BY <2>1, <3>1 DEF WalletsFollow, Others
  <2> QED
    BY <2>2, <2>3, <2>4
<1> QED
  BY <1>1, <1>2, <1>3, <1>4, <1>5 DEF Next

\* While nothing fails, no account is left without a wallet, although the two
\* documents are created by two calls.
THEOREM AccountsHaveWalletsHold == Spec => []AccountsHaveWallets
<1>1. Init => WalletsFollow
  BY DEF Init, WalletsFollow
<1>2. SessionInv /\ WalletsFollow => AccountsHaveWallets
  BY DEF SessionInv, WalletCreatedOnce, WalletsFollow, AccountsHaveWallets, AtRest, Idle
<1> QED
  BY <1>1, <1>2, SessionInvariant, WalletsFollowKept, PTL DEF Spec

-----------------------------------------------------------------------------
(* Refreshing opens no sessions.                                           *)

\* The tokens of a request are its user's.
OwnTokens == \A r \in Requests : request[r].at \in Stages =>
  /\ request[r].token # NoToken => request[r].token.user = request[r].user
  /\ request[r].next # NoToken => request[r].next.user = request[r].user

Held(u) == {t \in stored : t.user = u}
Swapping(u) == {r \in Requests : At(r, "refresh", "adding") /\ request[r].user = u}

SessionsCounted == \A u \in Users :
  /\ IsFiniteSet(Held(u)) /\ IsFiniteSet(Swapping(u))
  /\ Cardinality(Held(u)) + Cardinality(Swapping(u)) <= opened[u]

\* Every step leaves requests with tokens of their own user.
LEMMA OwnTokensKept ==
  ASSUME SessionInv, OwnTokens, [Next]_vars
  PROVE  OwnTokens'
<1> RequestsOK /\ TypeOK
  BY DEF SessionInv, TypeOK, RequestsOK
<1>1. ASSUME NEW r \in Requests, Others(r),
             request'[r].at \in Stages =>
               /\ request'[r].token # NoToken => request'[r].token.user = request'[r].user
               /\ request'[r].next # NoToken => request'[r].next.user = request'[r].user
      PROVE  OwnTokens'
  BY <1>1 DEF OwnTokens, Others
<1>2. ASSUME NEW r \in Requests, Others(r), request'[r] = Idle
      PROVE  OwnTokens'
  BY <1>1, <1>2 DEF Idle, Stages
<1>3. ASSUME NEW r \in Requests, Others(r), SameRequest(r), request[r].at \in Stages,
             \/ request'[r].next \in {request[r].next, NoToken}
             \/ request'[r].next.user = request[r].user
      PROVE  OwnTokens'
  BY <1>1, <1>3 DEF SameRequest, OwnTokens
<1>4. ASSUME NEW r \in Requests, Send(r) PROVE OwnTokens'
  <2>1. PICK b \in Browsers, kind \in Kinds :
          UseCookie(r, b, kind) \/ \E u \in Users : SignIn(r, b, u, kind)
    BY <1>4 DEF Send
  <2>2. Others(r)
    BY <2>1 DEF SignIn, UseCookie, Others, RequestsOK
  <2>3. CASE UseCookie(r, b, kind)
    <3>1. request'[r] = [kind |-> kind, browser |-> b, user |-> cookie[b].user,
                         at |-> "sent", token |-> cookie[b], next |-> NoToken]
      BY <2>3 DEF UseCookie, RequestsOK
    <3> QED
      BY <1>1, <2>2, <3>1
  <2>4. ASSUME NEW u \in Users, SignIn(r, b, u, kind) PROVE OwnTokens'
    <3>1. request'[r] = [kind |-> kind, browser |-> b, user |-> u,
                         at |-> "sent", token |-> NoToken, next |-> NoToken]
      BY <2>4 DEF SignIn, RequestsOK
    <3> QED
      BY <1>1, <2>2, <3>1
  <2> QED
    BY <2>1, <2>3, <2>4
<1>5. ASSUME NEW r \in Requests, Handle(r) PROVE OwnTokens'
  <2>1. /\ Others(r)
        /\ \/ Prepares(r) \/ Swaps(r) \/ Stores(r) \/ Leaves(r)
           \/ Replies(r) \/ TurnsAway(r)
    BY <1>5, HandleIs
  <2>2. request[r] \in Request => request[r].at \in Stages
    BY DEF Request
  <2>3. CASE Prepares(r)
    BY <1>3, <2>1, <2>2, <2>3 DEF Prepares, SameRequest
  <2>4. CASE Swaps(r) \/ Stores(r) \/ Leaves(r)
    BY <1>3, <2>1, <2>2, <2>4 DEF Swaps, Stores, Leaves, SameRequest
  <2>5. CASE Replies(r) \/ TurnsAway(r)
    BY <1>2, <2>1, <2>5 DEF Replies, TurnsAway
  <2> QED
    BY <2>1, <2>3, <2>4, <2>5
<1>6. CASE Fault
  <2>1. CASE Crash
    BY <2>1 DEF Crash, OwnTokens, Idle, Stages
  <2>2. ASSUME NEW r \in Requests, Lose(r) PROVE OwnTokens'
    BY <1>2, <2>2, FinishIs DEF Lose
  <2>3. ASSUME NEW r \in Requests, RemoveFails(r) PROVE OwnTokens'
    BY <1>3, <2>3, AdvanceIs DEF RemoveFails, At, Stages
  <2> QED
    BY <1>6, <2>1, <2>2, <2>3 DEF Fault
<1>7. CASE Tick \/ UNCHANGED vars
  BY <1>7 DEF Tick, vars, OwnTokens
<1> QED
  BY <1>4, <1>5, <1>6, <1>7 DEF Next

\* A step which takes at most sessions and refreshes under way away.
LEMMA CountReduced ==
  ASSUME SessionsCounted, opened' = opened, opened \in [Users -> Nat],
         stored' \subseteq stored,
         \A r \in Requests : At(r, "refresh", "adding")' =>
           At(r, "refresh", "adding") /\ request'[r].user = request[r].user
  PROVE  SessionsCounted'
<1> SUFFICES ASSUME NEW u \in Users
             PROVE  /\ IsFiniteSet(Held(u)') /\ IsFiniteSet(Swapping(u)')
                    /\ Cardinality(Held(u)') + Cardinality(Swapping(u)') <= opened[u]
  BY DEF SessionsCounted
<1>1. Held(u)' \in SUBSET Held(u) /\ IsFiniteSet(Held(u))
  BY DEF Held, SessionsCounted
<1>2. Swapping(u)' \in SUBSET Swapping(u) /\ IsFiniteSet(Swapping(u))
  BY DEF Swapping, SessionsCounted
<1>3. IsFiniteSet(Held(u)') /\ Cardinality(Held(u)') <= Cardinality(Held(u))
  BY <1>1, FS_Subset
<1>4. IsFiniteSet(Swapping(u)') /\ Cardinality(Swapping(u)') <= Cardinality(Swapping(u))
  BY <1>2, FS_Subset
<1>5. /\ Cardinality(Held(u)) \in Nat /\ Cardinality(Held(u)') \in Nat
      /\ Cardinality(Swapping(u)) \in Nat /\ Cardinality(Swapping(u)') \in Nat
  BY <1>1, <1>2, <1>3, <1>4, FS_CardinalityType
<1>6. Cardinality(Held(u)) + Cardinality(Swapping(u)) <= opened[u] /\ opened[u] \in Nat
  BY DEF SessionsCounted
<1> HIDE DEF Held, Swapping
<1> QED
  BY <1>3, <1>4, <1>5, <1>6

\* A refresh that pulls a token takes its place in the count.
LEMMA SwapCounted ==
  ASSUME SessionInv, OwnTokens, SessionsCounted, NEW r \in Requests, Others(r), Swaps(r)
  PROVE  SessionsCounted'
<1> SUFFICES ASSUME NEW u \in Users
             PROVE  /\ IsFiniteSet(Held(u)') /\ IsFiniteSet(Swapping(u)')
                    /\ Cardinality(Held(u)') + Cardinality(Swapping(u)') <= opened'[u]
  BY DEF SessionsCounted
<1> DEFINE q == request[r]
<1>1. q \in Request /\ q.at = "issued" /\ q.at \in Stages /\ q.kind = "refresh"
  BY DEF Swaps, SameRequest, Stages
<1>2. q.token \in Token /\ q.token \in stored
  BY DEF SessionInv, TypeOK, Swaps, SameRequest
<1>3. q.token.user = q.user
  BY <1>1, <1>2, SessionAssumption DEF OwnTokens
<1>4. request'[r].at = "adding" /\ request'[r].kind = "refresh" /\ request'[r].user = q.user
  BY <1>1 DEF Swaps, SameRequest
<1>5. /\ IsFiniteSet(Held(u)) /\ IsFiniteSet(Swapping(u))
      /\ Cardinality(Held(u)) + Cardinality(Swapping(u)) <= opened[u]
      /\ opened' = opened
  BY DEF SessionsCounted, Swaps
<1>6. CASE q.user = u
  <2>1. Held(u)' = Held(u) \ {q.token} /\ q.token \in Held(u)
    BY <1>2, <1>3, <1>6 DEF Held, Swaps
  <2>2. Swapping(u)' = Swapping(u) \cup {r} /\ r \notin Swapping(u)
    BY <1>1, <1>4, <1>6 DEF Swapping, At, Others
  <2>3. /\ IsFiniteSet(Held(u)') /\ Cardinality(Held(u)') = Cardinality(Held(u)) - 1
        /\ IsFiniteSet(Swapping(u)') /\ Cardinality(Swapping(u)') = Cardinality(Swapping(u)) + 1
    <3>1. /\ IsFiniteSet(Held(u) \ {q.token})
          /\ Cardinality(Held(u) \ {q.token}) =
               IF q.token \in Held(u) THEN Cardinality(Held(u)) - 1 ELSE Cardinality(Held(u))
      BY <1>5, FS_RemoveElement
    <3>2. /\ IsFiniteSet(Swapping(u) \cup {r})
          /\ Cardinality(Swapping(u) \cup {r}) =
               IF r \in Swapping(u) THEN Cardinality(Swapping(u)) ELSE Cardinality(Swapping(u)) + 1
      BY <1>5, FS_AddElement
    <3> QED
      BY <2>1, <2>2, <3>1, <3>2
  <2>4. Cardinality(Held(u)) \in Nat /\ Cardinality(Swapping(u)) \in Nat
    BY <1>5, FS_CardinalityType
  <2> QED
    BY <1>5, <2>3, <2>4
<1>7. CASE q.user # u
  <2>1. Held(u)' = Held(u)
    BY <1>2, <1>3, <1>7 DEF Held, Swaps
  <2>2. Swapping(u)' = Swapping(u)
    BY <1>1, <1>4, <1>7 DEF Swapping, At, Others
  <2> QED
    BY <1>5, <2>1, <2>2
<1> QED
  BY <1>6, <1>7

\* And gives it back to the token it stores; other tokens are of sessions
\* that are opened.
LEMMA StoreCounted ==
  ASSUME SessionInv, OwnTokens, SessionsCounted, NEW r \in Requests, Others(r), Stores(r)
  PROVE  SessionsCounted'
<1> SUFFICES ASSUME NEW u \in Users
             PROVE  /\ IsFiniteSet(Held(u)') /\ IsFiniteSet(Swapping(u)')
                    /\ Cardinality(Held(u)') + Cardinality(Swapping(u)') <= opened'[u]
  BY DEF SessionsCounted
<1> DEFINE q == request[r]
<1>1. q \in Request /\ q.at = "adding" /\ q.at \in Stages /\ q.next \in Token
  BY DEF Stores, SameRequest, Stages
<1>2. q.next.user = q.user
  BY <1>1, SessionAssumption DEF OwnTokens
<1>3. request'[r].at # "adding" /\ q.user \in Users
  BY <1>1 DEF Stores, Request
<1>4. /\ IsFiniteSet(Held(u)) /\ IsFiniteSet(Swapping(u))
      /\ Cardinality(Held(u)) + Cardinality(Swapping(u)) <= opened[u]
      /\ opened \in [Users -> Nat]
  BY DEF SessionsCounted, SessionInv, TypeOK
<1>5. Cardinality(Held(u)) \in Nat /\ Cardinality(Swapping(u)) \in Nat /\ opened[u] \in Nat
  BY <1>4, FS_CardinalityType
<1>6. CASE q.user = u
  <2>1. Held(u)' = Held(u) \cup {q.next}
    BY <1>1, <1>2, <1>6 DEF Held, Stores
  <2>2. /\ IsFiniteSet(Held(u)') /\ Cardinality(Held(u)') <= Cardinality(Held(u)) + 1
        /\ Cardinality(Held(u)') \in Nat
    <3>1. /\ IsFiniteSet(Held(u) \cup {q.next})
          /\ Cardinality(Held(u) \cup {q.next}) =
               IF q.next \in Held(u) THEN Cardinality(Held(u)) ELSE Cardinality(Held(u)) + 1
      BY <1>4, FS_AddElement
    <3> QED
      BY <1>5, <2>1, <3>1
  <2>3. CASE q.kind = "refresh"
    <3>1. Swapping(u)' = Swapping(u) \ {r} /\ r \in Swapping(u)
      BY <1>1, <1>3, <1>6, <2>3 DEF Swapping, At, Others
    <3>2. IsFiniteSet(Swapping(u)') /\ Cardinality(Swapping(u)') = Cardinality(Swapping(u)) - 1
      BY <1>4, <3>1, FS_RemoveElement
    <3>3. opened' = opened
      BY <2>3 DEF Stores
    <3> QED
      BY <1>4, <1>5, <2>2, <3>2, <3>3
  <2>4. CASE q.kind # "refresh"
    <3>1. Swapping(u)' = Swapping(u)
      BY <1>1, <1>3, <2>4 DEF Swapping, At, Others
    <3>2. opened'[u] = opened[u] + 1
      BY <1>2, <1>4, <1>6, <2>4 DEF Stores
    <3> QED
      BY <1>4, <1>5, <2>2, <3>1, <3>2
  <2> QED
    BY <2>3, <2>4
<1>7. CASE q.user # u
  <2>1. Held(u)' = Held(u)
    BY <1>1, <1>2, <1>7 DEF Held, Stores
  <2>2. Swapping(u)' = Swapping(u)
    BY <1>1, <1>3, <1>7 DEF Swapping, At, Others
  <2>3. opened'[u] = opened[u]
    BY <1>2, <1>4, <1>7 DEF Stores
  <2> QED
    BY <1>4, <2>1, <2>2, <2>3
<1> QED
  BY <1>6, <1>7

\* Every step leaves no more sessions than were opened.
LEMMA SessionsCountedKept ==
  SessionInv /\ OwnTokens /\ SessionsCounted /\ [Next]_vars => SessionsCounted'
<1> SUFFICES ASSUME SessionInv, OwnTokens, SessionsCounted, [Next]_vars
             PROVE  SessionsCounted'
  OBVIOUS
<1> RequestsOK /\ TypeOK /\ opened \in [Users -> Nat]
  BY DEF SessionInv, TypeOK, RequestsOK
<1>1. ASSUME NEW r \in Requests, Others(r), UNCHANGED opened, stored' \subseteq stored,
             At(r, "refresh", "adding")' =>
               At(r, "refresh", "adding") /\ request'[r].user = request[r].user
      PROVE  SessionsCounted'
  BY <1>1, CountReduced DEF Others, At
<1>2. ASSUME NEW r \in Requests, Send(r) PROVE SessionsCounted'
  <2>1. /\ Others(r) /\ UNCHANGED <<stored, opened>>
        /\ request'[r].at = "sent"
    BY <1>2 DEF Send, SignIn, UseCookie, Others, RequestsOK, storeVars, historyVars
  <2> QED
    BY <1>1, <2>1 DEF At
<1>3. ASSUME NEW r \in Requests, Handle(r) PROVE SessionsCounted'
  <2>1. /\ Others(r)
        /\ \/ Prepares(r) \/ Swaps(r) \/ Stores(r) \/ Leaves(r)
           \/ Replies(r) \/ TurnsAway(r)
    BY <1>3, HandleIs
  <2>2. CASE Prepares(r)
    BY <1>1, <2>1, <2>2 DEF Prepares, At, historyVars
  <2>3. CASE Leaves(r)
    BY <1>1, <2>1, <2>3 DEF Leaves, At, historyVars
  <2>4. CASE Replies(r) \/ TurnsAway(r)
    BY <1>1, <2>1, <2>4 DEF Replies, TurnsAway, At, Idle, historyVars
  <2> QED
    BY <2>1, <2>2, <2>3, <2>4, SwapCounted, StoreCounted
<1>4. CASE Fault
  <2>1. CASE Crash
    BY <2>1, CountReduced DEF Crash, At, Idle, storeVars, historyVars
  <2>2. ASSUME NEW r \in Requests, Lose(r) PROVE SessionsCounted'
    BY <1>1, <2>2, FinishIs DEF Lose, At, Idle, storeVars, historyVars
  <2>3. ASSUME NEW r \in Requests, RemoveFails(r) PROVE SessionsCounted'
    <3>1. Others(r) /\ request'[r].at = "answering"
      BY <2>3, AdvanceIs DEF RemoveFails, At, Stages
    <3> QED
      BY <1>1, <2>3, <3>1 DEF RemoveFails, At, storeVars, historyVars
  <2> QED
    BY <1>4, <2>1, <2>2, <2>3 DEF Fault
<1>5. CASE Tick \/ UNCHANGED vars
  BY <1>5, CountReduced DEF Tick, vars, At, storeVars, historyVars
<1> QED
  BY <1>2, <1>3, <1>4, <1>5 DEF Next

\* However refreshes of one or several browsers overlap, are lost or cut off by
\* a crash, a user never comes to have more sessions than were opened.
THEOREM SessionsNotMultipliedHolds == Spec => []SessionsNotMultiplied
<1>1. Init => OwnTokens
  BY DEF Init, OwnTokens, Idle, Stages
<1>2. Init => SessionsCounted
  <2> SUFFICES ASSUME Init, NEW u \in Users
               PROVE  /\ IsFiniteSet(Held(u)) /\ IsFiniteSet(Swapping(u))
                      /\ Cardinality(Held(u)) + Cardinality(Swapping(u)) <= opened[u]
    BY DEF SessionsCounted
  <2>1. Held(u) = {} /\ Swapping(u) = {} /\ opened[u] = 0
    BY DEF Init, Held, Swapping, At, Idle
  <2> QED
    BY <2>1, FS_EmptySet
<1>3. SessionInv /\ OwnTokens /\ [Next]_vars => OwnTokens'
  BY OwnTokensKept
<1>4. SessionsCounted => SessionsNotMultiplied
  BY DEF SessionsCounted, SessionsNotMultiplied, Held, Swapping
<1> QED
  BY <1>1, <1>2, <1>3, <1>4, SessionInvariant, SessionsCountedKept, PTL DEF Spec

-----------------------------------------------------------------------------
(* A browser is left with a token that is honoured.                        *)

Presents(r, t) == request[r].at \in Stages /\ request[r].token = t
Receives(r, t) == request[r].at = "answering" /\ request[r].next = t
HasSeen(b, t) ==
  cookie[b] = t \/ \E r \in Requests : Presents(r, t) /\ request[r].browser = b

\* The token is not in the store because of r, which is to replace the cookie.
Pulls(r, t) == Presents(r, t) /\ request[r].at \in {"adding", "answering"}

\* One that was stored once has been seen by the one browser it was issued to,
\* or is on its way there, and only requests of that browser pull it.
TokenTraced(t) ==
  /\ granted[t] = 0 => /\ \A b \in Browsers : ~ HasSeen(b, t)
                       /\ \A r \in Requests : ~ Receives(r, t)
  /\ granted[t] = 1 =>
       /\ \A b, c \in Browsers : HasSeen(b, t) /\ HasSeen(c, t) => b = c
       /\ \A r \in Requests : Receives(r, t) =>
            /\ t \in stored
            /\ \A b \in Browsers : ~ HasSeen(b, t)
            /\ \A s \in Requests : Receives(s, t) => s = r
       /\ \A b \in Browsers : cookie[b] = t =>
            t \in stored \/ \E r \in Requests : Pulls(r, t)

\* While nothing fails, every token can be traced.
Traced == faults = 0 => \A t \in Token : TokenTraced(t)

\* A request which shows nobody a token he has not seen, and stores none.
LEMMA TraceKept ==
  ASSUME SessionInv, NEW t \in Token, TokenTraced(t), NEW r \in Requests, Others(r),
         granted' = granted, cookie' = cookie,
         \A b \in Browsers :
           Presents(r, t)' /\ request'[r].browser = b => HasSeen(b, t),
         ~ Receives(r, t)',
         Pulls(r, t) => Pulls(r, t)',
         t \in stored \ stored' => Pulls(r, t)' /\ Presents(r, t)
  PROVE  TokenTraced(t)'
<1> cookie \in [Browsers -> Token \cup {NoToken}] /\ request \in [Requests -> Request \cup {Idle}]
  BY DEF SessionInv, TypeOK
<1>1. \A x \in Requests \ {r} :
        /\ Presents(x, t)' <=> Presents(x, t)
        /\ Receives(x, t)' <=> Receives(x, t)
        /\ Pulls(x, t)' <=> Pulls(x, t)
        /\ request'[x].browser = request[x].browser
  BY DEF Others, Presents, Receives, Pulls
<1>2. \A b \in Browsers : HasSeen(b, t)' => HasSeen(b, t)
  BY <1>1 DEF HasSeen
<1>3. \A x \in Requests : Receives(x, t)' => Receives(x, t)
  BY <1>1
<1>4. ASSUME granted[t] = 1
      PROVE  /\ \A x \in Requests : Receives(x, t)' => t \in stored'
             /\ \A b \in Browsers : cookie[b] = t =>
                  t \in stored' \/ \E x \in Requests : Pulls(x, t)'
  <2>1. t \in stored \ stored' => \A x \in Requests : ~ Receives(x, t)'
    <3> SUFFICES ASSUME t \in stored \ stored', NEW x \in Requests, Receives(x, t)
                 PROVE  FALSE
      BY <1>3
    <3>1. Presents(r, t) /\ request[r].browser \in Browsers
      BY DEF Presents, Request, Idle, Stages
    <3>2. HasSeen(request[r].browser, t)
      BY <3>1 DEF HasSeen
    <3> QED
      BY <1>4, <3>1, <3>2 DEF TokenTraced
  <2>2. \A x \in Requests : Receives(x, t)' => t \in stored'
    BY <1>3, <1>4, <2>1 DEF TokenTraced
  <2>3. \A b \in Browsers : cookie[b] = t =>
          t \in stored' \/ \E x \in Requests : Pulls(x, t)'
    <3> SUFFICES ASSUME NEW b \in Browsers, cookie[b] = t, t \notin stored'
                 PROVE  \E x \in Requests : Pulls(x, t)'
      OBVIOUS
    <3>1. CASE t \in stored
      BY <3>1
    <3>2. CASE t \notin stored
      <4>1. PICK x \in Requests : Pulls(x, t)
        BY <1>4, <3>2 DEF TokenTraced
      <4> QED
        BY <1>1, <4>1
    <3> QED
      BY <3>1, <3>2
  <2> QED
    BY <2>2, <2>3
<1> QED
  BY <1>2, <1>3, <1>4 DEF TokenTraced

\* A token that is stored for the first time was nowhere before.
LEMMA StoreTraced ==
  ASSUME SessionInv, NEW t \in Token, TokenTraced(t), NEW r \in Requests, Others(r), Stores(r)
  PROVE  TokenTraced(t)'
<1> DEFINE n == request[r].next
<1>1. /\ request[r] \in Request /\ request'[r] \in Request
      /\ request[r].at = "adding" /\ request'[r].at = "answering"
      /\ request'[r].next = n /\ n \in Token
      /\ request'[r].token = request[r].token /\ request'[r].browser = request[r].browser
      /\ stored' = stored \cup {n} /\ cookie' = cookie
      /\ granted' = [granted EXCEPT ![n] = @ + 1]
  BY DEF Stores, SameRequest
<1>2. granted \in [Token -> Nat]
  BY DEF SessionInv, TypeOK
<1>3. CASE n # t
  <2>1. granted'[t] = granted[t] /\ (t \in stored' <=> t \in stored)
    BY <1>1, <1>2, <1>3
  <2>2. \A x \in Requests : /\ Presents(x, t)' <=> Presents(x, t)
                            /\ Receives(x, t)' <=> Receives(x, t)
                            /\ Pulls(x, t)' <=> Pulls(x, t)
                            /\ request'[x].browser = request[x].browser
    BY <1>1, <1>3 DEF Others, Presents, Receives, Pulls, Stages
  <2>3. \A b \in Browsers : HasSeen(b, t)' <=> HasSeen(b, t)
    BY <1>1, <2>2 DEF HasSeen
  <2> QED
    BY <1>1, <2>1, <2>2, <2>3 DEF TokenTraced
<1>4. CASE n = t
  <2>1. granted'[t] = granted[t] + 1 /\ granted[t] \in Nat /\ t \in stored'
    BY <1>1, <1>2, <1>4
  <2>2. CASE granted[t] = 0
    <3>1. /\ \A b \in Browsers : ~ HasSeen(b, t)
          /\ \A x \in Requests : ~ Receives(x, t)
      BY <2>2 DEF TokenTraced
    <3>2. \A x \in Requests : /\ Presents(x, t)' <=> Presents(x, t)
                              /\ request'[x].browser = request[x].browser
      BY <1>1 DEF Others, Presents, Stages
    <3>3. \A b \in Browsers : ~ HasSeen(b, t)'
      BY <1>1, <3>1, <3>2 DEF HasSeen
    <3>4. \A x \in Requests : Receives(x, t)' => x = r
      BY <3>1 DEF Others, Receives
    <3>5. \A b \in Browsers : cookie'[b] # t
      BY <3>3 DEF HasSeen
    <3> QED
      BY <2>1, <2>2, <3>3, <3>4, <3>5 DEF TokenTraced
  <2>3. CASE granted[t] # 0
    BY <2>1, <2>3 DEF TokenTraced
  <2> QED
    BY <2>2, <2>3
<1> QED
  BY <1>3, <1>4

\* An answer replaces the cookie that its request may have pulled by one that
\* is honoured.
LEMMA ReplyTraced ==
  ASSUME SessionInv, NEW t \in Token, TokenTraced(t), NEW r \in Requests, Others(r), Replies(r)
  PROVE  TokenTraced(t)'
<1> DEFINE b0 == request[r].browser
<1>1. /\ request[r] \in Request /\ request[r].at = "answering" /\ request'[r] = Idle
      /\ cookie' = [cookie EXCEPT ![b0] = request[r].next]
      /\ stored' = stored /\ granted' = granted
  BY DEF Replies, historyVars
<1>2. b0 \in Browsers /\ cookie \in [Browsers -> Token \cup {NoToken}]
  BY <1>1 DEF SessionInv, TypeOK, Request
<1>3. \A x \in Requests \ {r} :
        /\ Presents(x, t)' <=> Presents(x, t)
        /\ Receives(x, t)' <=> Receives(x, t)
        /\ Pulls(x, t)' <=> Pulls(x, t)
        /\ request'[x].browser = request[x].browser
  BY DEF Others, Presents, Receives, Pulls
<1>4. ~ Presents(r, t)' /\ ~ Receives(r, t)' /\ ~ Pulls(r, t)'
  BY <1>1 DEF Presents, Receives, Pulls, Stages, Idle
<1>5. /\ cookie'[b0] = request[r].next
      /\ \A b \in Browsers \ {b0} : cookie'[b] = cookie[b]
  BY <1>1, <1>2
<1>6. \A b \in Browsers : HasSeen(b, t)' => HasSeen(b, t) \/ (b = b0 /\ Receives(r, t))
  BY <1>1, <1>3, <1>5, <1>4 DEF HasSeen, Receives
<1>7. CASE granted[t] = 1
  <2>1. \A b, c \in Browsers : HasSeen(b, t)' /\ HasSeen(c, t)' => b = c
    BY <1>6, <1>7 DEF TokenTraced
  <2>2. ASSUME NEW x \in Requests, Receives(x, t)'
        PROVE  /\ t \in stored'
               /\ \A b \in Browsers : ~ HasSeen(b, t)'
               /\ \A s \in Requests : Receives(s, t)' => s = x
    <3>1. x # r /\ Receives(x, t)
      BY <1>3, <1>4, <2>2
    <3>2. /\ t \in stored /\ \A b \in Browsers : ~ HasSeen(b, t)
          /\ \A s \in Requests : Receives(s, t) => s = x
      BY <1>7, <3>1 DEF TokenTraced
    <3> QED
      BY <1>1, <1>3, <1>6, <1>4, <3>1, <3>2
  <2>3. ASSUME NEW b \in Browsers, cookie'[b] = t, t \notin stored
        PROVE  \E x \in Requests : Pulls(x, t)'
    <3>1. ~ Receives(r, t)
      BY <1>7, <2>3 DEF TokenTraced
    <3>2. b # b0 /\ cookie[b] = t
      BY <1>1, <1>5, <2>3, <3>1 DEF Receives
    <3>3. PICK x \in Requests : Pulls(x, t)
      BY <1>7, <2>3, <3>2 DEF TokenTraced
    <3>4. x # r
      <4>1. HasSeen(b, t)
        BY <3>2 DEF HasSeen
      <4>2. x = r => HasSeen(b0, t)
        BY <3>3 DEF HasSeen, Pulls
      <4> QED
        BY <1>2, <1>7, <3>2, <4>1, <4>2 DEF TokenTraced
    <3> QED
      BY <1>3, <3>3, <3>4
  <2> QED
    BY <1>1, <1>7, <2>1, <2>2, <2>3 DEF TokenTraced
<1>8. CASE granted[t] = 0
  <2>1. \A b \in Browsers : ~ HasSeen(b, t)'
    BY <1>6, <1>8 DEF TokenTraced
  <2>2. \A x \in Requests : ~ Receives(x, t)'
    BY <1>3, <1>8, <1>4 DEF TokenTraced
  <2> QED
    BY <1>1, <1>8, <2>1, <2>2 DEF TokenTraced
<1>9. CASE granted[t] \notin {0, 1}
  BY <1>1, <1>9 DEF TokenTraced
<1> QED
  BY <1>7, <1>8, <1>9

\* Every step leaves a token granted once with one browser.
LEMMA TracedKept == SessionInv /\ Traced /\ [Next]_vars => Traced'
<1> SUFFICES ASSUME SessionInv, Traced, [Next]_vars, faults' = 0, NEW t \in Token
             PROVE  TokenTraced(t)'
  BY DEF Traced
<1> RequestsOK /\ TypeOK /\ faults \in Nat
  BY DEF SessionInv, TypeOK, RequestsOK
<1>1. CASE Fault
  BY <1>1 DEF Fault
<1>2. CASE Tick \/ UNCHANGED vars
  <2>1. UNCHANGED <<faults, request, cookie, granted, stored>>
    BY <1>2 DEF Tick, vars, storeVars, historyVars, boundVars
  <2> QED
    BY <2>1 DEF Traced, TokenTraced, HasSeen, Presents, Receives, Pulls
<1>3. ASSUME NEW r \in Requests, Send(r) PROVE TokenTraced(t)'
  <2>1. PICK b \in Browsers, kind \in Kinds :
          UseCookie(r, b, kind) \/ \E u \in Users : SignIn(r, b, u, kind)
    BY <1>3 DEF Send
  <2>2. /\ request[r] = Idle /\ Others(r)
        /\ UNCHANGED <<stored, cookie, granted, faults>>
    BY <2>1 DEF SignIn, UseCookie, Others, RequestsOK, storeVars, historyVars
  <2>3. /\ request'[r].at = "sent" /\ request'[r].browser = b
        /\ request'[r].token \in {cookie[b], NoToken}
    BY <2>1 DEF SignIn, UseCookie, RequestsOK
  <2>4. \A c \in Browsers : Presents(r, t)' /\ request'[r].browser = c => HasSeen(c, t)
    BY <2>3, SessionAssumption DEF Presents, HasSeen
  <2>5. ~ Receives(r, t)' /\ ~ Pulls(r, t)
    BY <2>2, <2>3 DEF Receives, Pulls, Presents, Idle
  <2>6. TokenTraced(t)
    BY <2>2 DEF Traced
  <2> QED
    BY <2>2, <2>4, <2>5, <2>6, TraceKept
<1>4. ASSUME NEW r \in Requests, Handle(r) PROVE TokenTraced(t)'
  <2>1. /\ Others(r)
        /\ \/ Prepares(r) \/ Swaps(r) \/ Stores(r) \/ Leaves(r)
           \/ Replies(r) \/ TurnsAway(r)
    BY <1>4, HandleIs
  <2>2. UNCHANGED faults
    BY <1>4 DEF Handle, CheckPassword, FindEmail, CreateUser, CreateWallet,
       CheckToken, IssueNext, Exchange, AddToken, RemoveToken, Answer, Refuse, boundVars
  <2>3. TokenTraced(t)
    BY <2>2 DEF Traced
  <2>4. ASSUME SameRequest(r)
        PROVE  /\ Presents(r, t)' => Presents(r, t)
               /\ \A b \in Browsers :
                    Presents(r, t)' /\ request'[r].browser = b => HasSeen(b, t)
               /\ Presents(r, t) <=> request[r].token = t
               /\ Presents(r, t)' <=> request[r].token = t
    BY <2>4 DEF SameRequest, Presents, HasSeen, Request
  <2>5. CASE Prepares(r)
    <3>1. ~ Receives(r, t)' /\ ~ Pulls(r, t) /\ UNCHANGED <<stored, cookie, granted>>
      BY <2>5 DEF Prepares, Receives, Pulls, historyVars
    <3>2. \A b \in Browsers : Presents(r, t)' /\ request'[r].browser = b => HasSeen(b, t)
      BY <2>4, <2>5 DEF Prepares
    <3> QED
      BY <2>1, <2>3, <3>1, <3>2, TraceKept
  <2>6. CASE Swaps(r)
    <3>1. /\ ~ Receives(r, t)' /\ ~ Pulls(r, t) /\ UNCHANGED <<cookie, granted>>
          /\ stored' = stored \ {request[r].token} /\ SameRequest(r)
          /\ request'[r].at = "adding"
      BY <2>6 DEF Swaps, Receives, Pulls
    <3>2. \A b \in Browsers : Presents(r, t)' /\ request'[r].browser = b => HasSeen(b, t)
      BY <2>4, <3>1
    <3>3. t \in stored \ stored' => Pulls(r, t)' /\ Presents(r, t)
      BY <2>4, <3>1 DEF Pulls
    <3> QED
      BY <2>1, <2>3, <3>1, <3>2, <3>3, TraceKept
  <2>7. CASE Leaves(r)
    <3>1. /\ ~ Receives(r, t)' /\ ~ Pulls(r, t) /\ UNCHANGED <<cookie, granted>>
          /\ stored' \in {stored, stored \ {request[r].token}} /\ SameRequest(r)
          /\ request'[r].at = "answering"
      BY <2>7, SessionAssumption DEF Leaves, Receives, Pulls, historyVars
    <3>2. \A b \in Browsers : Presents(r, t)' /\ request'[r].browser = b => HasSeen(b, t)
      BY <2>4, <3>1
    <3>3. t \in stored \ stored' => Pulls(r, t)' /\ Presents(r, t)
      BY <2>4, <3>1 DEF Pulls
    <3> QED
      BY <2>1, <2>3, <3>1, <3>2, <3>3, TraceKept
  <2>8. CASE TurnsAway(r)
    <3>1. /\ ~ Receives(r, t)' /\ ~ Presents(r, t)' /\ ~ Pulls(r, t)
          /\ UNCHANGED <<stored, cookie, granted>>
      BY <2>8 DEF TurnsAway, Receives, Presents, Pulls, Idle, Stages, historyVars
    <3> QED
      BY <2>1, <2>3, <3>1, TraceKept
  <2> QED
    BY <2>1, <2>3, <2>5, <2>6, <2>7, <2>8, StoreTraced, ReplyTraced
<1> QED
  BY <1>1, <1>2, <1>3, <1>4 DEF Next

\* While nothing fails, the browser whose refreshes and logouts overlapped
\* keeps a cookie that is honoured, or none.
THEOREM CookieHonouredHolds == Spec => []CookieHonoured
<1>1. Init => Traced
  BY SessionAssumption
  DEF Init, Traced, TokenTraced, HasSeen, Presents, Receives, Idle, Stages
<1>2. SessionInv /\ Traced => CookieHonoured
  <2> SUFFICES ASSUME SessionInv, Traced, AtRest, NEW b \in Browsers,
                      cookie[b] # NoToken, granted[cookie[b]] = 1
               PROVE  cookie[b] \in stored
    BY DEF CookieHonoured
  <2>1. cookie[b] \in Token
    BY DEF SessionInv, TypeOK
  <2>2. TokenTraced(cookie[b])
    BY <2>1 DEF Traced, AtRest
  <2>3. \A r \in Requests : ~ Pulls(r, cookie[b])
    BY DEF Pulls, AtRest, Idle
  <2> QED
    BY <2>2, <2>3 DEF TokenTraced
<1> QED
  BY <1>1, <1>2, SessionInvariant, TracedKept, PTL DEF Spec
=============================================================================
