------------------------------ MODULE Sessions ------------------------------
(***************************************************************************)
(* The user service's accounts and sessions: register, login, refresh and  *)
(* logout as requests that run concurrently, each suspended at every       *)
(* MongoDB call, and the cookies that carry the refresh tokens.            *)
(*                                                                         *)
(* A refresh token is a signature over the user, the role (here fixed) and *)
(* the time in seconds: two tokens issued to a user in the same second are *)
(* the same token.  The store keeps their hashes, here the tokens.         *)
(***************************************************************************)
EXTENDS Integers

CONSTANTS
  Browsers,
  Users,
  Requests,    \* the requests that may be in progress at a time
  NoToken,
  Lifetime,    \* of a refresh token
  MaxTime,     \* bound on the clock
  MaxSends,    \* bound on the requests of a behaviour
  MaxFaults    \* bound on lost requests, crashes and failed logouts

VARIABLES
  clock,      \* in seconds
  accounts,   \* the users with a document in the users collection
  wallets,    \* the users with a document in the wallets collection
  stored,     \* the tokens in the users' refreshTokens arrays
  cookie,     \* the refresh token each browser holds
  request,    \* how far each request has got
  sends,      \* requests sent so far
  faults,     \* faults so far
  granted,    \* history: how often each token was stored
  exchanged,  \* history: how often each token was exchanged for another
  opened      \* history: sessions opened by logins and registrations

storeVars == <<accounts, wallets, stored>>
historyVars == <<granted, exchanged, opened>>
boundVars == <<clock, sends, faults>>
vars == <<storeVars, cookie, request, historyVars, boundVars>>

Token == [user : Users, iat : 0..MaxTime]

Kinds == {"register", "login", "refresh", "logout"}

\* The await a request is suspended at; "sent" is before the first.
Stages == {"sent", "hashing", "created", "checked", "issued", "adding",
           "answering"}

Idle == [at |-> "idle"]

Request == [kind : Kinds, browser : Browsers, user : Users, at : Stages,
            token : Token \cup {NoToken},  \* presented
            next : Token \cup {NoToken}]   \* issued

ASSUME SessionAssumption ==
  /\ NoToken \notin Token
  /\ Lifetime \in Nat /\ MaxTime \in Nat
  /\ MaxSends \in Nat /\ MaxFaults \in Nat

Init ==
  /\ clock = 0 /\ sends = 0 /\ faults = 0
  /\ accounts = {} /\ wallets = {} /\ stored = {}
  /\ cookie = [b \in Browsers |-> NoToken]
  /\ request = [r \in Requests |-> Idle]
  /\ granted = [t \in Token |-> 0]
  /\ exchanged = [t \in Token |-> 0]
  /\ opened = [u \in Users |-> 0]

-----------------------------------------------------------------------------
At(r, kind, stage) ==
  request[r].at = stage /\ request[r].kind = kind

Advance(r, stage) == request' = [request EXCEPT ![r].at = stage]

Finish(r) == request' = [request EXCEPT ![r] = Idle]

\* issueTokens, with what the request does next.
Issue(r, stage) ==
  request' = [request EXCEPT ![r].at = stage,
                             ![r].next = [user |-> request[r].user, iat |-> clock]]

\* verifyRefresh
Unexpired(t) == clock < t.iat + Lifetime

-----------------------------------------------------------------------------
(* What the browsers send.                                                 *)

SignIn(r, b, u, kind) ==
  /\ request[r] = Idle
  /\ kind \in {"register", "login"}
  /\ sends < MaxSends
  /\ sends' = sends + 1
  /\ request' = [request EXCEPT ![r] =
       [kind |-> kind, browser |-> b, user |-> u, at |-> "sent",
        token |-> NoToken, next |-> NoToken]]
  /\ UNCHANGED <<storeVars, cookie, historyVars, clock, faults>>

\* The frontend refreshes whenever a call is answered 401, so a browser may
\* have several refreshes in progress with the same cookie.
UseCookie(r, b, kind) ==
  /\ request[r] = Idle
  /\ kind \in {"refresh", "logout"}
  /\ cookie[b] # NoToken
  /\ sends < MaxSends
  /\ sends' = sends + 1
  /\ request' = [request EXCEPT ![r] =
       [kind |-> kind, browser |-> b, user |-> cookie[b].user, at |-> "sent",
        token |-> cookie[b], next |-> NoToken]]
  /\ UNCHANGED <<storeVars, cookie, historyVars, clock, faults>>

-----------------------------------------------------------------------------
(* login and registerUser.                                                 *)

CheckPassword(r) ==
  /\ At(r, "login", "sent")
  /\ request[r].user \in accounts
  /\ Issue(r, "adding")
  /\ UNCHANGED <<storeVars, cookie, historyVars, boundVars>>

FindEmail(r) ==
  /\ At(r, "register", "sent")
  /\ request[r].user \notin accounts
  /\ Advance(r, "hashing")
  /\ UNCHANGED <<storeVars, cookie, historyVars, boundVars>>

\* Mutant: no unique index on the email.
CreateUser_NoIndex(r) ==
  /\ At(r, "register", "hashing")
  /\ accounts' = accounts \cup {request[r].user}
  /\ Advance(r, "created")
  /\ UNCHANGED <<wallets, stored, cookie, historyVars, boundVars>>

\* The unique index on the email refuses the second of two documents.
CreateUser(r) ==
  /\ At(r, "register", "hashing")
  /\ request[r].user \notin accounts
  /\ accounts' = accounts \cup {request[r].user}
  /\ Advance(r, "created")
  /\ UNCHANGED <<wallets, stored, cookie, historyVars, boundVars>>

\* Mutant: the session is opened without creating the wallet.
CreateWallet_Skipped(r) ==
  /\ At(r, "register", "created")
  /\ Issue(r, "adding")
  /\ UNCHANGED <<storeVars, cookie, historyVars, boundVars>>

CreateWallet(r) ==
  /\ At(r, "register", "created")
  /\ wallets' = wallets \cup {request[r].user}
  /\ Issue(r, "adding")
  /\ UNCHANGED <<accounts, stored, cookie, historyVars, boundVars>>

-----------------------------------------------------------------------------
(* refresh.                                                                *)

\* verifyRefresh and hasRefreshToken
CheckToken(r) ==
  /\ At(r, "refresh", "sent")
  /\ Unexpired(request[r].token) /\ request[r].token \in stored
  /\ Advance(r, "checked")
  /\ UNCHANGED <<storeVars, cookie, historyVars, boundVars>>

\* Mutant: no token is issued.
IssueNext_Nothing(r) ==
  /\ At(r, "refresh", "checked")
  /\ Advance(r, "issued")
  /\ UNCHANGED <<storeVars, cookie, historyVars, boundVars>>

\* userDetails and issueTokens
IssueNext(r) ==
  /\ At(r, "refresh", "checked")
  /\ Issue(r, "issued")
  /\ UNCHANGED <<storeVars, cookie, historyVars, boundVars>>

\* Mutant: replaceRefreshToken does not look at modifiedCount.
Exchange_Unchecked(r) ==
  LET t == request[r].token
  IN  /\ At(r, "refresh", "issued")
      /\ stored' = stored \ {t}
      /\ exchanged' = [exchanged EXCEPT ![t] = @ + 1]
      /\ Advance(r, "adding")
      /\ UNCHANGED <<accounts, wallets, cookie, granted, opened, boundVars>>

\* The first half of replaceRefreshToken: of the refreshes that present a
\* token, one pulls it and goes on.
Exchange(r) ==
  LET t == request[r].token
  IN  /\ At(r, "refresh", "issued")
      /\ t \in stored
      /\ stored' = stored \ {t}
      /\ exchanged' = [exchanged EXCEPT ![t] = @ + 1]
      /\ Advance(r, "adding")
      /\ UNCHANGED <<accounts, wallets, cookie, granted, opened, boundVars>>

\* addRefreshToken, and the second half of replaceRefreshToken.
AddToken(r) ==
  LET t == request[r].next
  IN  /\ request[r].at = "adding"
      /\ stored' = stored \cup {t}
      /\ granted' = [granted EXCEPT ![t] = @ + 1]
      /\ opened' = IF request[r].kind = "refresh" THEN opened
                   ELSE [opened EXCEPT ![t.user] = @ + 1]
      /\ Advance(r, "answering")
      /\ UNCHANGED <<accounts, wallets, cookie, exchanged, boundVars>>

-----------------------------------------------------------------------------
\* removeRefreshToken; a token that does not verify is left where it is.
RemoveToken(r) ==
  /\ At(r, "logout", "sent")
  /\ stored' = IF Unexpired(request[r].token) THEN stored \ {request[r].token}
                                              ELSE stored
  /\ Advance(r, "answering")
  /\ UNCHANGED <<accounts, wallets, cookie, historyVars, boundVars>>

\* Mutant: refresh answers without the new cookie.
Answer_NoCookie(r) ==
  /\ request[r].at = "answering"
  /\ cookie' = IF request[r].kind = "refresh" THEN cookie
               ELSE [cookie EXCEPT ![request[r].browser] = request[r].next]
  /\ Finish(r)
  /\ UNCHANGED <<storeVars, historyVars, boundVars>>

\* The answer reaches the browser: it sets the cookie, or after a logout,
\* which issued nothing, clears it.
Answer(r) ==
  /\ request[r].at = "answering"
  /\ cookie' = [cookie EXCEPT ![request[r].browser] = request[r].next]
  /\ Finish(r)
  /\ UNCHANGED <<storeVars, historyVars, boundVars>>

\* An error answer leaves the cookie alone.
Refuse(r) ==
  /\ \/ At(r, "login", "sent") /\ request[r].user \notin accounts
     \/ At(r, "register", "sent") /\ request[r].user \in accounts
     \/ At(r, "register", "hashing") /\ request[r].user \in accounts
     \/ At(r, "refresh", "sent") /\ ~ Unexpired(request[r].token)
     \/ At(r, "refresh", "sent") /\ request[r].token \notin stored
     \/ At(r, "refresh", "issued") /\ request[r].token \notin stored
  /\ Finish(r)
  /\ UNCHANGED <<storeVars, cookie, historyVars, boundVars>>

-----------------------------------------------------------------------------
(* Faults.                                                                 *)

\* A database call fails, before or after it took effect, or the answer is
\* lost: the request ends and the browser keeps its cookie.
Lose(r) ==
  /\ request[r] # Idle
  /\ Finish(r)
  /\ UNCHANGED <<storeVars, cookie, historyVars, clock, sends>>

\* logout catches every error and clears the cookie all the same.
RemoveFails(r) ==
  /\ At(r, "logout", "sent")
  /\ Advance(r, "answering")
  /\ UNCHANGED <<storeVars, cookie, historyVars, clock, sends>>

Crash ==
  /\ \E r \in Requests : request[r] # Idle
  /\ request' = [r \in Requests |-> Idle]
  /\ UNCHANGED <<storeVars, cookie, historyVars, clock, sends>>

Fault ==
  /\ faults < MaxFaults
  /\ faults' = faults + 1
  /\ Crash \/ \E r \in Requests : Lose(r) \/ RemoveFails(r)

Tick ==
  /\ clock < MaxTime
  /\ clock' = clock + 1
  /\ UNCHANGED <<storeVars, cookie, request, historyVars, sends, faults>>

Send(r) ==
  \E b \in Browsers, kind \in Kinds :
    UseCookie(r, b, kind) \/ \E u \in Users : SignIn(r, b, u, kind)

Handle(r) ==
  \/ CheckPassword(r) \/ FindEmail(r) \/ CreateUser(r) \/ CreateWallet(r)
  \/ CheckToken(r) \/ IssueNext(r) \/ Exchange(r) \/ AddToken(r)
  \/ RemoveToken(r) \/ Answer(r) \/ Refuse(r)

Next == Fault \/ Tick \/ \E r \in Requests : Send(r) \/ Handle(r)

Spec == Init /\ [][Next]_vars
=============================================================================
