-------------------------- MODULE SessionProperties --------------------------
(* What accounts and sessions promise. *)
EXTENDS Sessions, FiniteSets

RequestOK(q) ==
  /\ q.kind \in {"refresh", "logout"} => q.token \in Token
  /\ q.kind \in {"register", "login"} => q.token = NoToken
  /\ q.kind = "logout" => q.at \in {"sent", "answering"} /\ q.next = NoToken
  /\ q.at \in {"hashing", "created"} => q.kind = "register"
  /\ q.at \in {"checked", "issued"} => q.kind = "refresh"
  /\ q.at \in {"issued", "adding"} => q.next \in Token

\* Types: a request is at an await of its own handler, and has issued a
\* token by the time it stores one.
TypeOK ==
  /\ clock \in 0..MaxTime /\ sends \in Nat /\ faults \in Nat
  /\ accounts \subseteq Users /\ wallets \subseteq Users
  /\ stored \subseteq Token
  /\ cookie \in [Browsers -> Token \cup {NoToken}]
  /\ request \in [Requests -> Request \cup {Idle}]
  /\ \A r \in Requests : request[r] # Idle => RequestOK(request[r])
  /\ granted \in [Token -> Nat]
  /\ exchanged \in [Token -> Nat]
  /\ opened \in [Users -> Nat]

-----------------------------------------------------------------------------
\* However many refreshes present a token at once, each time it was stored
\* it is exchanged at most once; while it is in the store, once is left.
ExchangedOnce == \A t \in Token :
  exchanged[t] + (IF t \in stored THEN 1 ELSE 0) <= granted[t]

\* Refreshing opens no sessions: a user has no more of them, stored or about
\* to be stored by a refresh that pulled its token, than signed in.
SessionsNotMultiplied == \A u \in Users :
  Cardinality({t \in stored : t.user = u})
    + Cardinality({r \in Requests : At(r, "refresh", "adding") /\ request[r].user = u})
    <= opened[u]

\* A wallet belongs to an account, and two registrations of one email do not
\* both come to create its wallet.
WalletCreatedOnce ==
  /\ wallets \subseteq accounts
  /\ \A r \in Requests :
       request[r].at = "created" =>
         /\ request[r].user \in accounts \ wallets
         /\ \A s \in Requests \ {r} :
              request[s].at = "created" => request[s].user # request[r].user

AtRest == faults = 0 /\ \A r \in Requests : request[r] = Idle

\* While nothing fails, every account gets its wallet.
AccountsHaveWallets == AtRest => accounts = wallets

\* While nothing fails, a browser is left with a token that is honoured,
\* whatever refreshes and logouts of it overlapped: the losers' answers do
\* not touch the cookie.  Only a token granted twice may be pulled by
\* another browser.
CookieHonoured == AtRest => \A b \in Browsers :
  cookie[b] # NoToken /\ granted[cookie[b]] = 1 => cookie[b] \in stored

-----------------------------------------------------------------------------
\* README.md, line 3: rotated refresh authentication.  A refresh in the
\* second its token was issued exchanges the token for itself.
Rotates ==
  [][\A r \in Requests :
       At(r, "refresh", "adding") /\ request'[r].at = "answering"
         => request[r].token \notin stored']_vars
=============================================================================
