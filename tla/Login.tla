-------------------------------- MODULE Login --------------------------------
(***************************************************************************)
(* How a browser logs in to carta-ctl, stays logged in and logs out.  The  *)
(* controller keeps nothing of a login: what there is to know is in the    *)
(* cookies all tabs share and in the tokens they hold.  A request carries  *)
(* the cookies of the moment it was sent and is answered later, after      *)
(* requests of other tabs, a restart of the controller, or never.          *)
(*                                                                         *)
(* The identity provider and PAM decide by themselves who a user is; the   *)
(* provider gives a code, which it takes back once.                        *)
(***************************************************************************)
EXTENDS Startup

CONSTANTS
  Tabs,
  Users,
  Flows,       \* logins at the provider: a state and a code verifier
  Nil,         \* no cookie, no request, no code
  AccessAge,   \* access_token_age and refresh_token_age
  RefreshAge,
  MaxTime,     \* bounds of a behaviour
  MaxLogins

ASSUME AgeAssumption == AccessAge \in Nat \ {0} /\ RefreshAge \in Nat \ {0}
ASSUME BoundAssumption == MaxTime \in Nat /\ MaxLogins \in Nat

VARIABLES
  now,
  endSession,  \* whether the provider's metadata had an end_session_endpoint
               \* when the controller read it
  flow,        \* flow[f]: how far it is at the provider
  code,        \* code[f]: the user the provider has a code of flow f for
  logins,      \* history: who logged in, how, when, and whether the answer
               \* set the ID token cookies
  out,         \* history: the logins the browser was logged out of
  refresh,     \* cookie refresh_token
  pkce,        \* cookies oidc_state and oidc_code_verifier: their flow
  idToken,     \* cookies oidc_id_token and oidc_logout_endpoint: their login
  request,     \* request[t]: what tab t waits for the answer of
  access       \* access[t]: the access token of tab t

jarVars == <<refresh, pkce, idToken>>
histVars == <<logins, out>>
providerVars == <<endSession, flow, code>>
loginVars == <<now, providerVars, histVars, jarVars, request, access>>
vars == <<startVars, loginVars>>

Times == 0..MaxTime
Serials == 1..MaxLogins
Sources == {"pam", "oidc", "unknown"}

(* TokenClaims.  login and late are history: the login a token goes back   *)
(* to, and whether the browser was logged out of it when it asked.         *)
Token == [type : {"access", "refresh"}, username : Users, source : Sources,
          exp : Nat, login : Serials, late : BOOLEAN]

Request ==
  [kind : {"refresh"}, cookie : Token \cup {Nil}, late : BOOLEAN] \cup
  [kind : {"callback"}, flow : Flows, cookie : Flows \cup {Nil}] \cup
  [kind : {"logout"}, hint : Serials \cup {Nil}]

(* Nil is no token, request, user or flow. *)
ASSUME NilAssumption == Nil \notin Token \cup Request \cup Users \cup Flows \cup Serials

TypeOK ==
  /\ StartTypeOK
  /\ now \in Times
  /\ endSession \in BOOLEAN
  /\ flow \in [Flows -> {"new", "begun", "signed"}]
  /\ code \in [Flows -> Users \cup {Nil}]
  /\ logins \in Seq([user : Users, source : Sources, at : Times, hinted : BOOLEAN])
  /\ Len(logins) =< MaxLogins
  /\ out \subseteq Serials
  /\ refresh \in Token \cup {Nil}
  /\ pkce \in Flows \cup {Nil}
  /\ idToken \in Serials \cup {Nil}
  /\ request \in [Tabs -> Request \cup {Nil}]
  /\ access \in [Tabs -> Token \cup {Nil}]

LoginInit ==
  /\ now = 0
  /\ endSession = FALSE
  /\ flow = [f \in Flows |-> "new"]
  /\ code = [f \in Flows |-> Nil]
  /\ logins = <<>>
  /\ out = {}
  /\ refresh = Nil
  /\ pkce = Nil
  /\ idToken = Nil
  /\ request = [t \in Tabs |-> Nil]
  /\ access = [t \in Tabs |-> Nil]

-----------------------------------------------------------------------------
Age(type) == IF type = "refresh" THEN RefreshAge ELSE AccessAge

(* Mutant: a source that was added later is not known here. *)
NormalizeSource_old(source) == IF source = "pam" THEN source ELSE "unknown"

NormalizeSource(source) == IF source \in {"pam", "oidc"} THEN source ELSE "unknown"

GenerateToken(username, source, type, login, late) ==
  [type |-> type, username |-> username, source |-> NormalizeSource(source),
   exp |-> now + Age(type), login |-> login, late |-> late]

(* Mutant: the signature is verified, the claims are not. *)
VerifyToken_signature(token, type) ==
  /\ token # Nil
  /\ "keys" \in ready
  /\ token.type = type

VerifyToken(token, type) ==
  /\ token # Nil
  /\ "keys" \in ready
  /\ now < token.exp
  /\ token.type = type

(* userFromAccessToken, before every request under /api and every WebSocket. *)
Accepts(token) == VerifyToken(token, "access")

(* A browser sends a cookie until it expires, together with its token. *)
Live(cookie) == IF cookie # Nil /\ now < cookie.exp THEN cookie ELSE Nil

-----------------------------------------------------------------------------
(* A tab sends a request. *)
Send(t, endpoint, r) ==
  /\ stage = "serving"
  /\ endpoint \in served
  /\ request[t] = Nil
  /\ request' = [request EXCEPT ![t] = r]

SendRefresh(t) ==
  /\ Send(t, "refresh", [kind |-> "refresh", cookie |-> Live(refresh),
                         late |-> refresh # Nil /\ refresh.login \in out])
  /\ UNCHANGED <<now, providerVars, histVars, jarVars, access>>

SendLogout(t) ==
  /\ Send(t, "logout", [kind |-> "logout", hint |-> idToken])
  /\ UNCHANGED <<now, providerVars, histVars, jarVars, access>>

(* A request for a login reads no cookie and does nothing until it is      *)
(* answered: it is one step.                                               *)
Calls(t, endpoint) ==
  /\ stage = "serving"
  /\ endpoint \in served
  /\ request[t] = Nil
  /\ UNCHANGED request

(* LoginHandler and the redirection. *)
BeginLogin(t) ==
  /\ Calls(t, "oidc_login")
  /\ \E f \in Flows :
       /\ flow[f] = "new"
       /\ flow' = [flow EXCEPT ![f] = "begun"]
       /\ pkce' = f
  /\ UNCHANGED <<now, endSession, code, histVars, refresh, idToken, access>>

SendCallback(t, f) ==
  Send(t, "oidc_callback", [kind |-> "callback", flow |-> f, cookie |-> pkce])

(* A user proves at the provider who they are. *)
SignIn(t) ==
  /\ \E f \in Flows, u \in Users :
       /\ flow[f] = "begun"
       /\ flow' = [flow EXCEPT ![f] = "signed"]
       /\ code' = [code EXCEPT ![f] = u]
       /\ SendCallback(t, f)
  /\ UNCHANGED <<now, endSession, histVars, jarVars, access>>

(* A tab loads the URL of a callback once more. *)
Reload(t) ==
  /\ \E f \in Flows : flow[f] = "signed" /\ SendCallback(t, f)
  /\ UNCHANGED <<now, providerVars, histVars, jarVars, access>>

-----------------------------------------------------------------------------
(* The controller answers, and the browser takes what it sets.             *)
Asks(t, kind) ==
  /\ stage = "serving"
  /\ request[t] # Nil
  /\ request[t].kind = kind
  /\ request' = [request EXCEPT ![t] = Nil]

(* SetRefreshTokenCookie, for a login that is new. *)
LogIn(user, source, hinted) ==
  /\ Len(logins) < MaxLogins
  /\ logins' = Append(logins, [user |-> user, source |-> source, at |-> now,
                               hinted |-> hinted])
  /\ refresh' = GenerateToken(user, source, "refresh", Len(logins) + 1, FALSE)

(* NewLoginHandler, for a user and a password PAM takes. *)
PamLogin(t) ==
  /\ Calls(t, "pam_login")
  /\ \E user \in Users : LogIn(user, "pam", FALSE)
  /\ UNCHANGED <<now, providerVars, out, pkce, idToken, access>>

IssueAccess(t) ==
  access' = [access EXCEPT ![t] =
    GenerateToken(request[t].cookie.username, NormalizeSource(request[t].cookie.source),
                  "access", request[t].cookie.login, request[t].late)]

(* Mutant: the refresh cookie is renewed with every access token. *)
RefreshAnswered_sliding(t) ==
  /\ Asks(t, "refresh")
  /\ VerifyToken(request[t].cookie, "refresh")
  /\ IssueAccess(t)
  /\ refresh' = GenerateToken(request[t].cookie.username, request[t].cookie.source,
                              "refresh", request[t].cookie.login, FALSE)
  /\ UNCHANGED <<now, providerVars, histVars, pkce, idToken>>

(* RefreshHandler; an answer that is lost is NoAnswer. *)
RefreshAnswered(t) ==
  /\ Asks(t, "refresh")
  /\ VerifyToken(request[t].cookie, "refresh")
  /\ IssueAccess(t)
  /\ UNCHANGED <<now, providerVars, histVars, jarVars>>

(* Mutant: the error of the exchange is not looked at. *)
Exchanged_anyway(r) == TRUE

(* The provider has the code, and has not taken it back. *)
Exchanged(r) == code[r.flow] # Nil

SameState(r) == r.cookie = r.flow

(* CallbackHandler, from the exchange of the code on: where the provider   *)
(* has no end_session_endpoint the answer is an error, and the refresh     *)
(* cookie is set all the same.                                             *)
CallbackLogsIn(t) ==
  /\ Asks(t, "callback")
  /\ SameState(request[t])
  /\ Exchanged(request[t])
  /\ LogIn(code[request[t].flow], "oidc", endSession)
  /\ pkce' = Nil
  /\ idToken' = IF endSession THEN Len(logins) + 1 ELSE idToken
  /\ code' = [code EXCEPT ![request[t].flow] = Nil]
  /\ UNCHANGED <<now, endSession, flow, out, access>>

(* The exchange fails; or the code is spent and the ID token no good, or   *)
(* the answer is lost.                                                     *)
CallbackFails(t) ==
  /\ Asks(t, "callback")
  /\ SameState(request[t])
  /\ code' \in {code, [code EXCEPT ![request[t].flow] = Nil]}
  /\ pkce' \in {pkce, Nil}
  /\ UNCHANGED <<now, endSession, flow, histVars, refresh, idToken, access>>

LoggedOut == IF refresh = Nil THEN out ELSE out \cup {refresh.login}

(* Mutant: logout leaves the cookies of the provider's session. *)
LogoutAnswered_local(t) ==
  /\ Asks(t, "logout")
  /\ refresh' = Nil
  /\ out' = LoggedOut
  /\ UNCHANGED <<now, providerVars, logins, pkce, idToken, access>>

(* LogoutHandler: the answer clears the cookies the browser has by then,   *)
(* and leads to the provider with the ID token that came with the request. *)
LogoutAnswered(t) ==
  /\ Asks(t, "logout")
  /\ refresh' = Nil
  /\ idToken' = Nil
  /\ out' = LoggedOut
  /\ UNCHANGED <<now, providerVars, logins, pkce, access>>

(* A request is refused, or its answer, if it sets no cookie, is lost.     *)
NoAnswer(t) ==
  /\ request[t] # Nil
  /\ request' = [request EXCEPT ![t] = Nil]
  /\ UNCHANGED <<now, providerVars, histVars, jarVars, access>>

-----------------------------------------------------------------------------
Tick ==
  /\ now < MaxTime
  /\ now' = now + 1
  /\ UNCHANGED <<providerVars, histVars, jarVars, request, access>>

(* The cookies of setPKCECookies last five minutes. *)
PkceExpires ==
  /\ pkce # Nil
  /\ pkce' = Nil
  /\ UNCHANGED <<now, providerVars, histVars, refresh, idToken, request, access>>

(* The cookies without an expiry and all that tabs hold are gone. *)
BrowserRestarts ==
  /\ idToken' = Nil
  /\ request' = [t \in Tabs |-> Nil]
  /\ access' = [t \in Tabs |-> Nil]
  /\ UNCHANGED <<now, providerVars, histVars, refresh, pkce>>

(* The connections of the controller end with it. *)
ControllerEnds ==
  /\ stage' = "ended"
  /\ request' = [t \in Tabs |-> Nil]
  /\ UNCHANGED <<now, providerVars, histVars, jarVars, access>>

Tab(t) ==
  \/ SendRefresh(t)
  \/ BeginLogin(t)
  \/ SignIn(t)
  \/ Reload(t)
  \/ PamLogin(t)
  \/ SendLogout(t)

Answer(t) ==
  \/ RefreshAnswered(t)
  \/ CallbackLogsIn(t)
  \/ CallbackFails(t)
  \/ LogoutAnswered(t)
  \/ NoAnswer(t)

(* A controller that sets up OIDC reads the provider's metadata, once. *)
Discovers == endSession' \in IF "oidc" \in ready' \ ready THEN BOOLEAN ELSE {endSession}

(* The browser sees nothing of a step of main. *)
Starts ==
  /\ Discovers
  /\ UNCHANGED <<now, flow, code, histVars, jarVars, request, access>>

Init == StartupInit /\ LoginInit

Next ==
  \/ StartupNext /\ stage' # "ended" /\ Starts
  \/ StartupNext /\ ControllerEnds
  \/ (Tick \/ PkceExpires \/ BrowserRestarts) /\ UNCHANGED startVars
  \/ \E t \in Tabs : (Tab(t) \/ Answer(t)) /\ UNCHANGED startVars

Spec == Init /\ [][Next]_vars

-----------------------------------------------------------------------------
(* A login ends: nothing it led to is accepted later than its refresh      *)
(* token could have been used, and an access token more.                   *)
SessionBounded ==
  \A t \in Tabs : Accepts(access[t]) =>
    now < logins[access[t].login].at + RefreshAge + AccessAge

(* Whom a request is taken to come from is who logged in, in the way they  *)
(* did, through every token and restart in between.                        *)
Authentic ==
  \A t \in Tabs : Accepts(access[t]) =>
    /\ access[t].login \in DOMAIN logins
    /\ access[t].username = logins[access[t].login].user
    /\ access[t].source = logins[access[t].login].source

(* Tokens cannot be taken back, and a tab may be waiting for one while     *)
(* another logs out: what is accepted of a login that was logged out was   *)
(* asked for before, and nothing brings its refresh cookie back.           *)
LogoutHolds ==
  \A t \in Tabs : Accepts(access[t]) => ~access[t].late

(* The ID token cookie is of a login that was not logged out and, when the *)
(* login whose refresh cookie the browser has came with one, of that.      *)
HintHeld ==
  idToken # Nil =>
    /\ idToken \notin out
    /\ refresh # Nil /\ logins[refresh.login].hinted => idToken = refresh.login

(* oidc.go:292-323, logout.go:41-45: the handler of a logout shows the     *)
(* provider the ID token that came with the request.  That is the one the  *)
(* browser still has when it is answered, unless it was logged out of that *)
(* login or a later one, or has logged in at the provider, in between.     *)
HintMatches ==
  /\ HintHeld
  /\ \A t \in Tabs : request[t] # Nil /\ request[t].kind = "logout" =>
       LET hint == request[t].hint IN
       \/ hint = idToken
       \/ hint # Nil /\ \E l \in out : l >= hint
       \/ \E l \in DOMAIN logins : logins[l].hinted /\ (hint # Nil => l > hint)
=============================================================================
