---------------------------- MODULE Login_proofs ----------------------------
(***************************************************************************)
(* What holds of every browser, any tabs, users, flows, configurations and *)
(* ages of tokens: every cookie, request under way and token goes back to  *)
(* a login that happened.                                                  *)
(***************************************************************************)
EXTENDS Login, TLAPS

USE AgeAssumption, BoundAssumption DEF Times, Serials, Sources

LEMMA EffectiveType ==
  ASSUME NEW given \in Givens
  PROVE  Effective(given) \in Modes \cup {"unknown"}
<1>1. given \in Seq(Modes \cup {"unknown", Absent})
  BY GivensAssumption
<1>2. CASE \E i \in DOMAIN given : Decides(given, i)
  <2> DEFINE first == CHOOSE i \in DOMAIN given : Decides(given, i)
  <2>1. first \in DOMAIN given /\ Decides(given, first)
    BY <1>2
  <2>2. given[first] \in Modes \cup {"unknown", Absent} /\ given[first] # Absent
    <3> HIDE DEF first
    <3> QED BY <1>1, <2>1 DEF Decides
  <2>3. Effective(given) = given[first]
    BY <1>2 DEF Effective
  <2> QED BY <2>2, <2>3
<1>3. CASE ~ \E i \in DOMAIN given : Decides(given, i)
  BY <1>3 DEF Effective, Modes
<1> QED BY <1>2, <1>3

(* A generated token has its type, and the ages are numbers. *)
LEMMA TokenType ==
  ASSUME TypeOK, NEW username \in Users, NEW source \in Sources,
         NEW type \in {"access", "refresh"}, NEW login \in Serials, NEW late \in BOOLEAN
  PROVE  GenerateToken(username, source, type, login, late) \in Token
BY DEF GenerateToken, Token, NormalizeSource, Age, TypeOK

-----------------------------------------------------------------------------
(* The steps of main leave the browser alone. *)
LEMMA StartupType ==
  ASSUME StartTypeOK, StartupNext
  PROVE  StartTypeOK'
<1>1. CASE Load
  BY <1>1, EffectiveType DEF Load, StartTypeOK
<1>2. CASE RegisterRoutes
  BY <1>2 DEF RegisterRoutes, StartTypeOK, LoginRoutes, PamRoutes, OidcRoutes, Endpoints
<1>3. CASE SetUpAuth
  BY <1>3 DEF SetUpAuth, StartTypeOK, Needs, Parts, Modes
<1>4. CASE LoadFails \/ SetUpFails \/ ServeFails \/ Restart
  BY <1>4 DEF LoadFails, SetUpFails, ServeFails, Restart, Exit, StartTypeOK, Modes
<1> QED BY <1>1, <1>2, <1>3, <1>4 DEF StartupNext

LEMMA InitType == Init => TypeOK
<1> SUFFICES ASSUME Init PROVE TypeOK
  OBVIOUS
<1>1. StartTypeOK
  BY DEF Init, StartupInit, StartTypeOK, Modes
<1>2. /\ logins \in Seq([user : Users, source : Sources, at : Times, hinted : BOOLEAN])
      /\ Len(logins) =< MaxLogins
  <2>1. \A S : <<>> \in Seq(S) /\ Len(<<>>) = 0
    OBVIOUS
  <2>2. logins = <<>>
    BY DEF Init, LoginInit
  <2> QED BY ONLY <2>1, <2>2, BoundAssumption
<1>3. /\ now \in Times /\ out \subseteq Serials
      /\ flow \in [Flows -> {"new", "begun", "signed"}]
      /\ code \in [Flows -> Users \cup {Nil}]
  BY DEF Init, LoginInit
<1>5. endSession = FALSE /\ refresh = Nil /\ pkce = Nil /\ idToken = Nil
  BY DEF Init, LoginInit
<1>4. request \in [Tabs -> Request \cup {Nil}] /\ access \in [Tabs -> Token \cup {Nil}]
  BY DEF Init, LoginInit
<1> QED BY <1>1, <1>2, <1>3, <1>4, <1>5 DEF TypeOK

LEMMA SendType ==
  ASSUME TypeOK, NEW t \in Tabs, UNCHANGED startVars,
         SendRefresh(t) \/ SignIn(t) \/ Reload(t) \/ SendLogout(t) \/ BeginLogin(t)
  PROVE  TypeOK'
<1>1. StartTypeOK'
  BY DEF TypeOK, StartTypeOK, startVars
<1>2. CASE SendRefresh(t)
  <2>1. Live(refresh) \in Token \cup {Nil}
    BY DEF Live, TypeOK
  <2>2. [kind |-> "refresh", cookie |-> Live(refresh),
         late |-> refresh # Nil /\ refresh.login \in out] \in Request
    BY <2>1 DEF Request
  <2> QED BY <1>1, <1>2, <2>2 DEF SendRefresh, Send, TypeOK, providerVars, histVars, jarVars
<1>3. ASSUME NEW f \in Flows
      PROVE  [kind |-> "callback", flow |-> f, cookie |-> pkce] \in Request
  BY DEF Request, TypeOK
<1>4. CASE SignIn(t)
  BY <1>1, <1>3, <1>4 DEF SignIn, SendCallback, Send, TypeOK, histVars, jarVars
<1>5. CASE Reload(t)
  BY <1>1, <1>3, <1>5 DEF Reload, SendCallback, Send, TypeOK, providerVars, histVars, jarVars
<1>6. CASE BeginLogin(t)
  BY <1>1, <1>6 DEF BeginLogin, Calls, TypeOK, histVars
<1>7. CASE SendLogout(t)
  <2>1. [kind |-> "logout", hint |-> idToken] \in Request
    BY DEF Request, TypeOK
  <2> QED BY <1>1, <1>7, <2>1 DEF SendLogout, Send, TypeOK, providerVars, histVars, jarVars
<1> QED BY <1>2, <1>4, <1>5, <1>6, <1>7

LEMMA LogInType ==
  ASSUME TypeOK, NEW user \in Users, NEW source \in Sources, NEW hinted \in BOOLEAN,
         LogIn(user, source, hinted)
  PROVE  /\ logins' \in Seq([user : Users, source : Sources, at : Times, hinted : BOOLEAN])
         /\ Len(logins') = Len(logins) + 1 /\ Len(logins') =< MaxLogins
         /\ refresh' \in Token
<1>1. Len(logins) + 1 \in Serials
  BY DEF LogIn, TypeOK
<1>2. refresh' \in Token
  BY <1>1, TokenType DEF LogIn
<1>3. [user |-> user, source |-> source, at |-> now, hinted |-> hinted]
        \in [user : Users, source : Sources, at : Times, hinted : BOOLEAN]
  BY DEF TypeOK
<1>4. ASSUME NEW S, NEW s \in Seq(S), NEW e \in S
      PROVE  Append(s, e) \in Seq(S) /\ Len(Append(s, e)) = Len(s) + 1
  OBVIOUS
<1>5. logins \in Seq([user : Users, source : Sources, at : Times, hinted : BOOLEAN]) /\ Len(logins) < MaxLogins
  BY DEF LogIn, TypeOK
<1>6. logins' = Append(logins, [user |-> user, source |-> source, at |-> now, hinted |-> hinted])
  BY DEF LogIn
<1>7. logins' \in Seq([user : Users, source : Sources, at : Times, hinted : BOOLEAN])
  BY ONLY <1>3, <1>4, <1>5, <1>6
<1>8. Len(logins') = Len(logins) + 1
  BY ONLY <1>3, <1>4, <1>5, <1>6
<1>9. Len(logins) \in Nat
  BY <1>5
<1> QED BY <1>2, <1>5, <1>7, <1>8, <1>9

LEMMA LoginType ==
  ASSUME TypeOK, NEW t \in Tabs, UNCHANGED startVars, PamLogin(t) \/ CallbackLogsIn(t)
  PROVE  TypeOK'
<1>1. StartTypeOK'
  BY DEF TypeOK, StartTypeOK, startVars
<1>2. CASE PamLogin(t)
  <2>1. PICK user \in Users : LogIn(user, "pam", FALSE)
    BY <1>2 DEF PamLogin
  <2>2. /\ logins' \in Seq([user : Users, source : Sources, at : Times, hinted : BOOLEAN])
        /\ Len(logins') =< MaxLogins
        /\ refresh' \in Token
    BY <2>1, LogInType
  <2> QED BY <1>1, <1>2, <2>2 DEF PamLogin, Calls, TypeOK, providerVars
<1>3. CASE CallbackLogsIn(t)
  <2>1. request[t] \in Request /\ request[t].kind = "callback"
    BY <1>3, NilAssumption DEF CallbackLogsIn, Asks, TypeOK
  <2>2. request[t].flow \in Flows
    BY <2>1 DEF Request
  <2>3. code[request[t].flow] \in Users
    BY <1>3, <2>2 DEF CallbackLogsIn, Exchanged, TypeOK
  <2>4. endSession \in BOOLEAN /\ LogIn(code[request[t].flow], "oidc", endSession)
    BY <1>3 DEF CallbackLogsIn, TypeOK
  <2>5. /\ logins' \in Seq([user : Users, source : Sources, at : Times, hinted : BOOLEAN])
        /\ Len(logins') = Len(logins) + 1 /\ Len(logins') =< MaxLogins
        /\ refresh' \in Token
    BY <2>3, <2>4, LogInType
  <2>6. Len(logins) + 1 \in Serials
    BY <2>5 DEF TypeOK
  <2>7. idToken' \in Serials \cup {Nil}
    BY <1>3, <2>6 DEF CallbackLogsIn, TypeOK
  <2>8. /\ pkce' \in Flows \cup {Nil}
        /\ request' \in [Tabs -> Request \cup {Nil}]
        /\ code' \in [Flows -> Users \cup {Nil}]
    BY <1>3, <2>2 DEF CallbackLogsIn, Asks, TypeOK
  <2> QED BY <1>1, <1>3, <2>5, <2>7, <2>8 DEF CallbackLogsIn, TypeOK
<1> QED BY <1>2, <1>3

LEMMA AnswerType ==
  ASSUME TypeOK, NEW t \in Tabs, UNCHANGED startVars,
         RefreshAnswered(t) \/ CallbackFails(t) \/ LogoutAnswered(t) \/ NoAnswer(t)
  PROVE  TypeOK'
<1>1. StartTypeOK'
  BY DEF TypeOK, StartTypeOK, startVars
<1>2. CASE RefreshAnswered(t)
  <2>1. request[t] \in Request /\ request[t].kind = "refresh" /\ request[t].cookie # Nil
    BY <1>2 DEF RefreshAnswered, Asks, VerifyToken, TypeOK
  <2>2. request[t].cookie \in Token /\ request[t].late \in BOOLEAN
    BY <2>1 DEF Request
  <2> DEFINE k == request[t].cookie
             new == GenerateToken(k.username, NormalizeSource(k.source), "access",
                                  k.login, request[t].late)
  <2>3. /\ k.username \in Users /\ NormalizeSource(k.source) \in Sources
        /\ k.login \in Serials
    BY <2>2 DEF Token, NormalizeSource
  <2>4. new \in Token
    BY <2>2, <2>3, TokenType
  <2>5. access' = [access EXCEPT ![t] = new]
    BY <1>2 DEF RefreshAnswered, IssueAccess
  <2> HIDE DEF new
  <2>6. access' \in [Tabs -> Token \cup {Nil}]
    BY <2>4, <2>5 DEF TypeOK
  <2>7. request' \in [Tabs -> Request \cup {Nil}]
    BY <1>2 DEF RefreshAnswered, Asks, TypeOK
  <2> QED BY <1>1, <1>2, <2>6, <2>7
       DEF RefreshAnswered, TypeOK, providerVars, histVars, jarVars
<1>3. CASE CallbackFails(t)
  <2>1. code' \in [Flows -> Users \cup {Nil}]
    BY <1>3 DEF CallbackFails, TypeOK
  <2> QED BY <1>1, <1>3, <2>1 DEF CallbackFails, Asks, TypeOK, histVars
<1>4. CASE LogoutAnswered(t)
  <2>1. out' \subseteq Serials
    BY <1>4 DEF LogoutAnswered, LoggedOut, TypeOK, Token
  <2> QED BY <1>1, <1>4, <2>1 DEF LogoutAnswered, Asks, TypeOK, providerVars
<1>5. CASE NoAnswer(t)
  BY <1>1, <1>5 DEF NoAnswer, TypeOK, providerVars, histVars, jarVars
<1> QED BY <1>2, <1>3, <1>4, <1>5

LEMMA OtherType ==
  ASSUME TypeOK,
         \/ StartupNext /\ Starts
         \/ StartupNext /\ ControllerEnds
         \/ (Tick \/ PkceExpires \/ BrowserRestarts) /\ UNCHANGED startVars
         \/ UNCHANGED vars
  PROVE  TypeOK'
<1>1. StartTypeOK'
  BY StartupType DEF TypeOK, StartTypeOK, startVars, vars
<1>2. CASE UNCHANGED loginVars
  BY <1>1, <1>2 DEF loginVars, TypeOK, providerVars, histVars, jarVars
<1>7. CASE Starts
  <2>1. endSession' \in BOOLEAN
    BY <1>7 DEF Starts, Discovers, TypeOK
  <2> QED BY <1>1, <1>7, <2>1 DEF Starts, TypeOK, histVars, jarVars
<1>3. CASE ControllerEnds
  BY <1>1, <1>3 DEF ControllerEnds, TypeOK, providerVars, histVars, jarVars
<1>4. CASE Tick
  BY <1>1, <1>4 DEF Tick, TypeOK, providerVars, histVars, jarVars
<1>5. CASE PkceExpires
  BY <1>1, <1>5 DEF PkceExpires, TypeOK, providerVars, histVars
<1>6. CASE BrowserRestarts
  BY <1>1, <1>6 DEF BrowserRestarts, TypeOK, providerVars, histVars
<1> QED BY <1>2, <1>3, <1>4, <1>5, <1>6, <1>7 DEF vars

LEMMA StepType == TypeOK /\ [Next]_vars => TypeOK'
<1> SUFFICES ASSUME TypeOK, [Next]_vars PROVE TypeOK'
  OBVIOUS
<1>1. CASE \E t \in Tabs : (Tab(t) \/ Answer(t)) /\ UNCHANGED startVars
  BY <1>1, SendType, LoginType, AnswerType DEF Tab, Answer
<1> QED BY <1>1, OtherType DEF Next

(* Cookies, requests, tokens and the controller's own state keep their     *)
(* types.                                                                  *)
THEOREM TypeCorrect == Spec => []TypeOK
<1>1. Init => TypeOK
  BY InitType
<1>2. TypeOK /\ [Next]_vars => TypeOK'
  BY StepType
<1> QED BY <1>1, <1>2, PTL DEF Spec

-----------------------------------------------------------------------------
(* What main has set up is what its mode needs, and what it has registered *)
(* is what the mode's login page offers.                                   *)
SetUpInv ==
  /\ stage \in {"routes", "serving"} => mode \in Modes /\ ready = Needs(mode)
  /\ LoginOffersWork

LEMMA SetUpStep == TypeOK /\ SetUpInv /\ [Next]_vars => SetUpInv'
<1> SUFFICES ASSUME TypeOK, SetUpInv, [Next]_vars PROVE SetUpInv'
  OBVIOUS
<1>1. CASE UNCHANGED startVars
  BY <1>1 DEF startVars, SetUpInv, LoginOffersWork, Offered
<1>2. CASE RegisterRoutes
  <2>1. stage = "routes" /\ mode \in Modes /\ ready = Needs(mode) /\ mode' = mode /\ ready' = ready
    BY <1>2 DEF RegisterRoutes, SetUpInv
  <2>2. CASE mode = "none"
    BY <1>2, <2>1, <2>2
    DEF RegisterRoutes, SetUpInv, LoginOffersWork, LoginRoutes, PamRoutes, OidcRoutes, Needs, Offered
  <2>3. CASE mode = "pam"
    BY <1>2, <2>1, <2>3
    DEF RegisterRoutes, SetUpInv, LoginOffersWork, LoginRoutes, PamRoutes, OidcRoutes, Needs, Offered
  <2>4. CASE mode = "oidc"
    BY <1>2, <2>1, <2>4
    DEF RegisterRoutes, SetUpInv, LoginOffersWork, LoginRoutes, PamRoutes, OidcRoutes, Needs, Offered
  <2>5. CASE mode = "both"
    BY <1>2, <2>1, <2>5
    DEF RegisterRoutes, SetUpInv, LoginOffersWork, LoginRoutes, PamRoutes, OidcRoutes, Needs,
        Offered, Parts
  <2> QED BY <2>1, <2>2, <2>3, <2>4, <2>5 DEF Modes
<1>3. CASE SetUpAuth
  BY <1>3 DEF SetUpAuth, SetUpInv, LoginOffersWork
<1>4. CASE Load \/ LoadFails \/ SetUpFails \/ ServeFails \/ Restart
  BY <1>4 DEF Load, LoadFails, SetUpFails, ServeFails, Restart, Exit, SetUpInv, LoginOffersWork
<1> QED BY <1>1, <1>2, <1>3, <1>4 DEF Next, StartupNext, vars

-----------------------------------------------------------------------------
(* A token goes back to a login: it has that login's user and source.      *)
Traced(token) ==
  /\ token.login \in DOMAIN logins
  /\ token.username = logins[token.login].user
  /\ token.source = logins[token.login].source

Born(token) == logins[token.login].at

LEMMA BornNat ==
  ASSUME TypeOK, NEW token, Traced(token)
  PROVE  Born(token) \in Nat
<1>1. logins \in Seq([user : Users, source : Sources, at : Times, hinted : BOOLEAN])
  BY DEF TypeOK
<1>2. token.login \in DOMAIN logins
  BY DEF Traced
<1>3. ASSUME NEW S, NEW q \in Seq(S), NEW i \in DOMAIN q
      PROVE  q[i] \in S
  OBVIOUS
<1>4. logins[token.login] \in [user : Users, source : Sources, at : Times, hinted : BOOLEAN]
  BY ONLY <1>1, <1>2, <1>3
<1> QED BY <1>4 DEF Born

(* A logout under way, and what has become of the ID token it came with.   *)
Hinting(r) == r # Nil /\ r.kind = "logout"
Explained(hint) ==
  \/ hint = idToken
  \/ hint # Nil /\ \E l \in out : l >= hint
  \/ \E l \in DOMAIN logins : logins[l].hinted /\ (hint # Nil => l > hint)

HistoryInv ==
  /\ \A i \in DOMAIN logins : logins[i].source \in {"pam", "oidc"}
  /\ out \subseteq DOMAIN logins

(* The refresh cookie is of a login that was not logged out.               *)
CookieInv ==
  refresh # Nil =>
    /\ Traced(refresh)
    /\ refresh.exp =< Born(refresh) + RefreshAge
    /\ refresh.login \notin out

RequestInv ==
  \A t \in Tabs :
    request[t] # Nil /\ request[t].kind = "refresh" =>
      /\ ~request[t].late
      /\ request[t].cookie # Nil =>
           /\ Traced(request[t].cookie)
           /\ request[t].cookie.exp =< Born(request[t].cookie) + RefreshAge

AccessInv ==
  \A t \in Tabs :
    access[t] # Nil =>
      /\ Traced(access[t])
      /\ access[t].exp =< Born(access[t]) + RefreshAge + AccessAge
      /\ ~access[t].late

(* The refresh cookie, when there is one, is of the latest login; the ID   *)
(* token cookies came with one, and every logout under way had them then.  *)
HintInv ==
  /\ refresh # Nil => refresh.login = Len(logins)
  /\ idToken # Nil => idToken \in DOMAIN logins /\ refresh # Nil
  /\ \A t \in Tabs : Hinting(request[t]) /\ request[t].hint # Nil =>
       request[t].hint \in DOMAIN logins
  /\ HintHeld
  /\ \A t \in Tabs : Hinting(request[t]) => Explained(request[t].hint)

IInv == HistoryInv /\ CookieInv /\ RequestInv /\ AccessInv /\ HintInv

LEMMA InitInv == Init => SetUpInv /\ IInv
BY DEF Init, StartupInit, LoginInit, SetUpInv, LoginOffersWork, IInv, HistoryInv, CookieInv,
       RequestInv, AccessInv, HintInv, HintHeld, Hinting

(* A step that logs nobody in or out, and sets no cookie, request or token *)
(* but to nothing.                                                         *)
LEMMA QuietStep ==
  ASSUME TypeOK, IInv, UNCHANGED <<logins, out, refresh>>,
         \/ idToken' = idToken
         \/ idToken' = Nil /\ \A t \in Tabs : request'[t] = Nil,
         \A t \in Tabs : \/ request'[t] \in {request[t], Nil}
                        \/ request'[t].kind = "callback"
                        \/ request'[t] = [kind |-> "logout", hint |-> idToken],
         \A t \in Tabs : access'[t] \in {access[t], Nil}
  PROVE  IInv'
<1>1. HistoryInv' /\ CookieInv'
  BY DEF IInv, HistoryInv, CookieInv, Traced, Born
<1>2. RequestInv'
  BY DEF IInv, RequestInv, Traced, Born
<1>3. AccessInv'
  BY DEF IInv, AccessInv, Traced, Born
<1>4. HintInv'
  <2>1. ASSUME NEW t \in Tabs, Hinting(request'[t])
        PROVE  /\ idToken' = idToken
               /\ request'[t].hint # Nil => request'[t].hint \in DOMAIN logins
               /\ Explained(request'[t].hint)
    <3>1. idToken' = idToken
      BY <2>1 DEF Hinting
    <3>2. CASE request'[t] = request[t]
      BY <2>1, <3>1, <3>2 DEF IInv, HintInv
    <3>3. CASE request'[t] = [kind |-> "logout", hint |-> idToken]
      BY <3>1, <3>3 DEF IInv, HintInv, Explained
    <3> QED BY <2>1, <3>1, <3>2, <3>3 DEF Hinting
  <2>2. \A hint : idToken' = idToken => (Explained(hint) => Explained(hint)')
    BY DEF Explained
  <2>3. \A t \in Tabs : Hinting(request[t])' = Hinting(request'[t])
    BY DEF Hinting
  <2>4. \A t \in Tabs : Hinting(request'[t]) => Explained(request[t].hint)'
    BY <2>1 DEF Explained
  <2>5. HintHeld'
    BY DEF IInv, HintInv, HintHeld
  <2> QED BY <2>1, <2>3, <2>4, <2>5 DEF IInv, HintInv
<1> QED BY <1>1, <1>2, <1>3, <1>4 DEF IInv

LEMMA QuietSteps ==
  ASSUME TypeOK, IInv,
         \/ \E t \in Tabs : \/ BeginLogin(t) \/ SignIn(t) \/ Reload(t) \/ SendLogout(t)
                            \/ CallbackFails(t) \/ NoAnswer(t)
         \/ Tick \/ PkceExpires \/ BrowserRestarts \/ ControllerEnds \/ Starts
         \/ UNCHANGED loginVars
  PROVE  IInv'
<1>1. UNCHANGED <<logins, out, refresh>>
  BY DEF BeginLogin, SignIn, Reload, SendLogout, CallbackFails, NoAnswer, Tick, PkceExpires,
         BrowserRestarts, ControllerEnds, Starts, loginVars, providerVars, histVars, jarVars
<1>2. \A s \in Tabs : access'[s] \in {access[s], Nil}
  BY DEF BeginLogin, SignIn, Reload, SendLogout, CallbackFails, NoAnswer, Tick, PkceExpires,
         BrowserRestarts, ControllerEnds, Starts, loginVars, providerVars, histVars, jarVars
<1>3. \A s \in Tabs : \/ request'[s] \in {request[s], Nil}
                      \/ request'[s].kind = "callback"
                      \/ request'[s] = [kind |-> "logout", hint |-> idToken]
  BY DEF BeginLogin, Calls, SignIn, Reload, SendCallback, SendLogout, Send, CallbackFails,
         Asks, NoAnswer, Tick, PkceExpires, BrowserRestarts, ControllerEnds, Starts,
         loginVars, TypeOK
<1>4. idToken' = idToken \/ (idToken' = Nil /\ \A s \in Tabs : request'[s] = Nil)
  BY DEF BeginLogin, SignIn, Reload, SendLogout, CallbackFails, NoAnswer, Tick, PkceExpires,
         BrowserRestarts, ControllerEnds, Starts, loginVars, providerVars, histVars, jarVars
<1> QED BY <1>1, <1>2, <1>3, <1>4, QuietStep

LEMMA RefreshSteps ==
  ASSUME TypeOK, IInv, NEW t \in Tabs, SendRefresh(t) \/ RefreshAnswered(t)
  PROVE  IInv'
<1>1. UNCHANGED <<logins, out, refresh, idToken>>
  BY DEF SendRefresh, RefreshAnswered, providerVars, histVars, jarVars
<1>2. HistoryInv' /\ CookieInv' /\ HintInv'
  <2>1. HistoryInv' /\ CookieInv' /\ HintHeld'
    BY <1>1 DEF IInv, HistoryInv, CookieInv, HintInv, HintHeld, Traced, Born
  <2>2. \A s \in Tabs : \/ request'[s] \in {request[s], Nil}
                        \/ request'[s].kind = "refresh"
    BY DEF SendRefresh, Send, RefreshAnswered, Asks, TypeOK
  <2>3. \A s \in Tabs : Hinting(request[s])' => Hinting(request[s]) /\ request'[s] = request[s]
    BY <2>2 DEF Hinting
  <2>4. \A s \in Tabs : Hinting(request[s])' => Explained(request[s].hint)'
    BY <1>1, <2>3 DEF IInv, HintInv, Explained
  <2>5. \A s \in Tabs : Hinting(request[s])' /\ request'[s].hint # Nil =>
          request'[s].hint \in DOMAIN logins
    BY <2>3 DEF IInv, HintInv
  <2> QED BY <1>1, <2>1, <2>4, <2>5 DEF IInv, HintInv
<1>3. CASE SendRefresh(t)
  <2>1. AccessInv'
    BY <1>1, <1>3 DEF SendRefresh, IInv, AccessInv, Traced, Born
  <2> DEFINE r == [kind |-> "refresh", cookie |-> Live(refresh),
                   late |-> refresh # Nil /\ refresh.login \in out]
  <2>2. /\ ~r.late
        /\ r.cookie # Nil => Traced(r.cookie) /\ r.cookie.exp =< Born(r.cookie) + RefreshAge
    BY DEF Live, IInv, CookieInv
  <2>3. request' = [request EXCEPT ![t] = r]
    BY <1>3 DEF SendRefresh, Send
  <2> HIDE DEF r
  <2>4. RequestInv'
    BY <1>1, <2>2, <2>3 DEF IInv, RequestInv, Traced, Born, TypeOK
  <2> QED BY <1>2, <2>1, <2>4 DEF IInv
<1>4. CASE RefreshAnswered(t)
  <2>1. RequestInv'
    BY <1>1, <1>4 DEF RefreshAnswered, Asks, IInv, RequestInv, Traced, Born, TypeOK
  <2> DEFINE k == request[t].cookie
             new == GenerateToken(k.username, NormalizeSource(k.source), "access",
                                  k.login, request[t].late)
  <2>2. /\ request[t] \in Request /\ request[t].kind = "refresh" /\ request[t] # Nil
        /\ k # Nil /\ now < k.exp
    BY <1>4 DEF RefreshAnswered, Asks, VerifyToken, TypeOK
  <2>3. k \in Token
    BY <2>2 DEF Request
  <2>4. Traced(k) /\ k.exp =< Born(k) + RefreshAge /\ ~request[t].late
    BY <2>2 DEF IInv, RequestInv
  <2>5. k.source \in {"pam", "oidc"}
    BY <2>4 DEF Traced, IInv, HistoryInv
  <2>6. /\ new.login = k.login /\ new.username = k.username /\ new.source = k.source
        /\ ~new.late /\ new.exp = now + AccessAge
    BY <2>4, <2>5 DEF GenerateToken, NormalizeSource, Age
  <2>7. Born(k) \in Nat
    BY <2>4, BornNat
  <2>8. access' = [access EXCEPT ![t] = new]
    BY <1>4 DEF RefreshAnswered, IssueAccess
  <2>9. Traced(new) /\ Born(new) = Born(k)
    BY <2>4, <2>6 DEF Traced, Born
  <2>10. new.exp =< Born(new) + RefreshAge + AccessAge
    <3>1. now \in Nat /\ k.exp \in Nat
      BY <2>3 DEF TypeOK, Token
    <3> HIDE DEF new, k
    <3> QED BY <2>2, <2>4, <2>6, <2>7, <2>9, <3>1
  <2> HIDE DEF new, k
  <2>11. AccessInv'
    BY <1>1, <2>6, <2>8, <2>9, <2>10 DEF IInv, AccessInv, Traced, Born, TypeOK
  <2> QED BY <1>2, <2>1, <2>11 DEF IInv
<1> QED BY <1>3, <1>4

(* A new login comes behind the others, and its cookie goes back to it.    *)
LEMMA LogInSteps ==
  ASSUME TypeOK, IInv, NEW t \in Tabs, PamLogin(t) \/ CallbackLogsIn(t)
  PROVE  IInv'
<1> DEFINE new == Len(logins) + 1
<1>1. PICK user \in Users, source \in {"pam", "oidc"}, hinted \in BOOLEAN :
        /\ LogIn(user, source, hinted)
        /\ idToken' = IF hinted THEN new ELSE idToken
  <2>1. CASE PamLogin(t)
    <3>1. PICK user \in Users : LogIn(user, "pam", FALSE)
      BY <2>1 DEF PamLogin
    <3>2. idToken' = idToken
      BY <2>1 DEF PamLogin
    <3> QED BY <3>1, <3>2
  <2>2. CASE CallbackLogsIn(t)
    <3>1. /\ endSession \in BOOLEAN
          /\ LogIn(code[request[t].flow], "oidc", endSession)
          /\ idToken' = IF endSession THEN new ELSE idToken
      BY <2>2 DEF CallbackLogsIn, TypeOK
    <3>2. request[t] \in Request /\ request[t].kind = "callback"
      BY <2>2, NilAssumption DEF CallbackLogsIn, Asks, TypeOK
    <3>3. code[request[t].flow] \in Users
      BY <2>2, <3>2 DEF CallbackLogsIn, Exchanged, Request, TypeOK
    <3> QED BY <3>1, <3>3
  <2> QED BY <2>1, <2>2
<1>2. UNCHANGED <<out, access>>
  BY DEF PamLogin, CallbackLogsIn, providerVars
<1>3. \A s \in Tabs : request'[s] \in {request[s], Nil}
  BY DEF PamLogin, CallbackLogsIn, Calls, Asks, TypeOK
<1>4. /\ new \notin DOMAIN logins
      /\ DOMAIN logins' = DOMAIN logins \cup {new}
      /\ \A i \in DOMAIN logins : logins'[i] = logins[i]
      /\ logins'[new] = [user |-> user, source |-> source, at |-> now, hinted |-> hinted]
      /\ Len(logins') = new /\ \A i \in DOMAIN logins : i \in Nat /\ i < new
  <2>1. ASSUME NEW S, NEW q \in Seq(S), NEW e
        PROVE  /\ Len(q) + 1 \notin DOMAIN q
               /\ DOMAIN Append(q, e) = DOMAIN q \cup {Len(q) + 1}
               /\ \A i \in DOMAIN q : Append(q, e)[i] = q[i]
               /\ Append(q, e)[Len(q) + 1] = e
               /\ Len(Append(q, e)) = Len(q) + 1
               /\ \A i \in DOMAIN q : i \in Nat /\ i < Len(q) + 1
    OBVIOUS
  <2>2. logins \in Seq([user : Users, source : Sources, at : Times, hinted : BOOLEAN])
    BY DEF TypeOK
  <2>3. logins' = Append(logins, [user |-> user, source |-> source, at |-> now, hinted |-> hinted])
    BY <1>1 DEF LogIn
  <2> QED BY ONLY <2>1, <2>2, <2>3
<1>5. /\ refresh'.login = new /\ refresh'.username = user /\ refresh'.source = source
      /\ refresh'.exp = now + RefreshAge
  BY <1>1 DEF LogIn, GenerateToken, NormalizeSource, Age
<1> HIDE DEF new
<1>6. ASSUME NEW token, Traced(token)
      PROVE  Traced(token)' /\ Born(token)' = Born(token)
  BY <1>4, <1>6 DEF Traced, Born
<1>7. HistoryInv'
  BY <1>1, <1>2, <1>4 DEF IInv, HistoryInv
<1>8. CookieInv'
  <2>1. Traced(refresh)'
    BY <1>4, <1>5 DEF Traced
  <2>2. Born(refresh)' = now /\ now \in Nat /\ refresh'.exp = now + RefreshAge
    BY <1>4, <1>5 DEF Born, TypeOK
  <2>3. refresh'.login \notin out'
    BY <1>2, <1>4, <1>5 DEF IInv, HistoryInv
  <2> QED BY <2>1, <2>2, <2>3 DEF CookieInv
<1>9. RequestInv'
  BY <1>3, <1>6 DEF IInv, RequestInv, Traced, Born
<1>10. AccessInv'
  BY <1>2, <1>6 DEF IInv, AccessInv, Traced, Born
<1>11. HintInv'
  <2>1. HintHeld'
    BY <1>1, <1>2, <1>4, <1>5 DEF IInv, HintInv, HintHeld, HistoryInv
  <2>2. \A s \in Tabs : Hinting(request[s])' => Hinting(request[s]) /\ request'[s] = request[s]
    BY <1>3 DEF Hinting
  <2>3. ASSUME NEW hint, Explained(hint), hint # Nil => hint \in DOMAIN logins
        PROVE  Explained(hint)'
    <3>1. CASE hinted
      BY <1>4, <2>3, <3>1 DEF Explained
    <3>2. CASE ~hinted
      BY <1>1, <1>2, <1>4, <2>3, <3>2 DEF Explained
    <3> QED BY <3>1, <3>2
  <2>4. \A s \in Tabs : Hinting(request[s])' => Explained(request[s].hint)'
    <3> SUFFICES ASSUME NEW s \in Tabs, Hinting(request[s])' PROVE Explained(request[s].hint)'
      OBVIOUS
    <3> DEFINE hint == request[s].hint
    <3>1. /\ request'[s] = request[s] /\ Explained(hint)
          /\ hint # Nil => hint \in DOMAIN logins
      BY <2>2 DEF IInv, HintInv
    <3>2. PICK h : h = hint
      OBVIOUS
    <3>3. Explained(h)'
      BY <2>3, <3>1, <3>2
    <3>4. h = request'[s].hint
      BY <3>1, <3>2
    <3> QED BY <3>3, <3>4 DEF Explained
  <2>5. \A s \in Tabs : Hinting(request[s])' /\ request'[s].hint # Nil =>
          request'[s].hint \in DOMAIN logins'
    BY <1>4, <2>2 DEF IInv, HintInv
  <2>6. /\ refresh'.login = Len(logins') /\ refresh' # Nil
        /\ idToken' # Nil => idToken' \in DOMAIN logins'
    <3>1. refresh' # Nil
      BY <1>1, LogInType, NilAssumption
    <3> QED BY <1>1, <1>4, <1>5, <3>1 DEF IInv, HintInv
  <2> QED BY <2>1, <2>4, <2>5, <2>6 DEF HintInv
<1> QED BY <1>7, <1>8, <1>9, <1>10, <1>11 DEF IInv

LEMMA LogoutStep ==
  ASSUME TypeOK, IInv, NEW t \in Tabs, LogoutAnswered(t)
  PROVE  IInv'
<1>1. /\ UNCHANGED <<logins, access>> /\ refresh' = Nil /\ idToken' = Nil
      /\ out' = LoggedOut /\ \A s \in Tabs : request'[s] \in {request[s], Nil}
  BY DEF LogoutAnswered, Asks, providerVars, TypeOK
<1>2. out' \subseteq DOMAIN logins
  BY <1>1 DEF LoggedOut, IInv, HistoryInv, CookieInv, Traced
<1>3. HistoryInv' /\ CookieInv' /\ RequestInv' /\ AccessInv' /\ HintHeld'
  BY <1>1, <1>2 DEF IInv, HistoryInv, CookieInv, RequestInv, AccessInv, HintHeld, Traced, Born
<1>4. ASSUME NEW hint, Explained(hint), hint # Nil => hint \in DOMAIN logins
      PROVE  Explained(hint)'
  <2>1. CASE hint = idToken /\ hint # Nil
    <3>1. refresh.login \in out' /\ refresh.login = Len(logins) /\ hint \in DOMAIN logins
      BY <1>1, <1>4, <2>1 DEF LoggedOut, IInv, HintInv
    <3>2. Len(logins) >= hint
      <4>1. ASSUME NEW S, NEW q \in Seq(S), NEW i \in DOMAIN q
            PROVE  Len(q) >= i
        OBVIOUS
      <4>2. logins \in Seq([user : Users, source : Sources, at : Times, hinted : BOOLEAN])
        BY DEF TypeOK
      <4> QED BY ONLY <3>1, <4>1, <4>2
    <3> QED BY <2>1, <3>1, <3>2 DEF Explained
  <2>2. CASE hint = Nil
    BY <1>1, <2>2 DEF Explained
  <2>3. CASE hint # idToken
    <3>1. out \subseteq out'
      BY <1>1 DEF LoggedOut
    <3> QED BY <1>1, <1>4, <2>3, <3>1 DEF Explained
  <2> QED BY <2>1, <2>2, <2>3
<1>5. \A s \in Tabs : Hinting(request[s])' => Hinting(request[s]) /\ request'[s] = request[s]
  BY <1>1 DEF Hinting
<1>6. \A s \in Tabs : Hinting(request[s])' => Explained(request[s].hint)'
  BY <1>4, <1>5 DEF IInv, HintInv, Explained
<1>7. \A s \in Tabs : Hinting(request[s])' /\ request'[s].hint # Nil =>
        request'[s].hint \in DOMAIN logins'
  BY <1>1, <1>5 DEF IInv, HintInv
<1>8. HintInv'
  BY <1>1, <1>3, <1>6, <1>7 DEF HintInv
<1> QED BY <1>3, <1>8 DEF IInv

LEMMA StepInv == TypeOK /\ IInv /\ [Next]_vars => IInv'
<1> SUFFICES ASSUME TypeOK, IInv, [Next]_vars PROVE IInv'
  OBVIOUS
<1>1. CASE \E t \in Tabs : (Tab(t) \/ Answer(t)) /\ UNCHANGED startVars
  BY <1>1, QuietSteps, RefreshSteps, LogInSteps, LogoutStep DEF Tab, Answer
<1>2. CASE \/ ControllerEnds \/ Starts \/ Tick \/ PkceExpires \/ BrowserRestarts
           \/ UNCHANGED loginVars
  BY <1>2, QuietSteps
<1> QED BY <1>1, <1>2 DEF Next, vars

-----------------------------------------------------------------------------
LEMMA Invariant == Spec => [](TypeOK /\ SetUpInv /\ IInv)
<1>1. Init => TypeOK /\ SetUpInv /\ IInv
  BY InitType, InitInv
<1>2. TypeOK /\ SetUpInv /\ IInv /\ [Next]_vars => (TypeOK /\ SetUpInv /\ IInv)'
  BY StepType, SetUpStep, StepInv
<1> QED BY <1>1, <1>2, PTL DEF Spec

(* What a login page offers is served and set up, whatever the             *)
(* configurations of the controller's runs.                                *)
THEOREM PagesWork == Spec => []LoginOffersWork
<1>1. SetUpInv => LoginOffersWork
  BY DEF SetUpInv
<1> QED BY <1>1, Invariant, PTL

(* Nothing a login led to is accepted when its refresh token has expired   *)
(* and an access token's age has passed since.                             *)
THEOREM SessionsEnd == Spec => []SessionBounded
<1>1. TypeOK /\ IInv => SessionBounded
  <2> SUFFICES ASSUME TypeOK, IInv, NEW t \in Tabs, Accepts(access[t])
               PROVE  now < logins[access[t].login].at + RefreshAge + AccessAge
    BY DEF SessionBounded
  <2>1. access[t] # Nil /\ now < access[t].exp
    BY DEF Accepts, VerifyToken
  <2>2. /\ Traced(access[t])
        /\ access[t].exp =< Born(access[t]) + RefreshAge + AccessAge
    BY <2>1 DEF IInv, AccessInv
  <2>3. Born(access[t]) \in Nat
    BY <2>2, BornNat
  <2>4. now \in Nat /\ access[t].exp \in Nat
    BY <2>1 DEF TypeOK, Token
  <2> QED BY <2>1, <2>2, <2>3, <2>4 DEF Born
<1> QED BY <1>1, Invariant, PTL

(* Whom the API takes a request to come from has logged in, that way.      *)
THEOREM UsersAreAuthentic == Spec => []Authentic
<1>1. IInv => Authentic
  BY DEF IInv, AccessInv, Traced, Authentic, Accepts, VerifyToken
<1> QED BY <1>1, Invariant, PTL

(* No token is asked for by a browser that was logged out of its login.    *)
THEOREM LogoutIsFinal == Spec => []LogoutHolds
<1>1. IInv => LogoutHolds
  BY DEF IInv, AccessInv, LogoutHolds, Accepts, VerifyToken
<1> QED BY <1>1, Invariant, PTL

(* The ID token cookie is of a login not logged out, the current one when  *)
(* that brought one; and a logout shows the provider the one the browser   *)
(* has, unless a logout or a login at the provider was answered since.     *)
THEOREM HintsMatch == Spec => []HintMatches
<1>1. IInv => HintMatches
  BY DEF IInv, HintInv, HintMatches, Hinting, Explained
<1> QED BY <1>1, Invariant, PTL
=============================================================================
