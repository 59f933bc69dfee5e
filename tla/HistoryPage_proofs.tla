-------------------------- MODULE HistoryPage_proofs --------------------------
(***************************************************************************)
(* The browser that signs in and out and the history page in it, for every *)
(* set of words, paths and secrets, every session length and every use of  *)
(* the store elsewhere.                                                    *)
(***************************************************************************)
EXTENDS HistoryPage, PracticeRecords_proofs, FiniteSetTheorems

(***************************************************************************)
(* The session.                                                            *)
(***************************************************************************)
\* A cookie dates from the last time the browser signed in.
CookieIsSignature ==
    jar # Nothing =>
        /\ signedIn # Nothing
        /\ jar.secret = signedIn.secret
        /\ jar.expiresAt = Second(signedIn.at) + SessionSeconds

\* On the way to where the learner asked to go, the way is not lost, and has no more
\* login pages than there were to begin with.
OnTheWay ==
    /\ asking # Nothing => asking.at.to = wanted.to /\ asking.at.logins <= LoginsOnTheWay
    /\ (screen.kind = "form" /\ asking = Nothing) =>
         screen.next.to = wanted.to /\ screen.next.logins < LoginsOnTheWay

\* Passwords are sent to the login page.
PasswordsToLogin == (asking # Nothing /\ asking.password # Nothing) => asking.at.logins > 0

(***************************************************************************)
(* How many redirects may follow what is asked for, if no secret changes:  *)
(* one for every login page while the cookie is valid, and two for a page  *)
(* that is refused and then is not.  A cookie that would be valid with     *)
(* another secret may become so, at the price of a deployment.             *)
(***************************************************************************)
Unexpired == jar # Nothing /\ jar.expiresAt > Second(clock)
Validity == CASE Unexpired /\ jar.secret = secret -> 2
              [] Unexpired /\ jar.secret # secret -> 1
              [] ~Unexpired -> 0

FromLogin(logins, validity) == IF validity = 0 THEN 0 ELSE logins + validity - 1

FromPage(to, validity) == IF to # Logout /\ validity = 1 THEN 2 ELSE 1

RedirectsLeft(request, validity) ==
    CASE request.password = "right" -> request.at.logins + 1
      [] request.password = "wrong" -> 1 + FromLogin(request.at.logins, validity)
      [] request.password \notin {"right", "wrong"} ->
           IF request.at.logins > 0 THEN FromLogin(request.at.logins, validity)
           ELSE FromPage(request.at.to, validity)

RedirectsRunOut ==
    /\ hops <= LoginsOnTheWay + 1 + deployed
    /\ asking # Nothing =>
         hops + RedirectsLeft(asking, Validity) <= LoginsOnTheWay + 1 + deployed
    /\ (asking = Nothing /\ screen.kind = "form" /\ Validity = 2) => deployed > 0

SessionInv == CookieIsSignature /\ OnTheWay /\ PasswordsToLogin /\ RedirectsRunOut

(***************************************************************************)
(* The page.                                                               *)
(***************************************************************************)
Finite == IsFiniteSet(events) /\ IsFiniteSet(history.events)

\* One load at most is awaited, and it is for the word that is open.
OneAwaited ==
    /\ \A f \in flights : f.awaited => history.state = "LoadingAttempts" /\ f.word = history.selected
    /\ \A f, g \in flights : f.awaited /\ g.awaited => f = g

StepWhileLoading == history.step # None => history.state = "Loading"

PageInv == Finite /\ OneAwaited /\ StepWhileLoading /\ FilterIsCurrent /\ AttemptsBelong

HistoryInv == TypeOK /\ SessionInv /\ PageInv

-------------------------------------------------------------------------------
(***************************************************************************)
(* Time in seconds.                                                        *)
(***************************************************************************)
LEMMA SecondType == \A t \in Nat : Second(t) \in Nat
BY SecondsAssumption DEF Second

LEMMA SecondGrows == \A t \in Nat : Second(t) <= Second(t + 1)
BY SecondsAssumption DEF Second

LEMMA ClockType == StoreTypeOK => clock \in Nat
BY BoundsAssumption DEF StoreTypeOK

-------------------------------------------------------------------------------
(***************************************************************************)
(* Locations and requests.                                                 *)
(***************************************************************************)
LEMMA PathsAreNotLogout == Home \in Paths /\ Login \notin Paths /\ Logout \notin Paths
BY PathsAssumption DEF Login, Logout

LEMMA LocationType ==
    ASSUME NEW location \in Location
    PROVE  /\ location.logins \in Nat /\ location.to \in Paths \cup {Logout}
           /\ LoginPage(location) \in Location
           /\ LoginPage(location).logins = location.logins + 1
           /\ LoginPage(location).to = location.to
           /\ NextOf(location).logins = location.logins - 1
           /\ NextOf(location).to = location.to
           /\ location.logins > 0 =>
                NextOf(location) \in Location /\ LoginPage(NextOf(location)) = location
BY DEF Location, LoginPage, NextOf

LEMMA AtType ==
    ASSUME NEW to \in Paths \cup {Logout}
    PROVE  At(to) \in Location /\ At(to).logins = 0 /\ At(to).to = to
BY DEF At, Location

LEMMA GetType ==
    ASSUME NEW location \in Location
    PROVE  /\ Get(location) \in PageRequest /\ Get(location) # Nothing
           /\ Get(location).at = location /\ Get(location).password = Nothing
<1>1. Get(location) \in PageRequest
  BY DEF Get, PageRequest
<1> QED
  BY <1>1, NothingAssumption DEF Get

LEMMA RequestType ==
    ASSUME SessionTypeOK, asking # Nothing
    PROVE  /\ asking.at \in Location
           /\ asking.password \in {"right", "wrong", Nothing}
BY DEF SessionTypeOK, PageRequest

\* What an action of the browser asks for is a location.
LEMMA AskedLocation ==
    ASSUME Visit \/ SignOut
    PROVE  \E location \in Location : AskFor(location)
<1>1. ASSUME NEW logins \in 1 .. MaxNesting, NEW to \in Paths \cup {Logout}
      PROVE  [logins |-> logins, to |-> to] \in Location
  BY SecretsAssumption DEF Location
<1> QED
  BY <1>1, AtType DEF Visit, SignOut

\* The learner asks.
LEMMA VisitTyped ==
    ASSUME SessionTypeOK, Visit \/ SignOut
    PROVE  SessionTypeOK'
<1>1. PICK location \in Location : AskFor(location)
  BY AskedLocation
<1> QED
  BY <1>1, GetType DEF AskFor, SessionTypeOK

LEMMA SubmitTyped ==
    ASSUME SessionTypeOK, SubmitPassword
    PROVE  SessionTypeOK'
<1>1. screen.next \in Location
  BY DEF SubmitPassword, SessionTypeOK, Screen
<1>2. asking' \in PageRequest
  BY <1>1, LocationType DEF SubmitPassword, PageRequest
<1> QED
  BY <1>2 DEF SubmitPassword, SessionTypeOK

LEMMA NavigateTyped ==
    ASSUME SessionTypeOK, Navigate
    PROVE  SessionTypeOK'
BY DEF Navigate, SessionTypeOK, Screen

\* The server answers.
LEMMA RedirectTyped ==
    ASSUME SessionTypeOK, NEW location \in Location, Redirect(Get(location))
    PROVE  /\ asking' \in PageRequest /\ asking' # Nothing /\ hops' \in Nat
           /\ screen' = screen /\ hops' = hops + 1
           /\ asking'.at = location /\ asking'.password = Nothing
BY GetType DEF Redirect, SessionTypeOK

LEMMA ServeTyped ==
    ASSUME SessionTypeOK, PasswordsToLogin, clock \in Nat, Serve(clock)
    PROVE  SessionTypeOK'
<1>0. asking # Nothing => asking.at \in Location
  BY RequestType
<1>1. CASE ServeUnconfigured
  BY <1>1 DEF ServeUnconfigured, Show, SessionTypeOK, Screen
<1>2. CASE ServeLogout
  <2>1. LoginPage(At(Home)) \in Location
    BY PathsAreNotLogout, AtType, LocationType
  <2>2. wanted' \in Location
    BY <1>2, PathsAreNotLogout DEF ServeLogout, SessionTypeOK, Location
  <2> QED
    BY <1>2, <2>1, <2>2, RedirectTyped DEF ServeLogout, SessionTypeOK
<1>3. CASE ServeLoginPage(clock)
  <2>1. NextOf(asking.at) \in Location
    BY <1>0, <1>3, LocationType DEF ServeLoginPage
  <2>2. CASE Redirect(Get(NextOf(asking.at)))
    BY <1>3, <2>1, <2>2, RedirectTyped DEF ServeLoginPage, SessionTypeOK
  <2>3. CASE Show([kind |-> "form", next |-> NextOf(asking.at)])
    BY <1>3, <2>1, <2>3 DEF ServeLoginPage, Show, SessionTypeOK, Screen
  <2> QED
    BY <1>3, <2>2, <2>3 DEF ServeLoginPage
<1>4. CASE ServeWrongPassword
  <2>1. LoginPage(NextOf(asking.at)) \in Location
    BY <1>0, <1>4, LocationType, NothingAssumption DEF ServeWrongPassword, PasswordsToLogin
  <2> QED
    BY <1>4, <2>1, RedirectTyped DEF ServeWrongPassword, SessionTypeOK
<1>5. CASE ServeRightPassword(clock)
  <2>1. NextOf(asking.at) \in Location
    BY <1>0, <1>5, LocationType, NothingAssumption DEF ServeRightPassword, PasswordsToLogin
  <2>2. secret \in Secrets
    BY <1>5 DEF ServeRightPassword, Configured, SessionTypeOK
  <2>3. Second(clock) + SessionSeconds \in Nat /\ clock + SessionSeconds * TicksPerSecond \in Nat
    BY SecondType, SecondsAssumption
  <2>4. jar' \in Cookie /\ signedIn' \in [at: Nat, secret: Secrets]
    BY <1>5, <2>2, <2>3 DEF ServeRightPassword, Cookie
  <2> QED
    BY <1>5, <2>1, <2>4, RedirectTyped DEF ServeRightPassword, SessionTypeOK
<1>6. CASE ServeApplication(clock)
  <2>1. asking.at.to \in Paths /\ LoginPage(asking.at) \in Location
    BY <1>0, <1>6, LocationType DEF ServeApplication
  <2>2. CASE Redirect(Get(LoginPage(asking.at)))
    BY <1>6, <2>1, <2>2, RedirectTyped DEF ServeApplication, SessionTypeOK
  <2>3. CASE Show([kind |-> "app", path |-> asking.at.to])
    BY <1>6, <2>1, <2>3 DEF ServeApplication, Show, SessionTypeOK, Screen
  <2> QED
    BY <1>6, <2>2, <2>3 DEF ServeApplication
<1> QED
  BY <1>1, <1>2, <1>3, <1>4, <1>5, <1>6 DEF Serve

LEMMA OthersTyped ==
    ASSUME SessionTypeOK, CookieAges(clock') \/ Redeploy \/ UNCHANGED sessionVars
    PROVE  SessionTypeOK'
<1>1. CASE CookieAges(clock')
  BY <1>1 DEF CookieAges, SessionTypeOK
<1>2. CASE Redeploy
  <2>1. deployed' \in 0 .. MaxDeployments
    BY <1>2, SecretsAssumption DEF Redeploy, SessionTypeOK
  <2> QED
    BY <1>2, <2>1 DEF Redeploy, SessionTypeOK
<1>3. CASE UNCHANGED sessionVars
  BY <1>3 DEF sessionVars, SessionTypeOK
<1> QED
  BY <1>1, <1>2, <1>3

-------------------------------------------------------------------------------
(***************************************************************************)
(* The cookie and the redirects that may follow.                           *)
(***************************************************************************)
LEMMA ValidityType ==
    /\ Validity \in {0, 1, 2}
    /\ Authenticated(clock) <=> Validity = 2
BY DEF Validity, Unexpired, Authenticated

LEMMA ValidityUnchanged ==
    ASSUME UNCHANGED <<secret, jar, clock>>
    PROVE  Validity' = Validity
BY DEF Validity, Unexpired

LEMMA RedirectsLeftType ==
    ASSUME NEW request, request.at \in Location, NEW validity \in {0, 1, 2}
    PROVE  /\ FromLogin(request.at.logins, validity) \in 0 .. request.at.logins + 1
           /\ RedirectsLeft(request, validity) \in Nat
BY LocationType DEF RedirectsLeft, FromLogin, FromPage

\* A location that is asked for by its address.
LEMMA RedirectsLeftForGet ==
    ASSUME NEW location \in Location, NEW validity \in {0, 1, 2}
    PROVE  RedirectsLeft(Get(location), validity) =
             IF location.logins > 0 THEN FromLogin(location.logins, validity)
             ELSE FromPage(location.to, validity)
<1>1. Get(location).password \notin {"right", "wrong"}
  BY NothingAssumption DEF Get
<1>2. Get(location).at = location
  BY DEF Get
<1> QED
  BY <1>1, <1>2 DEF RedirectsLeft

LEMMA LoginsOnTheWayType == SessionTypeOK => LoginsOnTheWay \in Nat \ {0}
BY LocationType DEF LoginsOnTheWay, SessionTypeOK

\* A redirect that uses up what its request had left.
LEMMA RedirectCounted ==
    ASSUME SessionTypeOK, RedirectsRunOut, asking # Nothing, deployed' = deployed,
           wanted'.logins = wanted.logins, NEW location \in Location, Redirect(Get(location)),
           RedirectsLeft(Get(location), Validity') < RedirectsLeft(asking, Validity)
    PROVE  RedirectsRunOut'
<1>1. asking' = Get(location) /\ asking' # Nothing /\ hops' = hops + 1
      /\ asking'.at = location
  BY GetType DEF Redirect
<1>2. Validity' \in {0, 1, 2} /\ Validity \in {0, 1, 2}
  BY DEF Validity
<1>3. RedirectsLeft(asking', Validity') \in Nat /\ RedirectsLeft(asking, Validity) \in Nat
  BY <1>1, <1>2, RedirectsLeftType, RequestType
<1>4. RedirectsLeft(asking', Validity') < RedirectsLeft(asking, Validity)
  BY <1>1
<1>5. hops \in Nat /\ deployed \in Nat /\ LoginsOnTheWay \in Nat
      /\ LoginsOnTheWay' = LoginsOnTheWay
  BY SecretsAssumption, LoginsOnTheWayType DEF SessionTypeOK, LoginsOnTheWay
<1>6. hops' + RedirectsLeft(asking', Validity') <= LoginsOnTheWay + 1 + deployed
  BY <1>1, <1>3, <1>4, <1>5 DEF RedirectsRunOut
<1>7. hops' <= LoginsOnTheWay + 1 + deployed
  BY <1>1, <1>3, <1>5, <1>6
<1> QED
  BY <1>1, <1>5, <1>6, <1>7 DEF RedirectsRunOut

-------------------------------------------------------------------------------
(***************************************************************************)
(* What the session's actions leave true.                                  *)
(***************************************************************************)
LEMMA AskKeepsSession ==
    ASSUME SessionTypeOK, SessionInv, UNCHANGED clock, Visit \/ SignOut
    PROVE  SessionInv'
<1>1. PICK location \in Location : AskFor(location)
  BY AskedLocation
<1>2. /\ asking' # Nothing /\ asking'.at = location /\ wanted' = location
      /\ asking'.password = Nothing /\ asking' = Get(location)
      /\ hops' = 0 /\ deployed' = deployed
  BY <1>1, GetType DEF AskFor
<1>3. CookieIsSignature'
  BY <1>1, SecondType DEF AskFor, SessionInv, CookieIsSignature
<1>4. LoginsOnTheWay' = IF location.logins = 0 THEN 1 ELSE location.logins
  BY <1>2 DEF LoginsOnTheWay
<1>5. location.logins \in Nat
  BY LocationType
<1>6. OnTheWay'
  BY <1>2, <1>4, <1>5 DEF OnTheWay
<1>7. PasswordsToLogin'
  BY <1>2 DEF PasswordsToLogin
<1>8. RedirectsRunOut'
  <2>1. Validity' \in {0, 1, 2} /\ deployed \in Nat
    BY SecretsAssumption DEF Validity, SessionTypeOK
  <2>2. RedirectsLeft(asking', Validity') =
          IF location.logins > 0 THEN FromLogin(location.logins, Validity')
          ELSE FromPage(location.to, Validity')
    BY <1>2, <2>1, RedirectsLeftForGet
  <2>3. /\ FromLogin(location.logins, Validity') \in 0 .. location.logins + 1
        /\ FromPage(location.to, Validity') \in 1 .. 2
    BY <1>5, <2>1 DEF FromLogin, FromPage
  <2>4. RedirectsLeft(asking', Validity') \in Nat
        /\ RedirectsLeft(asking', Validity') <= LoginsOnTheWay' + 1
    BY <1>4, <1>5, <2>2, <2>3
  <2>5. LoginsOnTheWay' \in Nat
    BY <1>4, <1>5
  <2>6. /\ hops' <= LoginsOnTheWay' + 1 + deployed'
        /\ hops' + RedirectsLeft(asking', Validity') <= LoginsOnTheWay' + 1 + deployed'
    <3>1. hops' = 0 /\ deployed' \in Nat
      BY <1>2, <2>1
    <3>2. \A left, logins, n \in Nat :
            left <= logins + 1 => 0 <= logins + 1 + n /\ 0 + left <= logins + 1 + n
      OBVIOUS
    <3> QED
      BY <2>4, <2>5, <3>1, <3>2, Zenon
  <2> QED
    BY <1>2, <2>6 DEF RedirectsRunOut
<1> QED
  BY <1>3, <1>6, <1>7, <1>8 DEF SessionInv

LEMMA SubmitKeepsSession ==
    ASSUME SessionTypeOK, SessionInv, UNCHANGED clock, SubmitPassword
    PROVE  SessionInv'
<1>1. PICK password \in {"right", "wrong"} :
        asking' = [at |-> LoginPage(screen.next), password |-> password]
  BY DEF SubmitPassword
<1>2. screen.next \in Location /\ screen.kind = "form" /\ asking = Nothing
  BY DEF SubmitPassword, SessionTypeOK, Screen
<1>3. /\ asking' # Nothing /\ asking'.at \in Location /\ asking'.password = password
      /\ asking'.at.to = screen.next.to /\ asking'.at.logins = screen.next.logins + 1
      /\ screen.next.logins \in Nat
  <2>1. asking' \in PageRequest
    BY <1>1, <1>2, LocationType DEF PageRequest
  <2> QED
    BY <1>1, <1>2, <2>1, LocationType, NothingAssumption
<1>4. CookieIsSignature'
  BY DEF SubmitPassword, SessionInv, CookieIsSignature
<1>5. LoginsOnTheWay' = LoginsOnTheWay /\ LoginsOnTheWay \in Nat
      /\ screen.next.logins < LoginsOnTheWay
  BY <1>2, LoginsOnTheWayType DEF SubmitPassword, LoginsOnTheWay, SessionInv, OnTheWay
<1>6. OnTheWay'
  BY <1>2, <1>3, <1>5 DEF SubmitPassword, SessionInv, OnTheWay
<1>7. PasswordsToLogin'
  BY <1>3 DEF PasswordsToLogin
<1>8. RedirectsRunOut'
  <2>1. Validity' = Validity /\ Validity \in {0, 1, 2}
    BY ValidityUnchanged, ValidityType DEF SubmitPassword
  <2>2. deployed' = deployed /\ deployed \in Nat /\ hops' = 0
    BY SecretsAssumption DEF SubmitPassword, SessionTypeOK
  <2>3. RedirectsLeft(asking', Validity') =
          IF password = "right" THEN asking'.at.logins + 1
          ELSE 1 + FromLogin(asking'.at.logins, Validity')
    BY <1>3 DEF RedirectsLeft
  <2>4. FromLogin(asking'.at.logins, Validity) <=
          asking'.at.logins + (IF Validity = 2 THEN 1 ELSE 0)
        /\ FromLogin(asking'.at.logins, Validity) \in Nat
    BY <1>3, <2>1 DEF FromLogin
  <2>5. Validity = 2 => deployed > 0
    BY <1>2 DEF SessionInv, RedirectsRunOut
  <2> QED
    BY <1>3, <1>5, <2>1, <2>2, <2>3, <2>4, <2>5 DEF RedirectsRunOut
<1> QED
  BY <1>4, <1>6, <1>7, <1>8 DEF SessionInv

LEMMA NavigateKeepsSession ==
    ASSUME SessionTypeOK, SessionInv, UNCHANGED clock, Navigate
    PROVE  SessionInv'
<1>1. asking = Nothing /\ asking' = Nothing /\ screen'.kind = "app"
      /\ LoginsOnTheWay' = LoginsOnTheWay
  BY DEF Navigate, LoginsOnTheWay
<1>2. CookieIsSignature'
  BY DEF Navigate, SessionInv, CookieIsSignature
<1>3. RedirectsRunOut'
  BY <1>1 DEF Navigate, SessionInv, RedirectsRunOut
<1> QED
  BY <1>1, <1>2, <1>3 DEF SessionInv, OnTheWay, PasswordsToLogin

\* An answer that neither signs in nor out, and leads somewhere the way is not lost.
LEMMA RedirectKeepsSession ==
    ASSUME SessionTypeOK, SessionInv, UNCHANGED clock, asking # Nothing,
           UNCHANGED <<secret, deployed, jar, wanted, signedIn>>,
           NEW location \in Location, Redirect(Get(location)),
           location.to = wanted.to, location.logins <= LoginsOnTheWay,
           RedirectsLeft(Get(location), Validity) < RedirectsLeft(asking, Validity)
    PROVE  SessionInv'
<1>1. /\ screen' = screen /\ asking' # Nothing
      /\ asking'.at = location /\ asking'.password = Nothing
  BY RedirectTyped
<1>2. RedirectsRunOut' /\ LoginsOnTheWay' = LoginsOnTheWay
  BY ValidityUnchanged, RedirectCounted DEF SessionInv, LoginsOnTheWay
<1>3. CookieIsSignature'
  BY DEF SessionInv, CookieIsSignature
<1> QED
  BY <1>1, <1>2, <1>3 DEF SessionInv, OnTheWay, PasswordsToLogin

\* An answer that is shown.
LEMMA ShowKeepsSession ==
    ASSUME SessionTypeOK, SessionInv, UNCHANGED clock,
           UNCHANGED <<secret, deployed, jar, wanted, signedIn>>, NEW s \in Screen, Show(s),
           s.kind = "form" =>
             Validity # 2 /\ s.next.to = wanted.to /\ s.next.logins < LoginsOnTheWay
    PROVE  SessionInv'
<1>1. CookieIsSignature'
  BY DEF SessionInv, CookieIsSignature
<1>2. RedirectsRunOut' /\ LoginsOnTheWay' = LoginsOnTheWay
  BY ValidityUnchanged DEF Show, SessionInv, RedirectsRunOut, LoginsOnTheWay
<1> QED
  BY <1>1, <1>2 DEF Show, SessionInv, OnTheWay, PasswordsToLogin

LEMMA ServeKeepsSession ==
    ASSUME SessionTypeOK, SessionInv, clock \in Nat, UNCHANGED clock, Serve(clock)
    PROVE  SessionInv'
<1>0. /\ asking # Nothing /\ asking.at \in Location
      /\ asking.password \in {"right", "wrong", Nothing}
      /\ asking.password # Nothing => asking.at.logins > 0
      /\ asking.at.logins \in Nat /\ asking.at.to \in Paths \cup {Logout}
      /\ asking.at.to = wanted.to /\ asking.at.logins <= LoginsOnTheWay
      /\ LoginsOnTheWay \in Nat \ {0}
      /\ Validity \in {0, 1, 2}
  <2>1. asking # Nothing
    BY DEF Serve, ServeUnconfigured, ServeLogout, ServeLoginPage, ServeWrongPassword,
           ServeRightPassword, ServeApplication
  <2> QED
    BY <2>1, RequestType, LocationType, ValidityType, LoginsOnTheWayType
       DEF SessionInv, OnTheWay, PasswordsToLogin
<1>1. CASE ServeUnconfigured
  <2>1. [kind |-> "unavailable"] \in Screen
    BY DEF Screen
  <2> QED
    BY <1>1, <2>1, ShowKeepsSession DEF ServeUnconfigured
<1>2. CASE ServeLogout
  <2>1. PICK location : location = LoginPage(At(Home))
    OBVIOUS
  <2>2. /\ location \in Location /\ location.logins = 1 /\ location.to = Home
        /\ Redirect(Get(location)) /\ asking.at.logins = 0 /\ asking.at.to = Logout
    BY <1>2, <2>1, PathsAreNotLogout, AtType, LocationType DEF ServeLogout
  <2>3. asking' # Nothing /\ asking'.at = location /\ asking'.password = Nothing
    BY <2>2, RedirectTyped
  <2>4. wanted'.to = Home /\ wanted'.logins = wanted.logins /\ LoginsOnTheWay' = LoginsOnTheWay
    BY <1>2 DEF ServeLogout, SessionTypeOK, Location, LoginsOnTheWay
  <2>5. Validity' = 0
    BY <1>2 DEF ServeLogout, Validity, Unexpired
  <2>6. RedirectsLeft(asking, Validity) = 1
    BY <1>0, <2>2, NothingAssumption DEF RedirectsLeft, FromPage
  <2>7. RedirectsLeft(Get(location), Validity') = 0
    BY <2>2, <2>5, RedirectsLeftForGet DEF FromLogin
  <2>8. RedirectsRunOut'
    BY <1>0, <1>2, <2>2, <2>4, <2>6, <2>7, RedirectCounted DEF ServeLogout, SessionInv
  <2>9. CookieIsSignature'
    BY <1>2 DEF ServeLogout, CookieIsSignature
  <2>10. OnTheWay'
    BY <1>0, <2>2, <2>3, <2>4 DEF OnTheWay
  <2>11. PasswordsToLogin'
    BY <2>3 DEF PasswordsToLogin
  <2> QED
    BY <2>8, <2>9, <2>10, <2>11 DEF SessionInv
<1>3. CASE ServeLoginPage(clock)
  <2>1. asking.at.logins > 0 /\ asking.password = Nothing
    BY <1>3 DEF ServeLoginPage
  <2>2. PICK next \in Location : /\ next = NextOf(asking.at)
                                 /\ next.logins = asking.at.logins - 1 /\ next.to = wanted.to
    BY <1>0, <2>1, LocationType
  <2>3. CASE Authenticated(clock)
    <3>1. Validity = 2 /\ Redirect(Get(next))
      BY <1>3, <2>2, <2>3, ValidityType DEF ServeLoginPage
    <3>2. RedirectsLeft(asking, Validity) = asking.at.logins + 1
      BY <1>0, <2>1, <3>1, NothingAssumption DEF RedirectsLeft, FromLogin
    <3>3. RedirectsLeft(Get(next), Validity) = asking.at.logins
      <4>1. RedirectsLeft(Get(next), Validity) =
              IF next.logins > 0 THEN next.logins + 1 ELSE 1
        BY <3>1, RedirectsLeftForGet DEF FromLogin, FromPage
      <4> QED
        BY <1>0, <2>1, <2>2, <4>1
    <3> QED
      BY <1>0, <1>3, <2>2, <3>1, <3>2, <3>3, RedirectKeepsSession DEF ServeLoginPage
  <2>4. CASE ~Authenticated(clock)
    <3>1. Validity # 2 /\ Show([kind |-> "form", next |-> next])
      BY <1>3, <2>2, <2>4, ValidityType DEF ServeLoginPage
    <3>2. [kind |-> "form", next |-> next] \in Screen /\ next.logins < LoginsOnTheWay
      BY <1>0, <2>2 DEF Screen
    <3> QED
      BY <1>3, <2>2, <3>1, <3>2, ShowKeepsSession DEF ServeLoginPage
  <2> QED
    BY <2>3, <2>4
<1>4. CASE ServeWrongPassword
  <2>1. asking.password = "wrong" /\ asking.at.logins > 0
    BY <1>0, <1>4, NothingAssumption DEF ServeWrongPassword
  <2>2. Redirect(Get(asking.at))
    BY <1>0, <1>4, <2>1, LocationType DEF ServeWrongPassword
  <2>3. RedirectsLeft(asking, Validity) = 1 + FromLogin(asking.at.logins, Validity)
    BY <2>1 DEF RedirectsLeft
  <2>4. RedirectsLeft(Get(asking.at), Validity) = FromLogin(asking.at.logins, Validity)
    BY <1>0, <2>1, RedirectsLeftForGet
  <2>5. FromLogin(asking.at.logins, Validity) \in Nat
    BY <1>0 DEF FromLogin
  <2> QED
    BY <1>0, <1>4, <2>2, <2>3, <2>4, <2>5, RedirectKeepsSession DEF ServeWrongPassword
<1>5. CASE ServeRightPassword(clock)
  <2>1. asking.password = "right" /\ asking.at.logins > 0
    BY <1>0, <1>5, NothingAssumption DEF ServeRightPassword
  <2>2. PICK next \in Location : /\ Redirect(Get(next))
                                 /\ next.logins = asking.at.logins - 1 /\ next.to = wanted.to
    BY <1>0, <1>5, <2>1, LocationType DEF ServeRightPassword
  <2>3. RedirectsLeft(asking, Validity) = asking.at.logins + 1
    BY <2>1 DEF RedirectsLeft
  <2>4. jar' \in Cookie /\ jar' # Nothing /\ jar'.secret = secret
        /\ jar'.expiresAt = Second(clock) + SessionSeconds
        /\ signedIn' # Nothing /\ signedIn' = [at |-> clock, secret |-> secret]
    <3>1. secret \in Secrets
      BY <1>5 DEF ServeRightPassword, Configured, SessionTypeOK
    <3>2. Second(clock) + SessionSeconds \in Nat /\ clock + SessionSeconds * TicksPerSecond \in Nat
      BY SecondType, SecondsAssumption
    <3>3. jar' \in Cookie /\ signedIn' \in [at: Nat, secret: Secrets]
      BY <1>5, <3>1, <3>2 DEF ServeRightPassword, Cookie
    <3> QED
      BY <1>5, <3>3, NothingAssumption DEF ServeRightPassword
  <2>5. Validity' = 2
    BY <1>5, <2>4, SecondType, SecondsAssumption DEF ServeRightPassword, Validity, Unexpired
  <2>6. RedirectsLeft(Get(next), Validity') = asking.at.logins
    <3>1. RedirectsLeft(Get(next), Validity') = IF next.logins > 0 THEN next.logins + 1 ELSE 1
      BY <2>5, RedirectsLeftForGet DEF FromLogin, FromPage
    <3> QED
      BY <1>0, <2>1, <2>2, <3>1
  <2>7. LoginsOnTheWay' = LoginsOnTheWay /\ wanted' = wanted
    BY <1>5 DEF ServeRightPassword, LoginsOnTheWay
  <2>8. RedirectsRunOut'
    BY <1>0, <1>5, <2>2, <2>3, <2>6, <2>7, RedirectCounted DEF ServeRightPassword, SessionInv
  <2>9. CookieIsSignature'
    BY <2>4 DEF CookieIsSignature, Second
  <2>10. asking' # Nothing /\ asking'.at = next /\ asking'.password = Nothing
    BY <2>2, RedirectTyped
  <2>11. OnTheWay'
    BY <1>0, <2>2, <2>7, <2>10 DEF OnTheWay
  <2>12. PasswordsToLogin'
    BY <2>10 DEF PasswordsToLogin
  <2> QED
    BY <2>8, <2>9, <2>11, <2>12 DEF SessionInv
<1>6. CASE ServeApplication(clock)
  <2>1. asking.at.to \in Paths /\ asking.at.to # Logout /\ asking.at.logins = 0
        /\ asking.password = Nothing
    BY <1>0, <1>6, PathsAreNotLogout DEF ServeApplication
  <2>2. CASE Authenticated(clock)
    <3>1. Show([kind |-> "app", path |-> asking.at.to])
      BY <1>6, <2>2 DEF ServeApplication
    <3>2. [kind |-> "app", path |-> asking.at.to] \in Screen
      BY <2>1 DEF Screen
    <3> QED
      BY <1>6, <3>1, <3>2, ShowKeepsSession DEF ServeApplication
  <2>3. CASE ~Authenticated(clock)
    <3>1. PICK login \in Location : /\ Redirect(Get(login))
                                    /\ login.logins = 1 /\ login.to = wanted.to
      BY <1>0, <1>6, <2>1, <2>3, LocationType DEF ServeApplication
    <3>2. Validity \in {0, 1}
      BY <2>3, ValidityType
    <3>3. RedirectsLeft(asking, Validity) = IF Validity = 1 THEN 2 ELSE 1
      BY <2>1, NothingAssumption DEF RedirectsLeft, FromPage
    <3>4. RedirectsLeft(Get(login), Validity) = Validity
      BY <3>1, <3>2, RedirectsLeftForGet DEF FromLogin
    <3> QED
      BY <1>0, <1>6, <3>1, <3>2, <3>3, <3>4, RedirectKeepsSession DEF ServeApplication
  <2> QED
    BY <2>2, <2>3
<1> QED
  BY <1>1, <1>2, <1>3, <1>4, <1>5, <1>6 DEF Serve

\* Time only takes cookies away.
LEMMA AgingKeepsSession ==
    ASSUME SessionTypeOK, SessionInv, clock \in Nat, clock' = clock + 1, CookieAges(clock')
    PROVE  SessionInv'
<1>1. Second(clock) \in Nat /\ Second(clock') \in Nat /\ Second(clock) <= Second(clock')
  BY SecondType, SecondGrows
<1>2. CookieIsSignature'
  BY DEF CookieAges, SessionInv, CookieIsSignature, Second
<1>3. Validity' \in {0, Validity} /\ Validity \in {0, 1, 2}
  <2>1. Validity \in {0, 1, 2}
    BY ValidityType
  <2>2. CASE jar' = jar
    <3>1. jar # Nothing => jar.expiresAt \in Nat
      BY DEF SessionTypeOK, Cookie
    <3>2. Unexpired' => Unexpired
      BY <1>1, <2>2, <3>1 DEF Unexpired
    <3> QED
      BY <2>1, <2>2, <3>2 DEF Validity, CookieAges
  <2>3. CASE jar' = Nothing
    BY <2>1, <2>3 DEF Validity, Unexpired
  <2> QED
    BY <2>2, <2>3 DEF CookieAges
<1>4. RedirectsRunOut' /\ LoginsOnTheWay' = LoginsOnTheWay
  <2>1. UNCHANGED <<asking, screen, hops, deployed, wanted>> /\ hops \in Nat /\ deployed \in Nat
        /\ LoginsOnTheWay' = LoginsOnTheWay /\ LoginsOnTheWay \in Nat
    BY SecretsAssumption, LoginsOnTheWayType DEF CookieAges, SessionTypeOK, LoginsOnTheWay
  <2>2. ASSUME asking # Nothing
        PROVE  hops' + RedirectsLeft(asking', Validity') <= LoginsOnTheWay' + 1 + deployed'
    <3>1. asking.at \in Location
      BY <2>2, RequestType
    <3>2. RedirectsLeft(asking, 0) \in Nat /\ RedirectsLeft(asking, Validity) \in Nat
      BY <1>3, <3>1, RedirectsLeftType
    <3>3. RedirectsLeft(asking, 0) <= RedirectsLeft(asking, Validity)
      BY <1>3, <3>1, LocationType DEF RedirectsLeft, FromLogin, FromPage
    <3>4. RedirectsLeft(asking', Validity') \in {RedirectsLeft(asking, 0), RedirectsLeft(asking, Validity)}
      BY <1>3, <2>1
    <3> QED
      BY <2>1, <2>2, <3>2, <3>3, <3>4 DEF SessionInv, RedirectsRunOut
  <2> QED
    BY <1>3, <2>1, <2>2 DEF SessionInv, RedirectsRunOut
<1> QED
  BY <1>2, <1>4 DEF CookieAges, SessionInv, OnTheWay, PasswordsToLogin

\* Another secret makes one cookie invalid, or valid, that was not.
LEMMA RedeployKeepsSession ==
    ASSUME SessionTypeOK, SessionInv, UNCHANGED clock, Redeploy
    PROVE  SessionInv'
<1>1. UNCHANGED <<jar, asking, screen, hops, wanted, signedIn>> /\ deployed' = deployed + 1
      /\ deployed \in Nat /\ hops \in Nat
  BY SecretsAssumption DEF Redeploy, SessionTypeOK
<1>2. CookieIsSignature'
  BY <1>1 DEF SessionInv, CookieIsSignature
<1>3. Validity \in {0, 1, 2} /\ Validity' \in {0, 1, 2} /\ (Validity = 0 <=> Validity' = 0)
  BY <1>1 DEF Validity, Unexpired
<1>4. RedirectsRunOut' /\ LoginsOnTheWay' = LoginsOnTheWay
  <2>1. LoginsOnTheWay' = LoginsOnTheWay /\ LoginsOnTheWay \in Nat
    BY <1>1, LoginsOnTheWayType DEF LoginsOnTheWay
  <2>2. ASSUME asking # Nothing
        PROVE  hops' + RedirectsLeft(asking', Validity') <= LoginsOnTheWay' + 1 + deployed'
    <3>1. asking.at \in Location
      BY <2>2, RequestType
    <3>2. RedirectsLeft(asking, Validity) \in Nat /\ RedirectsLeft(asking, Validity') \in Nat
      BY <1>3, <3>1, RedirectsLeftType
    <3>3. RedirectsLeft(asking, Validity') <= RedirectsLeft(asking, Validity) + 1
      BY <1>3, <3>1, LocationType DEF RedirectsLeft, FromLogin, FromPage
    <3> QED
      BY <1>1, <2>1, <2>2, <3>2, <3>3 DEF SessionInv, RedirectsRunOut
  <2> QED
    BY <1>1, <2>1, <2>2 DEF SessionInv, RedirectsRunOut
<1> QED
  BY <1>1, <1>2, <1>4 DEF SessionInv, OnTheWay, PasswordsToLogin

LEMMA SessionRests ==
    ASSUME SessionInv, UNCHANGED sessionVars, UNCHANGED clock
    PROVE  SessionInv'
<1>1. UNCHANGED <<secret, deployed, jar, asking, screen, hops, wanted, signedIn>>
  BY DEF sessionVars
<1>2. Validity' = Validity /\ LoginsOnTheWay' = LoginsOnTheWay
  BY <1>1, ValidityUnchanged DEF LoginsOnTheWay
<1> QED
  BY <1>1, <1>2
     DEF SessionInv, CookieIsSignature, OnTheWay, PasswordsToLogin, RedirectsRunOut

-------------------------------------------------------------------------------
(***************************************************************************)
(* The page's machine, action by action: its type, and what its invariant  *)
(* is made of.                                                             *)
(***************************************************************************)
MachineInv == HistoryTypeOK /\ PageInv

\* The page is closed, by the learner or by another document.
LEMMA ClosedCorrect ==
    ASSUME IsFiniteSet(events'), CloseHistory
    PROVE  MachineInv'
<1>1. NoWords \in [WordIds -> Texts \cup {None}]
      /\ NoWords \in [WordIds -> Summary \cup {None}]
  BY DEF NoWords
<1>2. history' = ClosedHistory /\ flights' = {}
  BY DEF CloseHistory
<1>3. ClosedHistory \in History
  BY <1>1, HistoryAssumption DEF ClosedHistory, History
<1>4. history'.attempts = {} /\ history'.events = {} /\ history'.state = "Closed"
      /\ history'.step = None
  BY <1>2 DEF ClosedHistory
<1>5. IsFiniteSet({})
  BY FS_EmptySet
<1> QED
  BY <1>2, <1>3, <1>4, <1>5
     DEF MachineInv, HistoryTypeOK, PageInv, Finite, OneAwaited, StepWhileLoading,
         FilterIsCurrent, AttemptsBelong

LEMMA StartLoadingCorrect ==
    ASSUME MachineInv, history.state \in {"Closed", "Ready", "Failure"}, StartLoading,
           IsFiniteSet(events')
    PROVE  MachineInv'
<1>1. history \in History
  BY DEF MachineInv, HistoryTypeOK
<1>3. history' \in History
  BY <1>1 DEF StartLoading, Becomes, History
<1>4. /\ history'.state = "Loading" /\ history'.events = history.events
      /\ history'.selected = history.selected /\ history'.attempts = history.attempts
      /\ flights' = flights
  BY <1>1 DEF StartLoading, Becomes, History
<1>5. OneAwaited'
  <2>1. \A f \in flights : ~f.awaited
    BY DEF MachineInv, PageInv, OneAwaited
  <2> QED
    BY <1>4, <2>1 DEF OneAwaited
<1>6. AttemptsBelong'
  BY <1>4 DEF MachineInv, PageInv, AttemptsBelong
<1>7. Finite' /\ StepWhileLoading' /\ FilterIsCurrent'
  BY <1>4 DEF MachineInv, PageInv, Finite, StepWhileLoading, FilterIsCurrent
<1> QED
  BY <1>3, <1>4, <1>5, <1>6, <1>7 DEF MachineInv, HistoryTypeOK, PageInv

\* What a step of the machine has to leave true, when nothing is awaited in its new state.
LEMMA NothingAwaited ==
    ASSUME history' \in History, flights' \subseteq Flight, Finite', StepWhileLoading', FilterIsCurrent',
           \A f \in flights' : ~f.awaited, history'.state # "LoadingAttempts",
           \A e \in history'.attempts : e.word = history'.selected
    PROVE  MachineInv'
<1>1. OneAwaited'
  BY DEF OneAwaited
<1>2. AttemptsBelong'
  BY DEF AttemptsBelong
<1> QED
  BY <1>1, <1>2 DEF MachineInv, HistoryTypeOK, PageInv

\* Only while a word's attempts are loaded is a load awaited.
LEMMA NoneAwaitedYet ==
    ASSUME MachineInv, history.state # "LoadingAttempts"
    PROVE  /\ \A f \in flights : ~f.awaited
           /\ \A e \in history.attempts : e.word = history.selected
BY DEF MachineInv, PageInv, OneAwaited, AttemptsBelong

LEMMA ReadEventsCorrect ==
    ASSUME MachineInv, events \subseteq PracticeEvent, IsFiniteSet(events), events' = events,
           ReadHistoryEvents
    PROVE  MachineInv'
<1>1. history \in History /\ flights \subseteq Flight
  BY DEF MachineInv, HistoryTypeOK
<1>2. history.state = "Loading"
  BY HistoryAssumption DEF ReadHistoryEvents, MachineInv, PageInv, StepWhileLoading
<1>3. /\ history' \in History /\ flights' = flights
      /\ history'.state = "Loading" /\ history'.events = events
      /\ history'.selected = history.selected /\ history'.attempts = history.attempts
  BY <1>1, <1>2 DEF ReadHistoryEvents, Becomes, History
<1> QED
  BY <1>1, <1>2, <1>3, NothingAwaited, NoneAwaitedYet DEF Finite, StepWhileLoading, FilterIsCurrent

LEMMA ReadWordsCorrect ==
    ASSUME MachineInv, words \in WordRows, events' = events, ReadHistoryWords
    PROVE  MachineInv'
<1>1. history \in History /\ flights \subseteq Flight /\ Finite
  BY DEF MachineInv, HistoryTypeOK, PageInv
<1>2. history.state = "Loading"
  BY HistoryAssumption DEF ReadHistoryWords, MachineInv, PageInv, StepWhileLoading
<1>3. [w \in WordIds |-> IF Active(w) THEN words[w].text ELSE None] \in [WordIds -> Texts \cup {None}]
  BY DEF WordRows, WordRow, Active
<1>4. PICK active : active = [w \in WordIds |-> IF Active(w) THEN words[w].text ELSE None]
  OBVIOUS
<1>5. /\ history' \in History /\ flights' = flights
      /\ history'.state = "Loading" /\ history'.events = history.events
      /\ history'.selected = history.selected /\ history'.attempts = history.attempts
  BY <1>1, <1>2, <1>3, <1>4 DEF ReadHistoryWords, Becomes, History
<1> QED
  BY <1>1, <1>2, <1>5, NothingAwaited, NoneAwaitedYet DEF Finite, StepWhileLoading, FilterIsCurrent

\* A word that was read with its memory row has a summary.
LEMMA SummarisedAsRecord ==
    ASSUME history \in History, states \in StateRows, clock \in Nat, NEW w \in WordIds,
           history.words[w] # None, states[w] # None
    PROVE  Summarised(w) \in Summary
<1>1. history.words[w] \in Texts /\ states[w] \in StateRow
  BY DEF History, StateRows
<1>2. states[w].card \in Card /\ states[w].attempts \in Nat /\ states[w].correct \in Nat
  BY <1>1 DEF StateRow
<1>3. states[w].card.phase \in Phases /\ states[w].card.due \in Nat
  BY <1>2 DEF Card
<1>4. Status(states[w].card) \in Statuses
  BY <1>3 DEF Status, Statuses, Phases
<1> QED
  BY <1>1, <1>2, <1>4 DEF Summarised, Summary

LEMMA SummarisedType ==
    ASSUME history \in History, states \in StateRows, clock \in Nat, NEW w \in WordIds
    PROVE  Summarised(w) \in Summary \cup {None}
BY SummarisedAsRecord DEF Summarised

LEMMA LoadedCorrect ==
    ASSUME MachineInv, states \in StateRows, clock \in Nat, events' = events, HistoryLoaded
    PROVE  MachineInv' /\ history'.state = "Ready" /\ history'.selected = None
<1>1. history \in History /\ flights \subseteq Flight /\ Finite
  BY DEF MachineInv, HistoryTypeOK, PageInv
<1>2. history.state = "Loading"
  BY HistoryAssumption DEF HistoryLoaded, MachineInv, PageInv, StepWhileLoading
<1>3. PICK summaries : summaries = [w \in WordIds |-> Summarised(w)]
  OBVIOUS
<1>4. summaries \in [WordIds -> Summary \cup {None}]
  BY <1>1, <1>3, SummarisedType
<1>5. Cardinality(TodaysEvents) \in Nat
  <2>1. IsFiniteSet(TodaysEvents)
    BY <1>1, FS_Subset DEF TodaysEvents, Finite
  <2> QED
    BY <2>1, FS_CardinalityType
<1>6. PICK today \in Nat : today = Cardinality(TodaysEvents)
  BY <1>5
<1>7. PICK matching \in SUBSET WordIds : matching = Matching(history.query, summaries)
  BY DEF Matching
<1>8. NoWords \in [WordIds -> Texts \cup {None}]
  BY DEF NoWords
<1>9. Becomes([state |-> "Ready", step |-> None, events |-> {}, words |-> NoWords,
               summaries |-> summaries, matching |-> matching, visible |-> SummaryPage,
               today |-> today, selected |-> None, attempts |-> {}])
  BY <1>3, <1>6, <1>7 DEF HistoryLoaded
<1>10. /\ history' \in History
       /\ history'.state = "Ready" /\ history'.step = None /\ history'.events = {}
       /\ history'.selected = None /\ history'.attempts = {}
       /\ history'.matching = matching /\ history'.query = history.query
       /\ history'.summaries = summaries
  BY <1>1, <1>4, <1>8, <1>9, HistoryAssumption DEF Becomes, History
<1>11. Finite' /\ StepWhileLoading' /\ FilterIsCurrent'
  BY <1>1, <1>7, <1>10, FS_EmptySet DEF Finite, StepWhileLoading, FilterIsCurrent
<1> QED
  BY <1>1, <1>2, <1>10, <1>11, NothingAwaited, NoneAwaitedYet DEF HistoryLoaded

LEMMA NotLoadedCorrect ==
    ASSUME MachineInv, IsFiniteSet(events'), HistoryNotLoaded
    PROVE  MachineInv'
<1>1. history \in History /\ flights \subseteq Flight /\ history.state = "Loading"
  BY DEF MachineInv, HistoryTypeOK, HistoryNotLoaded
<1>2. NoWords \in [WordIds -> Texts \cup {None}]
  BY DEF NoWords
<1>3. /\ history' \in History /\ flights' = flights
      /\ history'.state = "Failure" /\ history'.step = None /\ history'.events = {}
      /\ history'.selected = history.selected /\ history'.attempts = history.attempts
  BY <1>1, <1>2 DEF HistoryNotLoaded, Becomes, History
<1> QED
  BY <1>1, <1>3, NothingAwaited, NoneAwaitedYet, FS_EmptySet
     DEF Finite, StepWhileLoading, FilterIsCurrent

\* Typing, in the list or while nothing is loaded.
LEMMA ChangeQueryCorrect ==
    ASSUME MachineInv, events' = events, ChangeQuery
    PROVE  MachineInv'
<1>1. history \in History /\ flights \subseteq Flight /\ Finite
      /\ (history.step # None => history.state = "Loading")
  BY DEF MachineInv, HistoryTypeOK, PageInv, StepWhileLoading
<1>2. CASE history.state = "Failure"
  <2>1. PICK q \in Queries : Becomes([query |-> q])
    BY <1>2 DEF ChangeQuery
  <2>2. /\ history' \in History /\ flights' = flights
        /\ history'.state = "Failure" /\ history'.step = history.step
        /\ history'.events = history.events
        /\ history'.selected = history.selected /\ history'.attempts = history.attempts
    BY <1>1, <1>2, <2>1 DEF ChangeQuery, Becomes, History
  <2> QED
    BY <1>1, <1>2, <2>2, NothingAwaited, NoneAwaitedYet
       DEF Finite, StepWhileLoading, FilterIsCurrent
<1>3. CASE history.state = "Ready"
  <2>1. PICK q \in Queries :
          Becomes([query |-> q, matching |-> Matching(q, history.summaries),
                   visible |-> SummaryPage])
    BY <1>3 DEF ChangeQuery
  <2>2. PICK matching \in SUBSET WordIds : matching = Matching(q, history.summaries)
    BY DEF Matching
  <2>3. Becomes([query |-> q, matching |-> matching, visible |-> SummaryPage])
    BY <2>1, <2>2
  <2>4. /\ history' \in History /\ flights' = flights
        /\ history'.state = "Ready" /\ history'.step = history.step
        /\ history'.events = history.events
        /\ history'.matching = matching /\ history'.query = q
        /\ history'.summaries = history.summaries
        /\ history'.selected = history.selected /\ history'.attempts = history.attempts
    BY <1>1, <1>3, <2>3, HistoryAssumption DEF ChangeQuery, Becomes, History
  <2> QED
    BY <1>1, <1>3, <2>2, <2>4, NothingAwaited, NoneAwaitedYet
       DEF Finite, StepWhileLoading, FilterIsCurrent
<1> QED
  BY <1>2, <1>3 DEF ChangeQuery

LEMMA LoadMoreCorrect ==
    ASSUME MachineInv, events' = events, LoadMore
    PROVE  MachineInv'
<1>1. history \in History /\ flights \subseteq Flight /\ Finite /\ history.state = "Ready"
      /\ history.step = None /\ history.matching = Matching(history.query, history.summaries)
  BY DEF MachineInv, HistoryTypeOK, PageInv, StepWhileLoading, FilterIsCurrent, LoadMore
<1>2. history.visible + SummaryPage \in Nat
  BY <1>1, HistoryAssumption DEF History
<1>3. /\ history' \in History /\ flights' = flights
      /\ history'.state = "Ready" /\ history'.step = None /\ history'.events = history.events
      /\ history'.matching = history.matching /\ history'.query = history.query
      /\ history'.summaries = history.summaries
      /\ history'.selected = history.selected /\ history'.attempts = history.attempts
  BY <1>1, <1>2 DEF LoadMore, Becomes, History
<1> QED
  BY <1>1, <1>3, NothingAwaited, NoneAwaitedYet DEF Finite, StepWhileLoading, FilterIsCurrent

LEMMA SelectWordCorrect ==
    ASSUME MachineInv, events' = events, SelectWord
    PROVE  MachineInv'
<1>1. history \in History /\ flights \subseteq Flight /\ Finite /\ history.state = "Ready"
      /\ history.step = None /\ history.matching = Matching(history.query, history.summaries)
  BY DEF MachineInv, HistoryTypeOK, PageInv, StepWhileLoading, FilterIsCurrent, SelectWord
<1>2. PICK w \in history.matching :
        /\ Becomes([state |-> "LoadingAttempts", selected |-> w, attempts |-> {}])
        /\ flights' = flights \cup {[word |-> w, step |-> "word", awaited |-> TRUE]}
  BY DEF SelectWord
<1>3. w \in WordIds
  BY <1>1 DEF History
<1>4. /\ history' \in History
      /\ history'.state = "LoadingAttempts" /\ history'.step = None
      /\ history'.events = history.events
      /\ history'.matching = history.matching /\ history'.query = history.query
      /\ history'.summaries = history.summaries
      /\ history'.selected = w /\ history'.attempts = {}
  BY <1>1, <1>2, <1>3 DEF Becomes, History
<1>5. PICK load : load = [word |-> w, step |-> "word", awaited |-> TRUE]
  OBVIOUS
<1>6. load \in Flight /\ load.awaited /\ load.word = w /\ flights' = flights \cup {load}
  BY <1>2, <1>3, <1>5 DEF Flight
<1>7. \A f \in flights' : f.awaited => f = load
  BY <1>1, <1>6, NoneAwaitedYet
<1>8. OneAwaited'
  BY <1>4, <1>6, <1>7 DEF OneAwaited
<1>9. AttemptsBelong'
  BY <1>4, <1>6 DEF AttemptsBelong
<1>10. Finite' /\ StepWhileLoading' /\ FilterIsCurrent'
  BY <1>1, <1>4 DEF Finite, StepWhileLoading, FilterIsCurrent
<1> QED
  BY <1>1, <1>4, <1>6, <1>8, <1>9, <1>10 DEF MachineInv, HistoryTypeOK, PageInv

LEMMA CloseWordCorrect ==
    ASSUME MachineInv, events' = events, CloseWord
    PROVE  MachineInv'
<1>1. history \in History /\ flights \subseteq Flight /\ Finite
      /\ history.state \in {"Ready", "LoadingAttempts"}
      /\ history.step = None /\ history.matching = Matching(history.query, history.summaries)
  BY DEF MachineInv, HistoryTypeOK, PageInv, StepWhileLoading, FilterIsCurrent, CloseWord
<1>2. /\ history' \in History
      /\ history'.state = "Ready" /\ history'.step = None
      /\ history'.events = history.events
      /\ history'.matching = history.matching /\ history'.query = history.query
      /\ history'.summaries = history.summaries
      /\ history'.selected = None /\ history'.attempts = {}
  BY <1>1 DEF CloseWord, Becomes, History
<1>3. \A f \in flights' : f \in Flight /\ ~f.awaited
  BY <1>1 DEF CloseWord, Unawaited, Flight
<1>4. Finite' /\ StepWhileLoading' /\ FilterIsCurrent'
  BY <1>1, <1>2 DEF Finite, StepWhileLoading, FilterIsCurrent
<1> QED
  BY <1>2, <1>3, <1>4, NothingAwaited

\* A load that goes on.
LEMMA FoundWordCorrect ==
    ASSUME MachineInv, events' = events, NEW f \in flights, FoundWord(f)
    PROVE  MachineInv'
<1>1. history' = history /\ flights \subseteq Flight
      /\ history.state \in {"Closed", "Loading", "Ready", "LoadingAttempts", "Failure"}
  BY DEF MachineInv, HistoryTypeOK, FoundWord, History
<1>2. PICK g : g = [f EXCEPT !.step = "events"]
  OBVIOUS
<1>3. g \in Flight /\ g.word = f.word /\ g.awaited = f.awaited
  BY <1>1, <1>2 DEF Flight
<1>4. flights' = (flights \ {f}) \cup {g}
  BY <1>2 DEF FoundWord
<1>5. OneAwaited'
  BY <1>1, <1>3, <1>4 DEF MachineInv, PageInv, OneAwaited
<1>6. AttemptsBelong'
  <2>1. CASE history.state = "LoadingAttempts"
    <3>1. PICK h \in flights : h.awaited /\ h.word = history.selected
      BY <2>1 DEF MachineInv, PageInv, AttemptsBelong
    <3>2. \E h2 \in flights' : h2.awaited /\ h2.word = history.selected
      BY <1>3, <1>4, <3>1
    <3> QED
      BY <1>1, <3>2 DEF MachineInv, PageInv, AttemptsBelong
  <2> QED
    BY <1>1, <2>1 DEF MachineInv, PageInv, AttemptsBelong
<1>7. Finite' /\ StepWhileLoading' /\ FilterIsCurrent'
  BY <1>1 DEF MachineInv, PageInv, Finite, StepWhileLoading, FilterIsCurrent
<1> QED
  BY <1>1, <1>3, <1>4, <1>5, <1>6, <1>7 DEF MachineInv, HistoryTypeOK, PageInv

\* The end of a load nobody awaits.
LEMMA UnawaitedEnds ==
    ASSUME MachineInv, events' = events, NEW f \in flights, ~f.awaited,
           flights' = flights \ {f}, history' = history
    PROVE  MachineInv'
<1>1. OneAwaited'
  BY DEF MachineInv, PageInv, OneAwaited
<1>2. AttemptsBelong'
  BY DEF MachineInv, PageInv, AttemptsBelong
<1>3. Finite' /\ StepWhileLoading' /\ FilterIsCurrent'
  BY DEF MachineInv, PageInv, Finite, StepWhileLoading, FilterIsCurrent
<1> QED
  BY <1>1, <1>2, <1>3 DEF MachineInv, HistoryTypeOK, PageInv

\* What holds when the awaited load ends.
LEMMA AwaitedEnds ==
    ASSUME MachineInv, NEW f \in flights, f.awaited
    PROVE  /\ history \in History /\ flights \subseteq Flight /\ Finite
           /\ history.state = "LoadingAttempts" /\ history.step = None
           /\ history.matching = Matching(history.query, history.summaries)
           /\ f.word = history.selected /\ f.word \in WordIds
           /\ \A e \in history.attempts : e.word = history.selected
           /\ \A g \in flights \ {f} : ~g.awaited
<1>1. history.state = "LoadingAttempts" /\ f.word = history.selected
      /\ \A g \in flights \ {f} : ~g.awaited
  BY DEF MachineInv, PageInv, OneAwaited
<1>2. f.word \in WordIds
  BY DEF MachineInv, HistoryTypeOK, Flight
<1> QED
  BY <1>1, <1>2
     DEF MachineInv, HistoryTypeOK, PageInv, StepWhileLoading, FilterIsCurrent, AttemptsBelong

LEMMA AttemptsLoadedCorrect ==
    ASSUME MachineInv, events \subseteq PracticeEvent, events' = events,
           NEW f \in flights, AttemptsLoaded(f)
    PROVE  MachineInv' /\ history'.selected = history.selected
<1>1. CASE f.awaited
  <2>1. PICK loaded \in SUBSET PracticeEvent : loaded = {e \in events : e.word = f.word}
    OBVIOUS
  <2>2. Becomes([state |-> "Ready", selected |-> f.word, attempts |-> loaded])
        /\ flights' = flights \ {f}
    BY <1>1, <2>1 DEF AttemptsLoaded
  <2>3. /\ history' \in History
        /\ history'.state = "Ready" /\ history'.step = None
        /\ history'.events = history.events
        /\ history'.matching = history.matching /\ history'.query = history.query
        /\ history'.summaries = history.summaries
        /\ history'.selected = history.selected /\ history'.attempts = loaded
    BY <1>1, <2>2, AwaitedEnds DEF Becomes, History
  <2>4. \A e \in history'.attempts : e.word = history'.selected
    BY <1>1, <2>1, <2>3, AwaitedEnds
  <2>5. Finite' /\ StepWhileLoading' /\ FilterIsCurrent'
    BY <1>1, <2>3, AwaitedEnds DEF Finite, StepWhileLoading, FilterIsCurrent
  <2> QED
    BY <1>1, <2>2, <2>3, <2>4, <2>5, AwaitedEnds, NothingAwaited
<1>2. CASE ~f.awaited
  BY <1>2, UnawaitedEnds DEF AttemptsLoaded
<1> QED
  BY <1>1, <1>2

LEMMA AttemptsNotLoadedCorrect ==
    ASSUME MachineInv, events' = events, NEW f \in flights, AttemptsNotLoaded(f)
    PROVE  MachineInv' /\ history'.selected = history.selected
<1>1. CASE f.awaited
  <2>1. Becomes([state |-> "Ready"]) /\ flights' = flights \ {f}
    BY <1>1 DEF AttemptsNotLoaded
  <2>2. /\ history' \in History
        /\ history'.state = "Ready" /\ history'.step = None
        /\ history'.events = history.events
        /\ history'.matching = history.matching /\ history'.query = history.query
        /\ history'.summaries = history.summaries
        /\ history'.selected = history.selected /\ history'.attempts = history.attempts
    BY <1>1, <2>1, AwaitedEnds DEF Becomes, History
  <2>3. Finite' /\ StepWhileLoading' /\ FilterIsCurrent'
    BY <1>1, <2>2, AwaitedEnds DEF Finite, StepWhileLoading, FilterIsCurrent
  <2> QED
    BY <1>1, <2>1, <2>2, <2>3, AwaitedEnds, NothingAwaited
<1>2. CASE ~f.awaited
  BY <1>2, UnawaitedEnds DEF AttemptsNotLoaded
<1> QED
  BY <1>1, <1>2

\* The page rests while the store or the browser changes.
LEMMA MachineRests ==
    ASSUME MachineInv, IsFiniteSet(events'), UNCHANGED historyVars
    PROVE  MachineInv'
<1>1. history' = history /\ flights' = flights
  BY DEF historyVars
<1>2. OneAwaited' /\ AttemptsBelong'
  BY <1>1 DEF MachineInv, PageInv, OneAwaited, AttemptsBelong
<1>3. Finite' /\ StepWhileLoading' /\ FilterIsCurrent'
  BY <1>1 DEF MachineInv, PageInv, Finite, StepWhileLoading, FilterIsCurrent
<1> QED
  BY <1>1, <1>2, <1>3 DEF MachineInv, HistoryTypeOK, PageInv

-------------------------------------------------------------------------------
(***************************************************************************)
(* The store in use elsewhere.                                             *)
(***************************************************************************)
StoreInv == StoreTypeOK /\ IsFiniteSet(events)

ElsewhereTypeOK ==
    elsewhere \in 0 .. MaxElsewhere /\ items \subseteq Item /\ overwritten \subseteq WordIds

TablesTypeOK ==
    /\ words \in WordRows
    /\ states \in StateRows
    /\ events \subseteq PracticeEvent
    /\ saved \subseteq PracticeEvent
    /\ archivedFrom \in [WordIds -> Nat]
    /\ deleted \subseteq WordIds

\* A mutation that was decided on is a request.
LEMMA DecisionCorrect ==
    ASSUME StoreInv, NEW q \in Request, Decide(q), usedIds' \subseteq WordIds, nextEvent' \in Nat
    PROVE  StoreInv'
BY DEF Decide, tables, StoreInv, StoreTypeOK

LEMMA LoadItemCorrect ==
    ASSUME StoreInv, ElsewhereTypeOK, LoadItemElsewhere
    PROVE  StoreInv' /\ items' \subseteq Item
<1>1. PICK w \in WordIds : states[w] # None /\ items' = items \cup {[word |-> w, row |-> states[w]]}
  BY DEF LoadItemElsewhere
<1>2. states[w] \in StateRow
  BY <1>1 DEF StoreInv, StoreTypeOK, StateRows
<1>3. items' \subseteq Item
  BY <1>1, <1>2 DEF ElsewhereTypeOK, Item
<1> QED
  BY <1>3 DEF LoadItemElsewhere, storeVars, StoreInv, StoreTypeOK

LEMMA AnswerElsewhereCorrect ==
    ASSUME StoreInv, ElsewhereTypeOK, AnswerElsewhere
    PROVE  StoreInv'
<1>1. PICK item \in items, rating \in GivenRatings :
        \E card \in PracticeResults(item.row.card, "scheduled", clock, rating) :
           Decide([op |-> "savePracticeResult",
                   event |-> AnswerEvent(nextEvent, item.word, item.row, card,
                                         "scheduled", clock, rating),
                   row |-> AnsweredRow(item.row, card, "scheduled", clock, rating)])
  BY DEF AnswerElsewhere
<1>2. PICK w, row : w = item.word /\ row = item.row
  OBVIOUS
<1>3. w \in WordIds /\ row \in StateRow /\ row.card \in Card /\ rating \in Ratings /\ clock \in Nat
      /\ nextEvent \in Nat /\ "scheduled" \in Kinds
  BY <1>1, <1>2, ElsewhereAssumption, ClockType
     DEF ElsewhereTypeOK, Item, StoreInv, StoreTypeOK, StateRow, Kinds
<1>4. PICK card \in PracticeResults(row.card, "scheduled", clock, rating) :
        Decide([op |-> "savePracticeResult",
                event |-> AnswerEvent(nextEvent, w, row, card, "scheduled", clock, rating),
                row |-> AnsweredRow(row, card, "scheduled", clock, rating)])
  BY <1>1, <1>2
<1>5. card \in Card
  BY <1>3, <1>4, SchedulersReturnCards
<1>6. AnswerEvent(nextEvent, w, row, card, "scheduled", clock, rating) \in PracticeEvent
  BY <1>3, <1>5, AnswerEventType
<1>7. AnsweredRow(row, card, "scheduled", clock, rating) \in StateRow
  BY <1>3, <1>5, AnsweredRowType
<1>8. PICK q \in Request : Decide(q)
  BY <1>4, <1>6, <1>7 DEF Request, SaveRequest
<1>9. usedIds' \subseteq WordIds /\ nextEvent' \in Nat
  BY <1>3 DEF AnswerElsewhere, StoreInv, StoreTypeOK
<1> QED
  BY <1>8, <1>9, DecisionCorrect

LEMMA RecalculateElsewhereCorrect ==
    ASSUME StoreInv, RecalculateElsewhere
    PROVE  StoreInv'
<1>1. PICK rows \in StateRows : Decide([op |-> "replaceMemoryStates", rows |-> rows])
  BY DEF RecalculateElsewhere
<1>2. [op |-> "replaceMemoryStates", rows |-> rows] \in Request
  BY DEF Request, ReplaceRequest
<1>3. usedIds' \subseteq WordIds /\ nextEvent' \in Nat
  BY DEF RecalculateElsewhere, StoreInv, StoreTypeOK
<1> QED
  BY <1>1, <1>2, <1>3, DecisionCorrect

LEMMA ChangeElsewhereCorrect ==
    ASSUME StoreInv, InsertElsewhere \/ UpdateElsewhere \/ DeleteElsewhere
    PROVE  StoreInv'
<1>1. usedIds' \subseteq WordIds /\ nextEvent' \in Nat
  BY DEF InsertElsewhere, UpdateElsewhere, DeleteElsewhere, StoreInv, StoreTypeOK
<1>2. CASE InsertElsewhere
  <2>1. PICK w \in WordIds, t \in Texts :
          Decide([op |-> "insertWords",
                  rows |-> [NoRows EXCEPT ![w] = [text |-> t, archived |-> FALSE,
                                                  examples |-> {}, createdAt |-> clock]]])
    BY <1>2 DEF InsertElsewhere
  <2>2. PICK row : row = [text |-> t, archived |-> FALSE, examples |-> {}, createdAt |-> clock]
    OBVIOUS
  <2>3. row \in WordRow
    BY <2>1, <2>2, ClockType DEF WordRow, StoreInv
  <2>4. [NoRows EXCEPT ![w] = row] \in WordRows
    BY <2>3 DEF NoRows, WordRows
  <2>5. [op |-> "insertWords", rows |-> [NoRows EXCEPT ![w] = row]] \in Request
    BY <2>4 DEF Request, InsertRequest
  <2> QED
    BY <1>1, <2>1, <2>2, <2>5, DecisionCorrect
<1>3. CASE UpdateElsewhere
  <2>1. PICK w \in WordIds, t \in Texts, archived \in BOOLEAN :
          /\ Exists(w)
          /\ Decide([op |-> "updateWords",
                     rows |-> [NoRows EXCEPT ![w] = [words[w] EXCEPT !.text = t,
                                                                     !.archived = archived]]])
    BY <1>3 DEF UpdateElsewhere
  <2>2. PICK row : row = [words[w] EXCEPT !.text = t, !.archived = archived]
    OBVIOUS
  <2>3. row \in WordRow
    <3>1. words[w] \in WordRow
      BY <2>1 DEF Exists, StoreInv, StoreTypeOK, WordRows
    <3> QED
      BY <2>1, <2>2, <3>1 DEF WordRow
  <2>4. [NoRows EXCEPT ![w] = row] \in WordRows
    BY <2>3 DEF NoRows, WordRows
  <2>5. [op |-> "updateWords", rows |-> [NoRows EXCEPT ![w] = row]] \in Request
    BY <2>4 DEF Request, UpdateRequest
  <2> QED
    BY <1>1, <2>1, <2>2, <2>5, DecisionCorrect
<1>4. CASE DeleteElsewhere
  <2>1. PICK w \in WordIds : Decide([op |-> "deleteWords", ids |-> {w}])
    BY <1>4 DEF DeleteElsewhere
  <2>2. [op |-> "deleteWords", ids |-> {w}] \in Request
    BY DEF Request, DeleteRequest
  <2> QED
    BY <1>1, <2>1, <2>2, DecisionCorrect
<1> QED
  BY <1>2, <1>3, <1>4

\* The request decides which of the batches a commit is.
LEMMA CommitCases ==
    ASSUME NEW q \in Request, Commit(q)
    PROVE  \/ q \in SaveRequest /\ SavePracticeResult(q.event, q.row)
           \/ q \in ReplaceRequest /\ ReplaceMemoryStates(q.rows)
           \/ q \in InsertRequest /\ InsertWords(q.rows)
           \/ q \in UpdateRequest /\ UpdateWords(q.rows)
           \/ q \in DeleteRequest /\ DeleteWords(q.ids)
BY DEF Commit, Request, SaveRequest, ReplaceRequest, InsertRequest, UpdateRequest, DeleteRequest

\* A batch leaves tables of the right type, and at most one event more.
LEMMA CommitType ==
    ASSUME StoreInv, NEW q \in Request, Commit(q)
    PROVE  TablesTypeOK' /\ IsFiniteSet(events')
<1>0. TablesTypeOK /\ IsFiniteSet(events) /\ nextEvent \in Nat
  BY DEF StoreInv, StoreTypeOK, TablesTypeOK
<1>1. CASE q \in SaveRequest /\ SavePracticeResult(q.event, q.row)
  <2>1. q.event \in PracticeEvent /\ q.row \in StateRow
    BY <1>1 DEF SaveRequest
  <2>2. IsFiniteSet(events')
    BY <1>0, <1>1, FS_AddElement DEF SavePracticeResult
  <2> QED
    BY <1>0, <1>1, <2>1, <2>2 DEF SavePracticeResult, TablesTypeOK, StateRows
<1>2. CASE q \in ReplaceRequest /\ ReplaceMemoryStates(q.rows)
  <2>1. q.rows \in StateRows
    BY <1>2 DEF ReplaceRequest
  <2> QED
    BY <1>0, <1>2, <2>1 DEF ReplaceMemoryStates, TablesTypeOK, StateRows, Overlay
<1>3. CASE q \in InsertRequest /\ InsertWords(q.rows)
  <2>1. q.rows \in WordRows
    BY <1>3 DEF InsertRequest
  <2>2. \A w \in WordIds : q.rows[w] # None => FreshRow(q.rows[w].createdAt) \in StateRow
    BY <2>1, FreshRowCorrect DEF WordRows, WordRow
  <2>3. words' \in WordRows
    BY <1>0, <1>3, <2>1 DEF InsertWords, TablesTypeOK, WordRows, Overlay
  <2>4. states' \in StateRows
    BY <1>0, <1>3, <2>2 DEF InsertWords, TablesTypeOK, StateRows
  <2>5. archivedFrom' \in [WordIds -> Nat]
    BY <1>0, <1>3 DEF InsertWords, Remember, TablesTypeOK
  <2> QED
    BY <1>0, <1>3, <2>3, <2>4, <2>5 DEF InsertWords, TablesTypeOK
<1>4. CASE q \in UpdateRequest /\ UpdateWords(q.rows)
  <2>1. q.rows \in WordRows
    BY <1>4 DEF UpdateRequest
  <2>2. words' \in WordRows
    BY <1>0, <1>4, <2>1 DEF UpdateWords, TablesTypeOK, WordRows, Overlay
  <2>3. archivedFrom' \in [WordIds -> Nat]
    BY <1>0, <1>4 DEF UpdateWords, Remember, TablesTypeOK
  <2> QED
    BY <1>0, <1>4, <2>2, <2>3 DEF UpdateWords, TablesTypeOK
<1>5. CASE q \in DeleteRequest /\ DeleteWords(q.ids)
  <2>1. q.ids \subseteq WordIds
    BY <1>5 DEF DeleteRequest
  <2>2. IsFiniteSet(events')
    BY <1>0, <1>5, FS_Subset DEF DeleteWords
  <2> QED
    BY <1>0, <1>5, <2>1, <2>2 DEF DeleteWords, TablesTypeOK, WordRows, StateRows
<1> QED
  BY <1>1, <1>2, <1>3, <1>4, <1>5, CommitCases

LEMMA CommitElsewhereCorrect ==
    ASSUME StoreInv, ElsewhereTypeOK, CommitElsewhere
    PROVE  StoreInv' /\ overwritten' \subseteq WordIds
<1>1. PICK q \in stray : /\ Commit(q) /\ stray' = stray \ {q}
                         /\ overwritten' = overwritten \cup Overwritten(q)
  BY DEF CommitElsewhere
<1>2. q \in Request
  BY DEF StoreInv, StoreTypeOK
<1>3. TablesTypeOK' /\ IsFiniteSet(events')
  BY <1>1, <1>2, CommitType
<1>4. overwritten' \subseteq WordIds
  BY <1>1 DEF Overwritten, ElsewhereTypeOK
<1>5. /\ stray' \subseteq Request /\ disturbances' \in 0 .. MaxDisturbances
      /\ usedIds' \subseteq WordIds /\ nextEvent' \in Nat /\ clock' \in 0 .. MaxClock
  BY <1>1 DEF CommitElsewhere, supplies, StoreInv, StoreTypeOK
<1> QED
  BY <1>3, <1>4, <1>5 DEF StoreInv, StoreTypeOK, TablesTypeOK

LEMMA ElsewhereCorrect ==
    ASSUME StoreInv, ElsewhereTypeOK, Elsewhere
    PROVE  StoreInv' /\ ElsewhereTypeOK' /\ clock' = clock
<1>1. clock' = clock
  BY DEF Elsewhere, LoadItemElsewhere, AnswerElsewhere, RecalculateElsewhere, InsertElsewhere,
         UpdateElsewhere, DeleteElsewhere, Decide, CommitElsewhere, storeVars, supplies
<1>2. elsewhere' \in 0 .. MaxElsewhere
  BY ElsewhereAssumption DEF Elsewhere, CommitElsewhere, ElsewhereTypeOK
<1>3. CASE LoadItemElsewhere
  <2>1. overwritten' = overwritten
    BY <1>3 DEF LoadItemElsewhere
  <2> QED
    BY <1>1, <1>2, <1>3, <2>1, LoadItemCorrect DEF ElsewhereTypeOK
<1>4. CASE \/ AnswerElsewhere \/ RecalculateElsewhere
           \/ InsertElsewhere \/ UpdateElsewhere \/ DeleteElsewhere
  <2>1. items' = items /\ overwritten' = overwritten
    BY <1>4 DEF AnswerElsewhere, RecalculateElsewhere, InsertElsewhere,
                UpdateElsewhere, DeleteElsewhere, Decide
  <2>2. StoreInv'
    BY <1>4, AnswerElsewhereCorrect, RecalculateElsewhereCorrect, ChangeElsewhereCorrect
  <2> QED
    BY <1>1, <1>2, <2>1, <2>2 DEF ElsewhereTypeOK
<1>5. CASE CommitElsewhere
  <2>1. items' = items
    BY <1>5 DEF CommitElsewhere
  <2> QED
    BY <1>1, <1>2, <1>5, <2>1, CommitElsewhereCorrect DEF ElsewhereTypeOK
<1> QED
  BY <1>3, <1>4, <1>5 DEF Elsewhere

\* What else happens to the store: time passes, a call fails, nothing.
LEMMA StoreRests ==
    ASSUME StoreInv,
           \/ Tick
           \/ Disturb /\ UNCHANGED <<tables, supplies, stray>>
           \/ UNCHANGED storeVars
    PROVE  StoreInv'
<1>1. CASE Tick
  BY <1>1, BoundsAssumption DEF Tick, tables, channel, StoreInv, StoreTypeOK
<1>2. CASE Disturb /\ UNCHANGED <<tables, supplies, stray>>
  BY <1>2, BoundsAssumption DEF Disturb, tables, supplies, StoreInv, StoreTypeOK
<1>3. CASE UNCHANGED storeVars
  BY <1>3 DEF storeVars, StoreInv, StoreTypeOK
<1> QED
  BY <1>1, <1>2, <1>3

-------------------------------------------------------------------------------
(***************************************************************************)
(* The whole page.                                                         *)
(***************************************************************************)
LEMMA HistoryInvParts ==
    HistoryInv <=> /\ StoreInv /\ MachineInv /\ SessionTypeOK /\ SessionInv
                   /\ ElsewhereTypeOK
BY DEF HistoryInv, TypeOK, ElsewhereTypeOK, PageInv, Finite, StoreInv, MachineInv

LEMMA HistoryInvInitially == Init => HistoryInv
<1> SUFFICES ASSUME Init PROVE HistoryInv
  OBVIOUS
<1>1. StoreInv
  <2>1. words \in WordRows
    <3> DEFINE unpractised == [text: Texts, archived: {FALSE}, examples: {{}}, createdAt: {0}]
    <3>1. unpractised \subseteq WordRow
      <4>1. \A sets : {{}} \subseteq SUBSET sets
        OBVIOUS
      <4>2. {FALSE} \subseteq BOOLEAN /\ {0} \subseteq Nat
        OBVIOUS
      <4> QED
        BY <4>1, <4>2, Zenon DEF WordRow
    <3>2. words \in [WordIds -> {None} \cup unpractised]
      BY DEF Init, StoreInit
    <3> HIDE DEF unpractised
    <3> QED
      BY <3>1, <3>2 DEF WordRows
  <2>2. states \in StateRows
    BY FreshRowCorrect DEF Init, StoreInit, StateRows
  <2> QED
    BY <2>1, <2>2, BoundsAssumption, FS_EmptySet DEF Init, StoreInit, StoreInv, StoreTypeOK
<1>2. MachineInv
  <2>1. NoWords \in [WordIds -> Texts \cup {None}] /\ NoWords \in [WordIds -> Summary \cup {None}]
    BY DEF NoWords
  <2>2. history = ClosedHistory /\ flights = {}
    BY DEF Init, HistoryInit
  <2>3. history \in History
    BY <2>1, <2>2, HistoryAssumption DEF ClosedHistory, History
  <2>4. history.attempts = {} /\ history.events = {} /\ history.state = "Closed"
        /\ history.step = None
    BY <2>2 DEF ClosedHistory
  <2>5. IsFiniteSet(events)
    BY <1>1 DEF StoreInv
  <2> QED
    BY <2>2, <2>3, <2>4, <2>5, FS_EmptySet
       DEF MachineInv, HistoryTypeOK, PageInv, Finite, OneAwaited, StepWhileLoading,
           FilterIsCurrent, AttemptsBelong
<1>3. SessionTypeOK
  BY SecretsAssumption, PathsAreNotLogout, AtType DEF Init, SessionInit, SessionTypeOK, Screen
<1>4. SessionInv
  <2>1. jar = Nothing /\ asking = Nothing /\ screen.kind = "blank" /\ hops = 0 /\ deployed = 0
    BY DEF Init, SessionInit
  <2> QED
    BY <1>3, <2>1, LoginsOnTheWayType
       DEF SessionInv, CookieIsSignature, OnTheWay, PasswordsToLogin, RedirectsRunOut
<1>5. ElsewhereTypeOK
  BY ElsewhereAssumption DEF Init, ElsewhereTypeOK
<1> QED
  BY <1>1, <1>2, <1>3, <1>4, <1>5, HistoryInvParts

LEMMA HistoryInvPreserved == HistoryInv /\ [Next]_vars => HistoryInv'
<1> SUFFICES ASSUME HistoryInv, [Next]_vars PROVE HistoryInv'
  OBVIOUS
<1>0. /\ StoreInv /\ MachineInv /\ SessionTypeOK /\ SessionInv
      /\ ElsewhereTypeOK /\ clock \in Nat
      /\ events \subseteq PracticeEvent /\ IsFiniteSet(events)
      /\ words \in WordRows /\ states \in StateRows
  BY HistoryInvParts, ClockType DEF StoreInv, StoreTypeOK
<1>1. (StoreInv /\ MachineInv /\ SessionTypeOK /\ SessionInv)'
  <2>1. CASE PageActs
    <3>1. UNCHANGED storeVars /\ UNCHANGED sessionVars /\ events' = events /\ clock' = clock
      BY <2>1 DEF PageActs, storeVars
    <3>2. MachineInv'
      <4>1. CASE OpenHistory \/ RefreshHistory
        BY <1>0, <3>1, <4>1, StartLoadingCorrect DEF OpenHistory, RefreshHistory
      <4>2. CASE ChangeQuery
        BY <1>0, <3>1, <4>2, ChangeQueryCorrect
      <4>3. CASE LoadMore
        BY <1>0, <3>1, <4>3, LoadMoreCorrect
      <4>4. CASE SelectWord
        BY <1>0, <3>1, <4>4, SelectWordCorrect
      <4>5. CASE CloseWord
        BY <1>0, <3>1, <4>5, CloseWordCorrect
      <4> QED
        BY <2>1, <4>1, <4>2, <4>3, <4>4, <4>5 DEF PageActs
    <3> QED
      BY <1>0, <3>1, <3>2, StoreRests, OthersTyped, SessionRests
  <2>2. CASE Answered \/ Refused
    <3>1. UNCHANGED storeVars /\ UNCHANGED sessionVars /\ events' = events /\ clock' = clock
      BY <2>2 DEF Answered, Refused, storeVars
    <3>2. MachineInv'
      <4>1. CASE ReadHistoryEvents
        BY <1>0, <3>1, <4>1, ReadEventsCorrect
      <4>2. CASE ReadHistoryWords
        BY <1>0, <3>1, <4>2, ReadWordsCorrect
      <4>3. CASE HistoryLoaded
        BY <1>0, <3>1, <4>3, LoadedCorrect
      <4>4. ASSUME NEW f \in flights,
                   FoundWord(f) \/ AttemptsLoaded(f) \/ WordNotFound(f) \/ AttemptsNotLoaded(f)
            PROVE  MachineInv'
        BY <1>0, <3>1, <4>4, FoundWordCorrect, AttemptsLoadedCorrect, AttemptsNotLoadedCorrect
           DEF WordNotFound
      <4>5. CASE HistoryNotLoaded
        BY <1>0, <3>1, <4>5, NotLoadedCorrect
      <4> QED
        BY <2>2, <4>1, <4>2, <4>3, <4>4, <4>5 DEF Answered, Refused, Failed
    <3> QED
      BY <1>0, <3>1, <3>2, StoreRests, OthersTyped, SessionRests
  <2>3. CASE CallLost
    <3>1. UNCHANGED sessionVars /\ events' = events /\ clock' = clock
          /\ Disturb /\ UNCHANGED <<tables, supplies, stray>>
      BY <2>3 DEF CallLost, tables, supplies
    <3>2. MachineInv'
      BY <1>0, <2>3, <3>1, NotLoadedCorrect, AttemptsNotLoadedCorrect DEF CallLost, Failed
    <3> QED
      BY <1>0, <3>1, <3>2, StoreRests, OthersTyped, SessionRests
  <2>4. CASE BrowserActs
    <3>1. UNCHANGED storeVars /\ events' = events /\ clock' = clock
      BY <2>4 DEF BrowserActs, storeVars
    <3>2. SessionTypeOK' /\ SessionInv'
      BY <1>0, <2>4, <3>1, VisitTyped, SubmitTyped, NavigateTyped,
         AskKeepsSession, SubmitKeepsSession, NavigateKeepsSession DEF BrowserActs
    <3>3. MachineInv'
      BY <1>0, <2>4, <3>1, MachineRests, ClosedCorrect DEF BrowserActs
    <3> QED
      BY <1>0, <3>1, <3>2, <3>3, StoreRests
  <2>5. CASE ServerAnswers
    <3>1. UNCHANGED storeVars /\ events' = events /\ clock' = clock /\ Serve(clock)
      BY <2>5 DEF ServerAnswers, storeVars
    <3>2. SessionTypeOK' /\ SessionInv'
      BY <1>0, <3>1, ServeTyped, ServeKeepsSession DEF SessionInv
    <3>3. MachineInv'
      BY <1>0, <2>5, <3>1, MachineRests, ClosedCorrect DEF ServerAnswers
    <3> QED
      BY <1>0, <3>1, <3>2, <3>3, StoreRests
  <2>6. CASE TimePasses
    <3>1. Tick /\ CookieAges(clock') /\ clock' = clock + 1 /\ events' = events
      BY <2>6 DEF TimePasses, Tick, tables
    <3>2. SessionTypeOK' /\ SessionInv'
      BY <1>0, <3>1, OthersTyped, AgingKeepsSession
    <3>3. MachineInv'
      BY <1>0, <2>6, <3>1, MachineRests DEF TimePasses
    <3> QED
      BY <1>0, <3>1, <3>2, <3>3, StoreRests
  <2>7. CASE Deploys
    <3>1. UNCHANGED storeVars /\ events' = events /\ clock' = clock /\ Redeploy
      BY <2>7 DEF Deploys, storeVars
    <3>2. SessionTypeOK' /\ SessionInv'
      BY <1>0, <3>1, OthersTyped, RedeployKeepsSession
    <3>3. MachineInv'
      BY <1>0, <2>7, <3>1, MachineRests DEF Deploys, historyVars
    <3> QED
      BY <1>0, <3>1, <3>2, <3>3, StoreRests
  <2>8. CASE Elsewhere
    <3>1. UNCHANGED <<historyVars, sessionVars>>
      BY <2>8 DEF Elsewhere
    <3>2. StoreInv' /\ clock' = clock
      BY <1>0, <2>8, ElsewhereCorrect
    <3>3. MachineInv'
      BY <1>0, <3>1, <3>2, MachineRests DEF StoreInv
    <3> QED
      BY <1>0, <3>1, <3>2, <3>3, OthersTyped, SessionRests
  <2>9. CASE UNCHANGED vars
    <3>1. UNCHANGED storeVars /\ UNCHANGED historyVars /\ UNCHANGED sessionVars
          /\ events' = events /\ clock' = clock
      BY <2>9 DEF vars, storeVars
    <3> QED
      BY <1>0, <3>1, StoreRests, OthersTyped, SessionRests, MachineRests
  <2> QED
    BY <2>1, <2>2, <2>3, <2>4, <2>5, <2>6, <2>7, <2>8, <2>9 DEF Next
<1>2. ElsewhereTypeOK'
  <2>1. CASE Elsewhere
    BY <1>0, <2>1, ElsewhereCorrect
  <2>2. CASE UNCHANGED elsewhereVars
    BY <1>0, <2>2 DEF elsewhereVars, ElsewhereTypeOK
  <2> QED
    BY <2>1, <2>2 DEF Next, vars, elsewhereVars
<1> QED
  BY <1>1, <1>2 DEF HistoryInv, TypeOK, ElsewhereTypeOK, PageInv, Finite, StoreInv, MachineInv

\* The inductive invariant of word-practice-history-machine.ts and auth.ts together:
\* session, redirects, and what the page has read so far.
THEOREM HistoryInvariant == Spec => []HistoryInv
<1>1. Init => HistoryInv
  BY HistoryInvInitially
<1>2. HistoryInv /\ [Next]_vars => HistoryInv'
  BY HistoryInvPreserved
<1> QED
  BY <1>1, <1>2, PTL DEF Spec

\* A browser and a history page never leave their types: what word-practice-history-
\* machine.ts and auth.ts keep is what they say it is.
THEOREM HistoryTypeCorrect == Spec => []TypeOK
<1>1. HistoryInv => TypeOK
  BY DEF HistoryInv
<1> QED
  BY <1>1, HistoryInvariant, PTL

\* Signing in leads to the page that was asked for, through every wrong password
\* and redirect of authenticateRequest.
THEOREM AlwaysBackWhereAsked == Spec => []BackWhereAsked
<1>1. HistoryInv => BackWhereAsked
  BY DEF HistoryInv, SessionInv, OnTheWay, BackWhereAsked
<1> QED
  BY <1>1, HistoryInvariant, PTL

\* The redirects of authenticateRequest come to an end: one may follow for every login
\* page in what the learner asks for, one more, and one for every change of secret.
THEOREM RedirectsAlwaysEnd == Spec => []RedirectsEnd
<1>1. HistoryInv => RedirectsEnd
  BY DEF HistoryInv, SessionInv, RedirectsRunOut, RedirectsEnd
<1> QED
  BY <1>1, HistoryInvariant, PTL

\* The list of summaries is the one the search field asks for (matchingSummaries).
THEOREM FilterAlwaysCurrent == Spec => []FilterIsCurrent
<1>1. HistoryInv => FilterIsCurrent
  BY DEF HistoryInv, PageInv
<1> QED
  BY <1>1, HistoryInvariant, PTL

\* The attempts shown belong to the word that is open, although loads of words
\* closed since go on (loadWordAttempts).
THEOREM AttemptsAlwaysBelong == Spec => []AttemptsBelong
<1>1. HistoryInv => AttemptsBelong
  BY DEF HistoryInv, PageInv
<1> QED
  BY <1>1, HistoryInvariant, PTL

\* An answer to a load opens no word (the machine ignores what stopped actors return).
THEOREM WordsOpenedByLearner == Spec => OpenedByLearner
<1>1. HistoryInv /\ [Next]_vars => [Answered => history'.selected \in {history.selected, None}]_vars
  <2> SUFFICES ASSUME HistoryInv, Answered
               PROVE  history'.selected \in {history.selected, None}
    OBVIOUS
  <2>1. /\ MachineInv /\ clock \in Nat /\ events \subseteq PracticeEvent
        /\ words \in WordRows /\ states \in StateRows /\ history \in History
        /\ events' = events
    BY HistoryInvParts, ClockType DEF StoreInv, StoreTypeOK, MachineInv, HistoryTypeOK, Answered, storeVars
  <2>2. CASE ReadHistoryEvents
    BY <2>1, <2>2 DEF ReadHistoryEvents, Becomes, History
  <2>3. CASE ReadHistoryWords
    BY <2>1, <2>3 DEF ReadHistoryWords, Becomes, History
  <2>4. CASE HistoryLoaded
    BY <2>1, <2>4, LoadedCorrect
  <2>5. ASSUME NEW f \in flights, FoundWord(f) \/ AttemptsLoaded(f) \/ WordNotFound(f)
        PROVE  history'.selected = history.selected
    BY <2>1, <2>5, AttemptsLoadedCorrect, AttemptsNotLoadedCorrect DEF FoundWord, WordNotFound
  <2> QED
    BY <2>2, <2>3, <2>4, <2>5 DEF Answered
<1> QED
  BY <1>1, HistoryInvariant, PTL DEF Spec, OpenedByLearner

\* validSession: what is shown or answered goes to a browser that signed in with the
\* secret of now, less than a session ago.
LEMMA ValidSessionIsRecent ==
    ASSUME SessionTypeOK, CookieIsSignature, clock \in Nat, Authenticated(clock)
    PROVE  SignedInNow
<1>1. /\ jar # Nothing /\ jar.expiresAt > Second(clock) /\ jar.secret = secret
      /\ signedIn # Nothing /\ jar.secret = signedIn.secret
      /\ jar.expiresAt = Second(signedIn.at) + SessionSeconds
  BY DEF Authenticated, CookieIsSignature
<1>2. Second(clock) \in Nat /\ Second(signedIn.at) \in Nat /\ SessionSeconds \in Nat
  BY <1>1, SecondType, SecondsAssumption DEF SessionTypeOK
<1>3. Second(clock) - Second(signedIn.at) < SessionSeconds
  BY <1>1, <1>2
<1> QED
  BY <1>1, <1>3 DEF SignedInNow

\* Calls are answered, and pages of the application served, only to a browser that
\* signed in less than a session ago and under the present secret (authenticateRequest
\* verifies signature and expiry on every request).
THEOREM OnlyEverWhileSignedIn == Spec => OnlyWhileSignedIn
<1>1. HistoryInv /\ [Next]_vars =>
        [Answered \/ (ServerAnswers /\ screen'.kind = "app" /\ asking' = Nothing)
            => SignedInNow]_vars
  <2> SUFFICES ASSUME HistoryInv,
                      Answered \/ (ServerAnswers /\ screen'.kind = "app" /\ asking' = Nothing)
               PROVE  SignedInNow
    OBVIOUS
  <2>1. SessionTypeOK /\ CookieIsSignature /\ PasswordsToLogin /\ clock \in Nat
    BY HistoryInvParts, ClockType DEF StoreInv, SessionInv
  <2>2. CASE Answered
    BY <2>1, <2>2, ValidSessionIsRecent DEF Answered, CallAllowed
  <2>3. CASE ServerAnswers /\ screen'.kind = "app" /\ asking' = Nothing
    <3>1. /\ Serve(clock) /\ asking' = Nothing /\ screen'.kind = "app"
          /\ \A location \in Location : ~Redirect(Get(location))
      BY <2>3, GetType DEF ServerAnswers, Redirect
    <3>2. ASSUME asking # Nothing
          PROVE  /\ ~Redirect(Get(LoginPage(asking.at)))
                 /\ (asking.at.logins > 0 \/ asking.password # Nothing) =>
                      /\ ~Redirect(Get(NextOf(asking.at)))
                      /\ ~Redirect(Get(LoginPage(NextOf(asking.at))))
      <4>1. /\ asking.at \in Location /\ LoginPage(asking.at) \in Location
            /\ (asking.at.logins > 0 \/ asking.password # Nothing) =>
                 NextOf(asking.at) \in Location /\ LoginPage(NextOf(asking.at)) = asking.at
        BY <2>1, <3>2, RequestType, LocationType DEF PasswordsToLogin
      <4> QED
        BY <3>1, <4>1
    <3>3. ~ServeUnconfigured
      BY <3>1 DEF ServeUnconfigured, Show
    <3>4. ~ServeLogout
      BY <3>1, PathsAreNotLogout, AtType, LocationType DEF ServeLogout
    <3>5. ~ServeLoginPage(clock)
      BY <3>1, <3>2 DEF ServeLoginPage, Show
    <3>6. ~ServeWrongPassword /\ ~ServeRightPassword(clock)
      BY <3>1, <3>2, NothingAssumption DEF ServeWrongPassword, ServeRightPassword
    <3>7. ServeApplication(clock) => Authenticated(clock)
      BY <3>1, <3>2 DEF ServeApplication
    <3> QED
      BY <2>1, <3>1, <3>3, <3>4, <3>5, <3>6, <3>7, ValidSessionIsRecent DEF Serve
  <2> QED
    BY <2>2, <2>3
<1> QED
  BY <1>1, HistoryInvariant, PTL DEF Spec, OnlyWhileSignedIn

-------------------------------------------------------------------------------
(***************************************************************************)
(* Sums over the words.  What the sum adds up is a function recursive over *)
(* sets: that there is one is proved by counting as many units for every   *)
(* element.                                                                *)
(***************************************************************************)
AddsUp(g, S, sum) ==
    sum = [s \in SUBSET S |->
              IF s = {} THEN 0
              ELSE LET w == CHOOSE x \in s : TRUE IN g[w] + sum[s \ {w}]]

LEMMA SumExists ==
    ASSUME NEW S, IsFiniteSet(S), NEW g \in [S -> Nat]
    PROVE  \E sum : AddsUp(g, S, sum)
<1> DEFINE Units(s) == {u \in S \X Nat : u[1] \in s /\ u[2] \in 1 .. g[u[1]]}
           Mine(w) == {w} \X (1 .. g[w])
           T == {n \in Nat : \A s \in SUBSET S : Cardinality(s) = n => IsFiniteSet(Units(s))}
<1>1. ASSUME NEW s \in SUBSET S, NEW w \in s
      PROVE  Units(s) = Units(s \ {w}) \cup Mine(w) /\ Units(s \ {w}) \cap Mine(w) = {}
  <2>1. Units(s \ {w}) \subseteq Units(s) /\ Units(s \ {w}) \cap Mine(w) = {}
    OBVIOUS
  <2>2. Mine(w) \subseteq Units(s)
    <3>1. w \in S /\ g[w] \in Nat /\ 1 .. g[w] \subseteq Nat
      OBVIOUS
    <3> QED
      BY <3>1
  <2>3. \A u \in Units(s) : u \in Units(s \ {w}) \cup Mine(w)
    OBVIOUS
  <2> QED
    BY <2>1, <2>2, <2>3
<1>2. \A w \in S : IsFiniteSet(Mine(w)) /\ Cardinality(Mine(w)) = g[w]
  <2> TAKE w \in S
  <2>1. g[w] \in Nat /\ IsFiniteSet({w}) /\ Cardinality({w}) = 1
    BY FS_Singleton
  <2>2. IsFiniteSet(1 .. g[w]) /\ Cardinality(1 .. g[w]) = g[w]
    BY <2>1, FS_Interval
  <2>3. /\ IsFiniteSet({w} \X (1 .. g[w]))
        /\ Cardinality({w} \X (1 .. g[w])) = Cardinality({w}) * Cardinality(1 .. g[w])
    BY <2>1, <2>2, FS_Product
  <2>4. 1 * g[w] = g[w]
    BY <2>1
  <2> QED
    BY <2>1, <2>2, <2>3, <2>4
<1>3. Units({}) = {}
  OBVIOUS
<1> HIDE DEF Units, Mine
<1>4. 0 \in T
  <2>1. \A s \in SUBSET S : Cardinality(s) = 0 => s = {}
    BY FS_Subset, FS_EmptySet
  <2> QED
    BY <1>3, <2>1, FS_EmptySet
<1>5. ASSUME NEW n \in Nat, n \in T PROVE n + 1 \in T
  <2>1. ASSUME NEW s \in SUBSET S, Cardinality(s) = n + 1 PROVE IsFiniteSet(Units(s))
    <3>1. PICK w \in s : TRUE
      BY <2>1, FS_EmptySet
    <3>2. s \ {w} \in SUBSET S /\ Cardinality(s \ {w}) = n
      BY <2>1, <3>1, OneLess
    <3>3. IsFiniteSet(Units(s \ {w})) /\ IsFiniteSet(Mine(w))
      BY <1>2, <1>5, <3>2
    <3>4. Units(s) = Units(s \ {w}) \cup Mine(w)
      BY <1>1
    <3> QED
      BY <3>3, <3>4, FS_Union
  <2> QED
    BY <2>1
<1>6. \A s \in SUBSET S : IsFiniteSet(Units(s)) /\ Cardinality(Units(s)) \in Nat
  <2>1. Nat \subseteq T
    <3> HIDE DEF T
    <3> QED
      BY <1>4, <1>5, SetInduction
  <2>2. \A s \in SUBSET S : Cardinality(s) \in T
    BY <2>1, FS_Subset, FS_CardinalityType
  <2>3. \A s \in SUBSET S : IsFiniteSet(Units(s))
    BY <2>2
  <2> QED
    BY <2>3, FS_CardinalityType
<1> DEFINE sum == [s \in SUBSET S |-> Cardinality(Units(s))]
<1>7. ASSUME NEW s \in SUBSET S, NEW w \in s PROVE sum[s] = g[w] + sum[s \ {w}]
  <2>1. s \ {w} \in SUBSET S /\ w \in S
    OBVIOUS
  <2>2. Cardinality(Units(s)) =
          Cardinality(Units(s \ {w})) + Cardinality(Mine(w)) - Cardinality({})
    BY <1>1, <1>2, <1>6, <2>1, FS_Union
  <2>3. Cardinality(Units(s)) = g[w] + Cardinality(Units(s \ {w}))
    BY <1>2, <1>6, <2>1, <2>2, FS_EmptySet
  <2> QED
    BY <2>1, <2>3
<1>8. sum[{}] = 0
  BY <1>3, FS_EmptySet
<1>9. sum = [s \in SUBSET S |-> sum[s]]
  OBVIOUS
<1> HIDE DEF sum
<1>10. \A s \in SUBSET S :
         sum[s] = IF s = {} THEN 0 ELSE LET w == CHOOSE x \in s : TRUE IN g[w] + sum[s \ {w}]
  <2> TAKE s \in SUBSET S
  <2>1. s # {} => (CHOOSE x \in s : TRUE) \in s
    OBVIOUS
  <2> QED
    BY <1>7, <1>8, <2>1
<1> QED
  BY <1>9, <1>10 DEF AddsUp

Of(es, w) == {e \in es : e.word = w}

\* Events are as many as a sum over their words, if those of each word are as many.
LEMMA SumCovers ==
    ASSUME NEW S, IsFiniteSet(S), NEW g \in [S -> Nat], NEW sum, AddsUp(g, S, sum),
           NEW es, IsFiniteSet(es), \A e \in es : e.word \in S,
           \A w \in S : Cardinality(Of(es, w)) <= g[w]
    PROVE  Cardinality(es) <= sum[S]
<1> DEFINE OfAll(s) == {e \in es : e.word \in s}
           T == {n \in Nat : \A s \in SUBSET S :
                    Cardinality(s) = n => sum[s] \in Nat /\ Cardinality(OfAll(s)) <= sum[s]}
<1>1. \A s \in SUBSET S : sum[s] = IF s = {} THEN 0 ELSE LET w == CHOOSE x \in s : TRUE
                                                         IN  g[w] + sum[s \ {w}]
  BY DEF AddsUp
<1>2. ASSUME NEW s, NEW w \in s
      PROVE  OfAll(s) = OfAll(s \ {w}) \cup Of(es, w) /\ OfAll(s \ {w}) \cap Of(es, w) = {}
  BY DEF Of
<1>3. /\ \A s : IsFiniteSet(OfAll(s)) /\ Cardinality(OfAll(s)) \in Nat
      /\ \A w : IsFiniteSet(Of(es, w)) /\ Cardinality(Of(es, w)) \in Nat
  <2>1. \A s : OfAll(s) \in SUBSET es
    OBVIOUS
  <2>2. \A w : Of(es, w) \in SUBSET es
    BY DEF Of
  <2> HIDE DEF OfAll
  <2> QED
    BY <2>1, <2>2, FS_Subset, FS_CardinalityType
<1>4. OfAll({}) = {} /\ OfAll(S) = es
  OBVIOUS
<1> HIDE DEF OfAll
<1>5. 0 \in T
  <2>1. \A s \in SUBSET S : Cardinality(s) = 0 => s = {}
    BY FS_Subset, FS_EmptySet
  <2>2. sum[{}] = 0
    BY <1>1
  <2> QED
    BY <1>4, <2>1, <2>2, FS_EmptySet
<1>6. ASSUME NEW n \in Nat, n \in T PROVE n + 1 \in T
  <2>1. ASSUME NEW s \in SUBSET S, Cardinality(s) = n + 1
        PROVE  sum[s] \in Nat /\ Cardinality(OfAll(s)) <= sum[s]
    <3>1. s # {}
      BY <2>1, FS_EmptySet
    <3>2. PICK w \in s : sum[s] = g[w] + sum[s \ {w}]
      BY <1>1, <3>1
    <3>3. s \ {w} \in SUBSET S /\ Cardinality(s \ {w}) = n
      <4>1. s \ {w} \in SUBSET S /\ Cardinality(s \ {w}) = Cardinality(s) - 1
        BY OneLess
      <4> QED
        BY <2>1, <4>1
    <3>4. sum[s \ {w}] \in Nat /\ Cardinality(OfAll(s \ {w})) <= sum[s \ {w}]
      BY <1>6, <3>3
    <3>5. Cardinality(OfAll(s)) =
            Cardinality(OfAll(s \ {w})) + Cardinality(Of(es, w)) - Cardinality({})
      BY <1>2, <1>3, FS_Union
    <3>6. Cardinality(OfAll(s)) = Cardinality(OfAll(s \ {w})) + Cardinality(Of(es, w))
      BY <1>3, <3>5, FS_EmptySet
    <3>7. g[w] \in Nat /\ Cardinality(Of(es, w)) <= g[w]
      OBVIOUS
    <3> QED
      BY <1>3, <3>2, <3>4, <3>6, <3>7
  <2> QED
    BY <2>1
<1>7. Nat \subseteq T
  <2> HIDE DEF T
  <2> QED
    BY <1>5, <1>6, SetInduction
<1>8. Cardinality(S) \in T /\ S \in SUBSET S
  BY <1>7, FS_CardinalityType
<1>9. Cardinality(OfAll(S)) <= sum[S]
  BY <1>8
<1> QED
  BY <1>4, <1>9
-------------------------------------------------------------------------------
(***************************************************************************)
(* What the store counts.  Memory rows and events go with their words; a   *)
(* word that is not explained counts at least the attempts the store has   *)
(* events of; an event the page has read stays until its word is deleted.  *)
(***************************************************************************)
Counted(w) == IF states[w] = None THEN 0 ELSE states[w].attempts

KeysHold ==
    /\ \A w \in WordIds : states[w] # None => Exists(w)
    /\ \A e \in events : Exists(e.word)

CoverInv ==
    /\ KeysHold
    /\ \A w \in WordIds : Explained(w) \/ Cardinality(Of(events, w)) <= Counted(w)
    /\ \A e \in history.events : e.word \in deleted \/ e \in events

LEMMA CountedType == states \in StateRows => \A w \in WordIds : Counted(w) \in Nat
BY DEF StateRows, StateRow, Counted

LEMMA CoverInvInitially == Init => CoverInv
<1> SUFFICES ASSUME Init PROVE CoverInv
  OBVIOUS
<1>1. events = {} /\ history.events = {} /\ \A w \in WordIds : states[w] # None => Exists(w)
  BY DEF Init, StoreInit, HistoryInit, ClosedHistory, Exists
<1>2. \A w \in WordIds : Counted(w) \in Nat
  BY HistoryInvInitially, CountedType DEF HistoryInv, TypeOK, StoreTypeOK
<1>3. \A w : Of(events, w) = {}
  BY <1>1 DEF Of
<1> QED
  BY <1>1, <1>2, <1>3, FS_EmptySet DEF CoverInv, KeysHold

\* Whatever reads the store keeps it.
LEMMA ReadsKeepCover ==
    ASSUME CoverInv, UNCHANGED <<words, states, events, deleted, overwritten>>,
           history'.events \in {history.events, events, {}}
    PROVE  CoverInv'
<1>1. \A w : (Exists(w)' <=> Exists(w)) /\ (Explained(w)' <=> Explained(w))
  BY DEF Exists, Explained
<1>2. \A w \in WordIds : Counted(w)' = Counted(w)
  BY DEF Counted
<1>3. \A e \in history'.events : e.word \in deleted' \/ e \in events'
  BY DEF CoverInv
<1> QED
  BY <1>1, <1>2, <1>3 DEF CoverInv, KeysHold, Of

\* No batch leaves a memory row or an event without its word.
LEMMA CommitKeepsKeys ==
    ASSUME TablesTypeOK, KeysHold, NEW q \in Request, Commit(q)
    PROVE  KeysHold'
<1> USE DEF KeysHold, Exists
<1>0. \A e \in events : e.word \in WordIds
  BY DEF TablesTypeOK, PracticeEvent
<1>1. CASE q \in SaveRequest /\ SavePracticeResult(q.event, q.row)
  BY <1>1 DEF SavePracticeResult, TablesTypeOK, StateRows
<1>2. CASE q \in ReplaceRequest /\ ReplaceMemoryStates(q.rows)
  BY <1>2 DEF ReplaceMemoryStates, Overlay, Given
<1>3. CASE q \in InsertRequest /\ InsertWords(q.rows)
  BY <1>0, <1>3 DEF InsertWords, Overlay
<1>4. CASE q \in UpdateRequest /\ UpdateWords(q.rows)
  BY <1>0, <1>4 DEF UpdateWords, Overlay
<1>5. CASE q \in DeleteRequest /\ DeleteWords(q.ids)
  BY <1>0, <1>5 DEF DeleteWords
<1> QED
  BY <1>1, <1>2, <1>3, <1>4, <1>5, CommitCases

\* Events go only when their word is deleted.
LEMMA CommitKeepsRead ==
    ASSUME TablesTypeOK, KeysHold, NEW q \in Request, Commit(q)
    PROVE  deleted \subseteq deleted' /\ \A e \in events : e.word \in deleted' \/ e \in events'
<1>1. CASE q \in DeleteRequest /\ DeleteWords(q.ids)
  BY <1>1 DEF DeleteWords, KeysHold
<1>2. CASE ~(q \in DeleteRequest /\ DeleteWords(q.ids))
  BY <1>2, CommitCases DEF SavePracticeResult, ReplaceMemoryStates, InsertWords, UpdateWords
<1> QED
  BY <1>1, <1>2

\* A batch adds an event of a word together with a row that counts it, or explains it.
LEMMA CommitKeepsCount ==
    ASSUME StoreInv, KeysHold, NEW q \in Request, Commit(q), NEW w \in WordIds,
           w \notin Overwritten(q), w \notin deleted',
           Cardinality(Of(events, w)) <= Counted(w)
    PROVE  Cardinality(Of(events', w)) <= Counted(w)'
<1>0. states \in StateRows /\ TablesTypeOK' /\ TablesTypeOK
  BY CommitType DEF StoreInv, StoreTypeOK, TablesTypeOK
<1>1. Counted(w) \in Nat /\ Counted(w)' \in Nat
  BY <1>0 DEF TablesTypeOK, StateRows, StateRow, Counted
<1>2. ASSUME Of(events', w) = {} PROVE Cardinality(Of(events', w)) <= Counted(w)'
  BY <1>1, <1>2, FS_EmptySet
<1>3. ASSUME ~Exists(w) PROVE Of(events, w) = {}
  BY <1>3 DEF KeysHold, Of
<1>4. ASSUME Of(events', w) = Of(events, w), Counted(w)' = Counted(w)
      PROVE  Cardinality(Of(events', w)) <= Counted(w)'
  BY <1>4
<1>5. CASE q \in SaveRequest /\ SavePracticeResult(q.event, q.row)
  <2>1. /\ q.op = "savePracticeResult" /\ q.row \in StateRow /\ q.row # None
        /\ events' = events \cup {q.event}
        /\ states' = [states EXCEPT ![q.event.word] = q.row]
    BY <1>5, AbsenceAssumption DEF SaveRequest, SavePracticeResult
  <2>2. CASE q.event.word # w
    <3>1. Of(events', w) = Of(events, w)
      BY <2>1, <2>2 DEF Of
    <3>2. states'[w] = states[w]
      BY <1>0, <2>1, <2>2 DEF StateRows
    <3> QED
      BY <1>4, <3>1, <3>2 DEF Counted
  <2>3. CASE q.event.word = w
    <3>1. states[w] # None /\ q.row.attempts = states[w].attempts + 1
      BY <2>1, <2>3 DEF Overwritten
    <3>2. Counted(w)' = Counted(w) + 1
      BY <1>0, <2>1, <2>3, <3>1 DEF Counted, StateRows
    <3>3. Of(events', w) = Of(events, w) \cup {q.event}
      BY <2>1, <2>3 DEF Of
    <3>4. IsFiniteSet(Of(events, w))
      BY FS_Subset DEF StoreInv, Of
    <3>5. Cardinality(Of(events, w)) \in Nat
      BY <3>4, FS_CardinalityType
    <3>6. Cardinality(Of(events', w)) =
            IF q.event \in Of(events, w) THEN Cardinality(Of(events, w))
            ELSE Cardinality(Of(events, w)) + 1
      BY <3>3, <3>4, FS_AddElement
    <3> QED
      BY <1>1, <3>2, <3>5, <3>6
  <2> QED
    BY <2>2, <2>3
<1>6. CASE q \in ReplaceRequest /\ ReplaceMemoryStates(q.rows)
  <2>1. q.op = "replaceMemoryStates" /\ events' = events /\ states' = Overlay(states, q.rows)
    BY <1>6 DEF ReplaceRequest, ReplaceMemoryStates
  <2>2. q.rows[w] # None => states[w] # None /\ q.rows[w].attempts = states[w].attempts
    BY <2>1 DEF Overwritten
  <2>3. states'[w] = IF q.rows[w] # None THEN q.rows[w] ELSE states[w]
    BY <2>1 DEF Overlay
  <2>4. Counted(w)' = Counted(w)
    BY <2>2, <2>3 DEF Counted
  <2>5. Of(events', w) = Of(events, w)
    BY <2>1
  <2> QED
    BY <1>4, <2>4, <2>5
<1>7. CASE q \in InsertRequest /\ InsertWords(q.rows)
  <2>1. /\ events' = events
        /\ q.rows[w] # None => ~Exists(w)
        /\ q.rows[w] = None => states'[w] = states[w]
    BY <1>7 DEF InsertWords, Given
  <2>2. Of(events', w) = Of(events, w)
    BY <2>1
  <2>3. CASE q.rows[w] # None
    BY <1>2, <1>3, <2>1, <2>2, <2>3
  <2>4. CASE q.rows[w] = None
    BY <1>4, <2>1, <2>2, <2>4 DEF Counted
  <2> QED
    BY <2>3, <2>4
<1>8. CASE q \in UpdateRequest /\ UpdateWords(q.rows)
  BY <1>4, <1>8 DEF UpdateWords, Counted, Of
<1>9. CASE q \in DeleteRequest /\ DeleteWords(q.ids)
  <2>1. /\ events' = {e \in events : e.word \notin q.ids}
        /\ w \in q.ids => ~Exists(w)
        /\ w \notin q.ids => states'[w] = states[w]
    BY <1>9 DEF DeleteWords
  <2>2. CASE w \in q.ids
    BY <1>2, <1>3, <2>1, <2>2 DEF Of
  <2>3. CASE w \notin q.ids
    BY <1>4, <2>1, <2>3 DEF Counted, Of
  <2> QED
    BY <2>2, <2>3
<1> QED
  BY <1>5, <1>6, <1>7, <1>8, <1>9, CommitCases

LEMMA CommitKeepsCover ==
    ASSUME StoreInv, CoverInv, CommitElsewhere, history' = history
    PROVE  CoverInv'
<1>1. PICK q \in stray : Commit(q) /\ overwritten' = overwritten \cup Overwritten(q)
  BY DEF CommitElsewhere
<1>2. q \in Request /\ TablesTypeOK /\ KeysHold
  BY DEF StoreInv, StoreTypeOK, TablesTypeOK, CoverInv
<1>3. KeysHold'
  BY <1>1, <1>2, CommitKeepsKeys
<1>4. deleted \subseteq deleted' /\ \A e \in events : e.word \in deleted' \/ e \in events'
  BY <1>1, <1>2, CommitKeepsRead
<1>5. \A e \in history'.events : e.word \in deleted' \/ e \in events'
  BY <1>4 DEF CoverInv
<1>6. ASSUME NEW w \in WordIds, ~Explained(w)' PROVE Cardinality(Of(events', w)) <= Counted(w)'
  <2>1. w \notin Overwritten(q) /\ w \notin deleted' /\ ~Explained(w)
    BY <1>1, <1>4, <1>6 DEF Explained
  <2>2. Cardinality(Of(events, w)) <= Counted(w)
    BY <2>1 DEF CoverInv
  <2> QED
    BY <1>1, <1>2, <2>1, <2>2, CommitKeepsCount
<1> QED
  BY <1>3, <1>5, <1>6 DEF CoverInv

\* No action but those elsewhere changes the store, and the page keeps the events it
\* has read, reads all there are, or forgets them.
LEMMA CoverInvPreserved == HistoryInv /\ CoverInv /\ [Next]_vars => CoverInv'
<1> SUFFICES ASSUME HistoryInv, CoverInv, [Next]_vars PROVE CoverInv'
  OBVIOUS
<1>1. /\ StoreInv /\ MachineInv /\ history \in History
  BY HistoryInvParts DEF MachineInv, HistoryTypeOK
<1>2. CASE Elsewhere
  <2>1. history' = history
    BY <1>2 DEF Elsewhere, historyVars
  <2>2. CASE CommitElsewhere
    BY <1>1, <2>1, <2>2, CommitKeepsCover
  <2>3. CASE ~CommitElsewhere
    <3>1. UNCHANGED <<words, states, events, deleted, overwritten>>
      BY <1>2, <2>3 DEF Elsewhere, LoadItemElsewhere, AnswerElsewhere, RecalculateElsewhere,
                        InsertElsewhere, UpdateElsewhere, DeleteElsewhere, Decide,
                        tables, storeVars
    <3> QED
      BY <2>1, <3>1, ReadsKeepCover
  <2> QED
    BY <2>2, <2>3
<1>3. CASE ~Elsewhere
  <2>1. UNCHANGED <<words, states, events, deleted, overwritten>>
    BY <1>3 DEF Next, elsewhereVars, PageActs, Answered, Refused, CallLost, BrowserActs, ServerAnswers,
                TimePasses, Deploys, Tick, tables, storeVars, vars
  <2>2. CloseHistory => history'.events = {}
    BY DEF CloseHistory, ClosedHistory
  <2>3. StartLoading \/ ChangeQuery \/ LoadMore \/ SelectWord \/ CloseWord
          => history'.events = history.events
    BY <1>1 DEF StartLoading, ChangeQuery, LoadMore, SelectWord, CloseWord, Becomes, History
  <2>4. ReadHistoryEvents => history'.events = events
    BY <1>1 DEF ReadHistoryEvents, Becomes, History
  <2>5. ReadHistoryWords => history'.events = history.events
    <3>1. PICK active : active = [w \in WordIds |-> IF Active(w) THEN words[w].text ELSE None]
      OBVIOUS
    <3> QED
      BY <1>1, <3>1 DEF ReadHistoryWords, Becomes, History
  <2>6. HistoryLoaded => history'.events = {}
    BY <1>1 DEF HistoryLoaded, Becomes, History
  <2>7. HistoryNotLoaded => history'.events = {}
    BY <1>1 DEF HistoryNotLoaded, Becomes, History
  <2>8. ASSUME NEW f \in flights,
               FoundWord(f) \/ AttemptsLoaded(f) \/ WordNotFound(f) \/ AttemptsNotLoaded(f)
        PROVE  history'.events = history.events
    <3>1. FoundWord(f) => history'.events = history.events
      BY DEF FoundWord
    <3>2. AttemptsLoaded(f) => history'.events = history.events
      <4>1. PICK read : read = {e \in events : e.word = f.word}
        OBVIOUS
      <4> QED
        BY <1>1, <4>1 DEF AttemptsLoaded, Becomes, History
    <3>3. AttemptsNotLoaded(f) => history'.events = history.events
      BY <1>1 DEF AttemptsNotLoaded, Becomes, History
    <3> QED
      BY <2>8, <3>1, <3>2, <3>3 DEF WordNotFound
  <2>9. history'.events \in {history.events, events, {}}
    BY <1>3, <2>2, <2>3, <2>4, <2>5, <2>6, <2>7, <2>8
       DEF Next, PageActs, Answered, Refused, CallLost, Failed, BrowserActs, ServerAnswers,
           TimePasses, Deploys, OpenHistory, RefreshHistory, historyVars, vars
  <2> QED
    BY <2>1, <2>9, ReadsKeepCover
<1> QED
  BY <1>2, <1>3

\* While the memory rows are awaited, only their arrival makes the page ready.
LEMMA ReadyWhenLoaded ==
    ASSUME HistoryInv, [Next]_vars, history.step = "states", history'.state = "Ready"
    PROVE  HistoryLoaded
<1>1. /\ history \in History /\ history.state = "Loading"
      /\ \A f \in flights : ~f.awaited
  <2>1. MachineInv
    BY HistoryInvParts
  <2>2. history.state = "Loading"
    BY <2>1, HistoryAssumption DEF MachineInv, PageInv, StepWhileLoading
  <2> QED
    BY <2>1, <2>2, NoneAwaitedYet DEF MachineInv, HistoryTypeOK
<1>2. ~CloseHistory /\ ~StartLoading /\ history' # history
  BY <1>1 DEF CloseHistory, ClosedHistory, StartLoading, Becomes, History
<1>3. ~ChangeQuery /\ ~LoadMore /\ ~SelectWord /\ ~CloseWord
  BY <1>1 DEF ChangeQuery, LoadMore, SelectWord, CloseWord
<1>4. ~ReadHistoryEvents /\ ~ReadHistoryWords
  BY DEF ReadHistoryEvents, ReadHistoryWords
<1>5. ~HistoryNotLoaded
  BY <1>1 DEF HistoryNotLoaded, Becomes, History
<1>6. \A f \in flights :
        FoundWord(f) \/ AttemptsLoaded(f) \/ WordNotFound(f) \/ AttemptsNotLoaded(f)
          => history' = history
  BY <1>1 DEF FoundWord, AttemptsLoaded, WordNotFound, AttemptsNotLoaded
<1> QED
  BY <1>2, <1>3, <1>4, <1>5, <1>6
     DEF Next, PageActs, Answered, Refused, CallLost, Failed, BrowserActs, ServerAnswers,
         TimePasses, Deploys, Elsewhere, OpenHistory, RefreshHistory, historyVars, vars

\* What the list shows of a word are at least today's attempts of it.
LEMMA ShownCovers ==
    ASSUME HistoryInv, CoverInv, HistoryLoaded, NEW w \in WordIds
    PROVE  ShownAttempts(w) \in Nat /\ Cardinality(Of(TodaysEvents, w)) <= ShownAttempts(w)
<1>1. /\ history \in History /\ states \in StateRows /\ clock \in Nat
      /\ IsFiniteSet(history.events) /\ IsFiniteSet(events)
  BY HistoryInvParts, ClockType DEF MachineInv, HistoryTypeOK, PageInv, Finite, StoreInv, StoreTypeOK
<1>2. history'.summaries[w] = Summarised(w)
  <2>1. PICK summaries : summaries = [v \in WordIds |-> Summarised(v)]
    OBVIOUS
  <2>2. history'.summaries = summaries
    BY <1>1, <2>1 DEF HistoryLoaded, Becomes, History
  <2> QED
    BY <2>1, <2>2
<1>3. /\ IsFiniteSet(Of(history.events, w)) /\ IsFiniteSet(Of(events, w))
      /\ Of(TodaysEvents, w) \in SUBSET Of(history.events, w)
  <2>1. Of(history.events, w) \in SUBSET history.events /\ Of(events, w) \in SUBSET events
        /\ Of(TodaysEvents, w) \in SUBSET Of(history.events, w)
    BY DEF Of, TodaysEvents
  <2> QED
    BY <1>1, <2>1, FS_Subset
<1>4. /\ Cardinality(Of(history.events, w)) \in Nat /\ Cardinality(Of(events, w)) \in Nat
      /\ Cardinality(Of(TodaysEvents, w)) \in Nat
      /\ Cardinality(Of(TodaysEvents, w)) <= Cardinality(Of(history.events, w))
  BY <1>3, FS_Subset, FS_CardinalityType
<1>5. Explained(w) \/ Cardinality(Of(TodaysEvents, w)) <= Counted(w)
  <2> SUFFICES ASSUME ~Explained(w) PROVE Cardinality(Of(TodaysEvents, w)) <= Counted(w)
    OBVIOUS
  <2>1. Of(TodaysEvents, w) \in SUBSET Of(events, w)
    BY DEF Of, TodaysEvents, CoverInv, Explained
  <2>2. Cardinality(Of(TodaysEvents, w)) <= Cardinality(Of(events, w))
    BY <1>3, <2>1, FS_Subset
  <2>3. Cardinality(Of(events, w)) <= Counted(w) /\ Counted(w) \in Nat
    BY <1>1, CountedType DEF CoverInv
  <2> QED
    BY <1>4, <2>2, <2>3
<1>6. CASE Explained(w)
  <2>1. ShownAttempts(w) = Cardinality(Of(history.events, w))
    BY <1>6 DEF ShownAttempts, Of
  <2> QED
    BY <1>4, <2>1
<1>7. CASE ~Explained(w) /\ (history.words[w] = None \/ states[w] = None)
  <2>1. history'.summaries[w] = None
    BY <1>2, <1>7 DEF Summarised
  <2>2. ShownAttempts(w) = 0
    BY <1>7, <2>1 DEF ShownAttempts
  <2>3. CASE history.words[w] = None
    <3>1. Of(TodaysEvents, w) = {}
      BY <2>3 DEF Of, TodaysEvents
    <3>2. Cardinality(Of(TodaysEvents, w)) = 0
      BY <3>1, FS_EmptySet
    <3> QED
      BY <1>4, <2>2, <3>2
  <2>4. CASE states[w] = None
    BY <1>4, <1>5, <1>7, <2>2, <2>4 DEF Counted
  <2> QED
    BY <1>7, <2>3, <2>4
<1>8. CASE ~Explained(w) /\ history.words[w] # None /\ states[w] # None
  <2>1. Summarised(w) # None
    BY <1>1, <1>8, SummarisedAsRecord, SummariesAssumption
  <2>2. ShownAttempts(w) = states[w].attempts
    BY <1>2, <1>8, <2>1 DEF ShownAttempts, Summarised
  <2>3. states[w].attempts \in Nat
    BY <1>1, <1>8 DEF StateRows, StateRow
  <2> QED
    BY <1>5, <1>8, <2>2, <2>3 DEF Counted
<1> QED
  BY <1>6, <1>7, <1>8

\* The three reads of loadHistory make the header's count of today's attempts exceed the
\* list for no word but those with a row replaced by one that misses an answer, or deleted,
\* whatever answers, recalculations and changes to words arrive in between.
THEOREM TodayAlwaysCovered == Spec => TodayIsCovered
<1>1. HistoryInv /\ CoverInv /\ [Next]_vars =>
        [(history.step = "states" /\ history'.state = "Ready") =>
            history'.today <= MapThenSumSet(ShownAttempts, WordIds)]_vars
  <2> SUFFICES ASSUME HistoryInv, CoverInv, [Next]_vars,
                      history.step = "states", history'.state = "Ready"
               PROVE  history'.today <= MapThenSumSet(ShownAttempts, WordIds)
    OBVIOUS
  <2>1. HistoryLoaded
    BY ReadyWhenLoaded
  <2>2. PICK g : g = [w \in WordIds |-> ShownAttempts(w)]
    OBVIOUS
  <2>3. g \in [WordIds -> Nat]
    BY <2>1, <2>2, ShownCovers
  <2>4. PICK total : AddsUp(g, WordIds, total)
    BY <2>3, SummariesAssumption, SumExists
  <2>5. \E sum : AddsUp(g, WordIds, sum) /\ MapThenSumSet(ShownAttempts, WordIds) = sum[WordIds]
    <3> DEFINE Adds(sum) ==
                 sum = [s \in SUBSET WordIds |->
                          IF s = {} THEN 0
                          ELSE LET w == CHOOSE x \in s : TRUE IN ShownAttempts(w) + sum[s \ {w}]]
    <3>1. \A sum : Adds(sum) <=> AddsUp(g, WordIds, sum)
      BY <2>2 DEF AddsUp
    <3>2. MapThenSumSet(ShownAttempts, WordIds) = (CHOOSE sum : Adds(sum))[WordIds]
      BY DEF MapThenSumSet, MapThenFoldSet
    <3> HIDE DEF Adds
    <3> QED
      BY <2>4, <3>1, <3>2
  <2>6. PICK sum : AddsUp(g, WordIds, sum) /\ MapThenSumSet(ShownAttempts, WordIds) = sum[WordIds]
    BY <2>5
  <2>7. history \in History /\ IsFiniteSet(history.events)
    BY HistoryInvParts DEF MachineInv, HistoryTypeOK, PageInv, Finite
  <2>8. IsFiniteSet(TodaysEvents) /\ \A e \in TodaysEvents : e.word \in WordIds
    <3>1. TodaysEvents \in SUBSET history.events
      BY DEF TodaysEvents
    <3>2. history.events \subseteq PracticeEvent
      BY <2>7 DEF History
    <3> QED
      BY <2>7, <3>1, <3>2, FS_Subset DEF PracticeEvent
  <2>9. \A w \in WordIds : Cardinality(Of(TodaysEvents, w)) <= g[w]
    BY <2>1, <2>2, ShownCovers
  <2>10. Cardinality(TodaysEvents) <= sum[WordIds]
    BY <2>3, <2>6, <2>8, <2>9, SummariesAssumption, SumCovers
  <2>11. history'.today = Cardinality(TodaysEvents)
    <3>1. PICK today : today = Cardinality(TodaysEvents)
      OBVIOUS
    <3> QED
      BY <2>1, <2>7, <3>1 DEF HistoryLoaded, Becomes, History
  <2> QED
    BY <2>6, <2>10, <2>11
<1>2. HistoryInv /\ CoverInv /\ [Next]_vars => CoverInv'
  BY CoverInvPreserved
<1>3. Init => CoverInv
  BY CoverInvInitially
<1> QED
  BY <1>1, <1>2, <1>3, HistoryInvariant, PTL DEF Spec, TodayIsCovered
==============================================================================
