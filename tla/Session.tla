-------------------------------- MODULE Session --------------------------------
(***************************************************************************)
(* Signing in: apps/server/src/auth.ts in front of the worker              *)
(* (apps/server/src/worker.ts), and one browser, which follows redirects   *)
(* and keeps one cookie.  A session is a signed expiry time; the server    *)
(* remembers nothing.  Clocks have TicksPerSecond ticks a second, of which *)
(* sessions only see whole seconds.  `now' is given by whoever keeps time. *)
(***************************************************************************)
EXTENDS Integers

CONSTANTS
    Paths,           \* the application's paths
    Home,            \* "/"
    SessionSeconds,  \* _sessionDurationSeconds, the cookie's Max-Age too
    TicksPerSecond,
    Secrets,         \* signing secrets a deployment may have
    MaxDeployments,  \* bound on changes of secret
    MaxNesting,      \* bound on login pages, one in the next of another, asked for
    Nothing             \* absence: no cookie, no request, no configuration

Login  == "/login"
Logout == "/logout"

ASSUME PathsAssumption == Home \in Paths /\ {Login, Logout} \cap Paths = {}
ASSUME SecondsAssumption == SessionSeconds \in Nat \ {0} /\ TicksPerSecond \in Nat \ {0}
ASSUME SecretsAssumption == Nothing \notin Secrets /\ MaxDeployments \in Nat /\ MaxNesting \in Nat

VARIABLES
    secret,    \* AUTH_SIGNING_SECRET, Nothing when authentication is not configured
    deployed,  \* how often it changed
    jar,       \* the session cookie, or Nothing
    asking,    \* the page request the browser waits for, or Nothing
    screen,    \* what the browser shows
    hops,      \* history: redirects since the learner last asked for something
    wanted,    \* history: the location the learner last asked for
    signedIn   \* history: when and under which secret the browser signed in, or Nothing

sessionVars == <<secret, deployed, jar, asking, screen, hops, wanted, signedIn>>

(***************************************************************************)
(* A location is a page or /logout, reached through any number of login    *)
(* pages: _safeNext lets /login?next=/login?next=/practice through.        *)
(***************************************************************************)
Location == [logins: Nat, to: Paths \cup {Logout}]

At(to) == [logins |-> 0, to |-> to]
LoginPage(next) == [logins |-> next.logins + 1, to |-> next.to]

\* mutant: a login page without a next is not given Home
NextOfUnsafely(location) ==
    IF location = LoginPage(At(Home)) THEN Nothing
    ELSE [logins |-> location.logins - 1, to |-> location.to]

\* What the login page at a location has as its next.
NextOf(location) == [logins |-> location.logins - 1, to |-> location.to]

Cookie == [expiresAt: Nat, secret: Secrets, until: Nat]
PageRequest == [at: Location, password: {"right", "wrong"} \cup {Nothing}]
Screen == [kind: {"blank", "unavailable"}] \cup [kind: {"form"}, next: Location]
          \cup [kind: {"app"}, path: Paths]

\* Absence is no secret, no password, and no record.
ASSUME NothingAssumption ==
    /\ Nothing \notin Secrets \cup {"right", "wrong"}
    /\ Nothing \notin Cookie \cup PageRequest \cup [at: Nat, secret: Secrets]

Second(t) == t \div TicksPerSecond

Get(location) == [at |-> location, password |-> Nothing]

(***************************************************************************)
(* validSession                                                            *)
(***************************************************************************)
\* mutant: valid through the second it expires in
ValidThroughLastSecond(now) ==
    /\ jar # Nothing
    /\ jar.expiresAt >= Second(now)
    /\ jar.secret = secret

Authenticated(now) ==
    /\ jar # Nothing
    /\ jar.expiresAt > Second(now)
    /\ jar.secret = secret

(***************************************************************************)
(* The learner, who may ask for any location by its address.  _safeNext    *)
(* turns a next that is missing or leaves the site into Home.              *)
(***************************************************************************)
AskFor(location) ==
    /\ asking = Nothing
    /\ asking' = Get(location)
    /\ hops' = 0
    /\ wanted' = location
    /\ UNCHANGED <<secret, deployed, jar, screen, signedIn>>

Visit ==
    \/ \E p \in Paths : AskFor(At(p))
    \/ \E logins \in 1 .. MaxNesting, to \in Paths \cup {Logout} :
         AskFor([logins |-> logins, to |-> to])

SignOut == AskFor(At(Logout))

SubmitPassword ==
    /\ asking = Nothing
    /\ screen.kind = "form"
    /\ \E password \in {"right", "wrong"} :
         asking' = [at |-> LoginPage(screen.next), password |-> password]
    /\ hops' = 0
    /\ UNCHANGED <<secret, deployed, jar, screen, wanted, signedIn>>

\* The router of the application changes pages without asking the server.
Navigate ==
    /\ asking = Nothing
    /\ screen.kind = "app"
    /\ \E p \in Paths \ {screen.path} : screen' = [kind |-> "app", path |-> p]
    /\ UNCHANGED <<secret, deployed, jar, asking, hops, wanted, signedIn>>

(***************************************************************************)
(* authenticateRequest, one action per answer.                             *)
(***************************************************************************)
Show(s) == screen' = s /\ asking' = Nothing /\ UNCHANGED hops
Redirect(request) == asking' = request /\ hops' = hops + 1 /\ UNCHANGED screen

Configured == secret # Nothing

ServeUnconfigured ==
    /\ asking # Nothing
    /\ ~Configured
    /\ Show([kind |-> "unavailable"])
    /\ UNCHANGED <<secret, deployed, jar, wanted, signedIn>>

ServeLogout ==
    /\ Configured
    /\ asking # Nothing
    /\ asking.at = At(Logout)
    /\ jar' = Nothing
    /\ signedIn' = Nothing
    /\ wanted' = [wanted EXCEPT !.to = Home]
    /\ Redirect(Get(LoginPage(At(Home))))
    /\ UNCHANGED <<secret, deployed>>

\* mutant: any cookie will do
ServeLoginPageByCookie(now) ==
    /\ Configured
    /\ asking # Nothing
    /\ asking.at.logins > 0
    /\ asking.password = Nothing
    /\ IF jar # Nothing
       THEN Redirect(Get(NextOf(asking.at)))
       ELSE Show([kind |-> "form", next |-> NextOf(asking.at)])
    /\ UNCHANGED <<secret, deployed, jar, wanted, signedIn>>

ServeLoginPage(now) ==
    /\ Configured
    /\ asking # Nothing
    /\ asking.at.logins > 0
    /\ asking.password = Nothing
    /\ IF Authenticated(now)
       THEN Redirect(Get(NextOf(asking.at)))
       ELSE Show([kind |-> "form", next |-> NextOf(asking.at)])
    /\ UNCHANGED <<secret, deployed, jar, wanted, signedIn>>

\* mutant: next is forgotten
ServeWrongPasswordForgetting ==
    /\ Configured
    /\ asking # Nothing
    /\ asking.password = "wrong"
    /\ Redirect(Get(LoginPage(At(Home))))
    /\ UNCHANGED <<secret, deployed, jar, wanted, signedIn>>

ServeWrongPassword ==
    /\ Configured
    /\ asking # Nothing
    /\ asking.password = "wrong"
    /\ Redirect(Get(LoginPage(NextOf(asking.at))))
    /\ UNCHANGED <<secret, deployed, jar, wanted, signedIn>>

\* makeSession and sessionCookie; an earlier cookie is overwritten.
ServeRightPassword(now) ==
    /\ Configured
    /\ asking # Nothing
    /\ asking.password = "right"
    /\ jar' = [expiresAt |-> Second(now) + SessionSeconds, secret |-> secret,
               until |-> now + SessionSeconds * TicksPerSecond]
    /\ signedIn' = [at |-> now, secret |-> secret]
    /\ Redirect(Get(NextOf(asking.at)))
    /\ UNCHANGED <<secret, deployed, wanted>>

ServeApplication(now) ==
    /\ Configured
    /\ asking # Nothing
    /\ asking.at.logins = 0
    /\ asking.at.to \in Paths
    /\ IF Authenticated(now)
       THEN Show([kind |-> "app", path |-> asking.at.to])
       ELSE Redirect(Get(LoginPage(asking.at)))
    /\ UNCHANGED <<secret, deployed, jar, wanted, signedIn>>

Serve(now) ==
    \/ ServeUnconfigured \/ ServeLogout \/ ServeLoginPage(now)
    \/ ServeWrongPassword \/ ServeRightPassword(now) \/ ServeApplication(now)

\* Calls to /api: 401 without a valid session, 503 without configuration.
CallAllowed(now) == Configured /\ Authenticated(now)

(***************************************************************************)
(* Time passes: the browser drops a cookie that has reached its Max-Age.   *)
(* A new deployment may sign with another secret, or with none.            *)
(***************************************************************************)
CookieAges(now) ==
    /\ jar' = IF jar # Nothing /\ jar.until <= now THEN Nothing ELSE jar
    /\ UNCHANGED <<secret, deployed, asking, screen, hops, wanted, signedIn>>

Redeploy ==
    /\ deployed < MaxDeployments
    /\ deployed' = deployed + 1
    /\ secret' \in (Secrets \cup {Nothing}) \ {secret}
    /\ UNCHANGED <<jar, asking, screen, hops, wanted, signedIn>>

SessionInit ==
    /\ secret \in Secrets \cup {Nothing}
    /\ deployed = 0
    /\ jar = Nothing
    /\ asking = Nothing
    /\ screen = [kind |-> "blank"]
    /\ hops = 0
    /\ wanted = At(Home)
    /\ signedIn = Nothing

SessionTypeOK ==
    /\ secret \in Secrets \cup {Nothing}
    /\ deployed \in 0 .. MaxDeployments
    /\ jar \in Cookie \cup {Nothing}
    /\ asking \in PageRequest \cup {Nothing}
    /\ screen \in Screen
    /\ hops \in Nat
    /\ wanted \in Location
    /\ signedIn \in [at: Nat, secret: Secrets] \cup {Nothing}
==============================================================================
