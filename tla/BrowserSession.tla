--------------------------- MODULE BrowserSession ---------------------------
(***************************************************************************)
(* One browser's session as the web app keeps it alive: the cookie jar,    *)
(* the requests its tabs have in flight, the middleware, the API proxy and *)
(* the sign-out route of apps/web/mainapp, and behind them the handlers of *)
(* auth.controller.ts over the session store.                              *)
(*                                                                         *)
(* A request carries the cookies that the jar held when it was sent, and   *)
(* its answer changes the jar when it arrives: requests overlap, answers   *)
(* overtake each other and may be lost.  req[r] is a request in flight;    *)
(* "at" names what happens to it next.                                     *)
(***************************************************************************)
EXTENDS KeyValue

CONSTANTS User, Families, Tokens, Requests,
          None     \* no refresh cookie

ASSUME BrowserAssumption == None \notin Tokens

VARIABLES
    session, minted, opener, reply,  \* the session store
    jar,        \* the browser's cookies: an unexpired access JWT, a refresh token
    req,        \* the requests in flight
    home,       \* history: every token issued -> its family
    lost,       \* history: the tokens whose successor never reached the browser
    overlapped  \* history: the tokens that two requests carried at a time

store == <<session, minted, opener, reply>>
history == <<home, lost, overlapped>>
vars == <<session, minted, opener, reply, jar, req, home, lost, overlapped>>

Store == INSTANCE SessionStore WITH Users <- {User}

\* What the browser asks for: pages, and the server actions login,
\* changePassword and resetPassword that pages post, pass the middleware;
\* /api/auth/* does not.
PageKinds == {"page", "login", "change", "reset"}
PublicKinds == {"login", "reset"}
ApiKinds == {"refresh", "logout", "logout_all"}
Kinds == PageKinds \union ApiKinds

\* The requests whose handling depends on the access JWT.
AccessKinds == {"page", "change", "logout_all"}

\* What an answer does to the jar.  A redirect to /login leaves it alone.
Effects == {"set", "clear", "keep", "redirect"}

Idle == [at |-> "idle"]
Asked ==
    [at : {"gate", "rotate", "sign", "serve", "reissue"}, kind : Kinds,
     access : BOOLEAN,                \* an unexpired access JWT, where it matters
     token : Tokens \union {None},    \* the refresh token it carries
     ends : Tokens \union {None},     \* the session a sign-out is meant to end
     new : Tokens \union {None}]      \* the token a rotation minted for it
Answered ==
    [at : {"answer"}, effect : Effects,
     token : Tokens \union {None},    \* the token the request carried
     new : Tokens \union {None},      \* the token the answer sets
     ended : Tokens \union {None}]    \* the session a sign-out claims to have ended

InFlight == {r \in Requests : req[r] # Idle}

\* Types, and an answer that sets cookies sets a token that was issued.
TypeOK ==
    /\ Store!TypeOK
    /\ jar \in [access : BOOLEAN, refresh : minted \union {None}]
    /\ req \in [Requests -> {Idle} \union Asked \union Answered]
    /\ \A r \in InFlight :
           req[r].at = "answer" => (req[r].effect = "set" <=> req[r].new \in minted)
    /\ home \in [minted -> Families]
    /\ lost \subseteq minted
    /\ overlapped \subseteq minted

Init ==
    /\ Store!Init
    /\ jar = [access |-> FALSE, refresh |-> None]
    /\ req = [r \in Requests |-> Idle]
    /\ home = EmptyMap
    /\ lost = {}
    /\ overlapped = {}

Goto(r, at) == req' = [req EXCEPT ![r].at = at]
Respond(r, effect, new, ended) ==
    req' = [req EXCEPT ![r] = [at |-> "answer", effect |-> effect, token |-> req[r].token,
                               new |-> new, ended |-> ended]]
Answer(r, effect, new) == Respond(r, effect, new, None)

----------------------------------------------------------------------------
(* The browser sends, and the middleware looks                             *)

\* Mutant: the refresh cookie is scoped to the refresh endpoint alone.
CarriesToRefreshOnly(kind) == kind = "refresh"

\* The refresh cookie's path is /api/auth: no page ever gets it.
CarriesRefresh(kind) == kind \in ApiKinds

Send(r, kind) ==
    LET t == IF CarriesRefresh(kind) THEN jar.refresh ELSE None
    IN  /\ req[r] = Idle
        /\ req' = [req EXCEPT ![r] =
                     [at |-> IF kind \in PageKinds THEN "gate"
                             ELSE IF kind = "refresh" /\ t # None THEN "rotate"
                             ELSE "serve",
                      kind |-> kind, token |-> t,
                      access |-> jar.access /\ kind \in AccessKinds,
                      ends |-> IF kind = "logout" THEN jar.refresh ELSE None, new |-> None]]
        /\ overlapped' = overlapped \union (({t} \ {None}) \intersect {req[q].token : q \in InFlight})
        /\ UNCHANGED <<store, jar, home, lost>>

\* middleware(): an unexpired access token passes; else the session is
\* refreshed if the request has the cookie; else the public pages pass.
Gate(r) ==
    /\ req[r].at = "gate"
    /\ IF req[r].access THEN Goto(r, "serve")
       ELSE IF req[r].token # None THEN Goto(r, "rotate")
       ELSE IF req[r].kind \in PublicKinds THEN Goto(r, "serve")
       ELSE Answer(r, "redirect", None)
    /\ UNCHANGED <<store, jar, history>>

----------------------------------------------------------------------------
(* The refresh handler, for the proxy and for the middleware               *)

\* Mutant: the handler lets the error pass and leaves the cookies alone.
RefusedKeeping(r) == Answer(r, "keep", None)

\* Any error clears both cookies; the middleware does not copy them back.  (A
\* public page would still be served; none comes here, see CarriesRefresh.)
Refused(r) == Answer(r, IF req[r].kind \in PageKinds THEN "redirect" ELSE "clear", None)

RotateToken(r) ==
    \E n \in Tokens :
        /\ Store!RotateCurrent(req[r].token, n)
        /\ home' = Put(home, n, home[req[r].token])
        /\ req' = [req EXCEPT ![r].at = "sign", ![r].new = n]
        /\ UNCHANGED <<jar, lost, overlapped>>

RotateRefused(r) ==
    /\ Store!RotateUnknown(req[r].token) \/ Store!RotateReplayed(req[r].token)
    /\ Refused(r)
    /\ UNCHANGED <<jar, history>>

\* The script ran and its reply was lost: the Redis client sends it again.
ResendRotation(r) ==
    \E n \in Tokens :
        /\ Store!RotateCurrent(req[r].token, n)
        /\ home' = Put(home, n, home[req[r].token])
        /\ lost' = lost \union {req[r].token}
        /\ UNCHANGED <<req, jar, overlapped>>

Rotate(r) ==
    /\ req[r].at = "rotate"
    /\ RotateToken(r) \/ RotateRefused(r) \/ ResendRotation(r)

\* Mutant: the answer sets the access cookie only.
SignWithoutRefreshCookie(r) ==
    /\ req[r].at = "sign"
    /\ Answer(r, "set", None)
    /\ UNCHANGED <<store, jar, history>>

\* The user is read, the access JWT signed, and both cookies are set.
Sign(r) ==
    /\ req[r].at = "sign"
    /\ Answer(r, "set", req[r].new)
    /\ UNCHANGED <<store, jar, history>>

\* Redis, the database or the signing fails.
FailRefresh(r) ==
    /\ req[r].at \in {"rotate", "sign"}
    /\ Refused(r)
    /\ UNCHANGED <<store, jar, history>>

----------------------------------------------------------------------------
(* The other handlers                                                      *)

Serving(r, kind) == req[r].at = "serve" /\ req[r].kind = kind

\* A page that passed the gate, or a refresh without a token: no cookies.
ServeUnchanged(r) ==
    /\ Serving(r, "page") \/ Serving(r, "refresh")
    /\ Answer(r, "keep", None)
    /\ UNCHANGED <<store, jar, history>>

\* A new family for a login or for the session changePassword issues.
Issue(r) ==
    /\ Serving(r, "login") \/ req[r].at = "reissue"
    /\ \E f \in Families, n \in Tokens :
           /\ Store!CreateSession(User, f, n)
           /\ home' = Put(home, n, f)
           /\ Answer(r, "set", n)
    /\ UNCHANGED <<jar, lost, overlapped>>

\* logoutAll, and changePassword before it issues a session: both need the
\* access JWT and revoke what the store's index of the user names.
RevokeAll(r) ==
    /\ Serving(r, "logout_all") \/ Serving(r, "change")
    /\ req[r].access
    /\ \E F \in SUBSET Families : Store!RevokeListed(User, F)
    /\ IF req[r].kind = "change" THEN Goto(r, "reissue") ELSE Answer(r, "clear", None)
    /\ UNCHANGED <<jar, history>>

\* resetPassword: whoever has the mailed token revokes every session, this
\* browser's too, and is sent to /login with the cookies it had.
ResetPassword(r) ==
    /\ Serving(r, "reset")
    /\ \E F \in SUBSET Families : Store!RevokeListed(User, F)
    /\ Answer(r, "redirect", None)
    /\ UNCHANGED <<jar, history>>

\* The sign-out route: the token the request carries is revoked.
Logout(r) ==
    /\ Serving(r, "logout")
    /\ IF req[r].token = None THEN UNCHANGED store ELSE Store!Revoke(req[r].token)
    /\ Respond(r, "clear", None, req[r].ends)
    /\ UNCHANGED <<jar, history>>

\* A handler fails or refuses.  The sign-out route clears the cookies anyway.
Fail(r) ==
    /\ req[r].at \in {"serve", "reissue"}
    /\ req[r].kind \notin {"page", "refresh"}
    /\ Answer(r, IF req[r].kind = "logout" THEN "clear" ELSE "keep", None)
    /\ UNCHANGED <<store, jar, history>>

----------------------------------------------------------------------------
(* Answers reach the browser, or not; time passes                          *)

\* Mutant: the proxy copies the first Set-Cookie header of a refresh alone.
JarAfterFirstCookie(answer) ==
    CASE answer.effect = "set" ->
             [access |-> TRUE, refresh |-> IF answer.token = None THEN answer.new ELSE jar.refresh]
      [] answer.effect = "clear" -> [access |-> FALSE, refresh |-> None]
      [] OTHER -> jar

JarAfter(answer) ==
    CASE answer.effect = "set" -> [access |-> TRUE, refresh |-> answer.new]
      [] answer.effect = "clear" -> [access |-> FALSE, refresh |-> None]
      [] OTHER -> jar

Apply(r) ==
    /\ req[r].at = "answer"
    /\ jar' = JarAfter(req[r])
    /\ req' = [req EXCEPT ![r] = Idle]
    /\ UNCHANGED <<store, history>>

\* The answer never arrives, or it is the proxy that could not read it.
Lose(r) ==
    /\ req[r].at = "answer"
    /\ lost' = lost \union ({req[r].token} \ {None})
    /\ req' = [req EXCEPT ![r] = Idle]
    /\ UNCHANGED <<store, jar, home, overlapped>>

ExpireAccess ==
    /\ jar.access
    /\ jar' = [jar EXCEPT !.access = FALSE]
    /\ UNCHANGED <<store, req, history>>

ExpireRefreshCookie ==
    /\ jar.refresh # None
    /\ jar' = [jar EXCEPT !.refresh = None]
    /\ UNCHANGED <<store, req, history>>

\* Records in the session store expire.
Fade ==
    /\ \E T \in SUBSET Tokens : T # {} /\ Store!Fade(T)
    /\ UNCHANGED <<jar, req, history>>

Next ==
    \/ \E r \in Requests :
          \/ \E kind \in Kinds : Send(r, kind)
          \/ Gate(r) \/ Rotate(r) \/ Sign(r) \/ FailRefresh(r)
          \/ ServeUnchanged(r) \/ Issue(r) \/ RevokeAll(r) \/ ResetPassword(r)
          \/ Logout(r) \/ Fail(r)
          \/ Apply(r) \/ Lose(r)
    \/ ExpireAccess \/ ExpireRefreshCookie \/ Fade

Spec == Init /\ [][Next]_vars

----------------------------------------------------------------------------
(* Properties                                                              *)

Live(t) == t \in DOMAIN session /\ ~session[t].used

\* A retired token stays in the jar only while the answer that replaces it
\* is under way, or because that answer was lost.  The proxy copies every
\* Set-Cookie, and the refresh handler clears the cookies on every error.
JarIsCurrent ==
    jar.refresh \in DOMAIN session /\ session[jar.refresh].used =>
        \/ jar.refresh \in lost
        \/ \E r \in InFlight : req[r].token = jar.refresh /\ req[r].at \in {"sign", "answer"}

\* The reuse alarm is raised against the user's own browser only after two of
\* its requests carried the token at a time, or an answer was lost: a failure
\* between rotation and answer does not make it replay a token.
ReplaysAreExplained ==
    [][\A r \in InFlight :
          req[r].at = "rotate" /\ req'[r].at = "answer" /\ session' # session =>
              req[r].token \in lost \union overlapped]_vars

\* A sign-out that the auth-service served ends the session the jar held,
\* unless the token was forgotten: it was retired by a request that overlapped
\* another or whose answer was lost, and expired before its successor.
SignOutEndsSession ==
    \A r \in InFlight :
        req[r].at = "answer" /\ req[r].ended # None =>
            \/ Store!TokensOfFamily(home[req[r].ended]) = {}
            \/ req[r].ended \notin DOMAIN session /\ req[r].ended \in lost \union overlapped

\* The middleware's comment: a logged-in user is never bounced to /login just
\* because the access token expired.
NeverBouncedWhileSignedIn ==
    [][\A r \in Requests :
          req[r].at = "gate" /\ req'[r].at = "answer" /\ req'[r].effect = "redirect" =>
              ~Live(jar.refresh)]_vars
=============================================================================
