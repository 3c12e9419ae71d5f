------------------------------ MODULE Sessions ------------------------------
(***************************************************************************)
(* One browser's session: the cookies it holds, the requests it has in     *)
(* flight, the frontend's own server that renews the session on their      *)
(* behalf, and the refresh tokens the API keeps.                           *)
(*                                                                         *)
(* A request carries the cookies the browser held when it was sent, and    *)
(* reads those for as long as it is served; what it changes is written on  *)
(* its own answer and reaches the browser when that arrives, in any order. *)
(* The access token may be found stale, and the API may refuse it, at any  *)
(* time.  Signing in is two calls in the code and one here: what happens   *)
(* between them concerns nobody else.  Expiry after thirty days is left    *)
(* out, the cookies expire with it.                                        *)
(*                                                                         *)
(* In the database a rotation is its commit: until then nobody sees its    *)
(* two writes.  The deletion of a family is a statement that takes the     *)
(* rows committed when it began, under READ COMMITTED: what a rotation     *)
(* still open then inserts, it overlooks.                                  *)
(***************************************************************************)
EXTENDS Naturals, FiniteSets

CONSTANTS
  Sessions,   \* the sign-ins: each opens one family of refresh tokens
  Requests,   \* the requests the browser may have in flight
  None,       \* no value
  Other,      \* whoever an access-only session signs in: an owner, another user
  MaxTokens,  \* bound: refresh tokens of one family
  MaxLost     \* bound: calls and answers the network loses

Tokens == Sessions \X Nat

Family(t) == t[1]

\* The access and the expiry cookie, of which we keep whose they are, and the
\* refresh cookie.
Cookies == [who : Sessions \cup {Other, None}, refresh : Tokens \cup {None}]

ASSUME SessionsAssumption ==
  /\ None \notin Sessions /\ Other \notin Sessions /\ None /= Other
  /\ None \notin Tokens \cup Cookies
  /\ MaxTokens \in Nat /\ MaxLost \in Nat

-----------------------------------------------------------------------------
StoreSession(t) == [who |-> Family(t), refresh |-> t]
AccessOnlyKeepingRefresh(held) == [held EXCEPT !.who = Other]
AccessOnly(held) == [who |-> Other, refresh |-> None]
ClearSession == [who |-> None, refresh |-> None]

VARIABLES
  jar,        \* the browser's cookies
  request,    \* what each request is doing
  renewals,   \* calls to the API's refresh endpoint; heard: awaited by an exchange
  live,       \* the rows of refresh tokens not used yet
  spent,      \* the rows of those exchanged already
  count,      \* how many tokens of each family were issued
  overlooked, \* history: per family, where the rows begin its last deletion left; 0: none
  lost,       \* how many calls and answers the network lost
  over,       \* history: tokens whose exchange has ended
  unbroken,   \* history: sessions nothing out of the ordinary happened to
  signedOut   \* history: families whose sign-out the API has served

browser == <<jar, request>>
rows == <<live, spent, count, overlooked>>
history == <<over, unbroken, signedOut>>
vars == <<browser, renewals, rows, lost, history>>

\* A "call" goes through the proxy; a server function that calls the API itself
\* is a call nobody retries.  The rest sign in and out.
Kinds == {"call", "login", "access", "logout"}
SignsInOrOut == {"login", "access", "logout"}
Steps == {"idle", "sent", "waiting", "forwarded", "leaving", "deleting"}

\* since: how many tokens of the family were issued when whoever is about to
\* delete it found a row.
Request == [kind : Kinds, step : Steps, cookies : Cookies,
            answer : Cookies \cup {None}, retried : BOOLEAN, since : Nat]

Idle == [kind |-> "call", step |-> "idle", cookies |-> ClearSession,
         answer |-> None, retried |-> FALSE, since |-> 0]

Renewal == [token : Tokens, stage : {"sent", "rotate", "revoke", "reject", "done"},
            issued : Tokens \cup {None}, heard : BOOLEAN, since : Nat]

Rows == live \cup spent
OfFamily(f, T) == {t \in T : Family(t) = f}

Init ==
  /\ jar = ClearSession
  /\ request = [r \in Requests |-> Idle]
  /\ renewals = {}
  /\ live = {} /\ spent = {}
  /\ count = [f \in Sessions |-> 0] /\ overlooked = [f \in Sessions |-> 0]
  /\ lost = 0
  /\ over = {} /\ unbroken = {} /\ signedOut = {}

-----------------------------------------------------------------------------
(* The frontend's server: a request and the token it is to carry.          *)

Send(r) ==
  /\ request[r].step = "idle"
  /\ request' = [request EXCEPT ![r] =
                   [Idle EXCEPT !.step = "sent", !.cookies = jar]]
  /\ UNCHANGED <<jar, renewals, rows, lost, history>>

\* The stored token is fresh, or there is nothing to renew it with: the call
\* goes to the API, and what it answers is on its way from here on.
UseToken(r) ==
  /\ request[r].step = "sent"
  /\ request' = [request EXCEPT ![r].step = "forwarded"]
  /\ UNCHANGED <<jar, renewals, rows, lost, history>>

ExchangingForItself(t) == FALSE
Exchanging(t) == \E p \in renewals : p.heard /\ p.token = t

\* refreshSession: joins the exchange of its token or starts one.
RefreshSession(r, retried) ==
  LET t == request[r].cookies.refresh IN
  /\ t /= None
  /\ request' = [request EXCEPT ![r].step = "waiting", ![r].retried = retried]
  /\ \/ Exchanging(t) /\ UNCHANGED <<renewals, unbroken>>
     \/ /\ ~Exchanging(t)
        /\ count[Family(t)] + Cardinality({p \in renewals : Family(p.token) = Family(t)})
             < MaxTokens
        /\ renewals' = renewals \cup
             {[token |-> t, stage |-> "sent", issued |-> None, heard |-> TRUE, since |-> 0]}
        /\ unbroken' = IF t \in over THEN unbroken \ {Family(t)} ELSE unbroken
  /\ UNCHANGED <<jar, rows, lost, over, signedOut>>

\* The stored token is gone or about to expire.
Renew(r) == request[r].step = "sent" /\ RefreshSession(r, FALSE)

\* The API answered 401 to a proxied call, which is worth one renewal.
Retry(r) ==
  /\ request[r].step = "forwarded" /\ request[r].kind = "call"
  /\ ~request[r].retried
  /\ RefreshSession(r, TRUE)

\* The exchange of t has ended: everyone waiting for it writes the outcome on
\* an answer of their own.
Resume(t, issued) ==
  request' = [r \in Requests |->
    IF request[r].step = "waiting" /\ request[r].cookies.refresh = t
    THEN [request[r] EXCEPT !.step = "forwarded",
            !.answer = IF issued = None THEN ClearSession ELSE StoreSession(issued)]
    ELSE request[r]]

EndExchange(p) ==
  /\ p \in renewals /\ p.heard /\ p.stage = "done"
  /\ renewals' = renewals \ {p}
  /\ Resume(p.token, p.issued)
  /\ over' = over \cup {p.token}
  /\ UNCHANGED <<jar, rows, lost, unbroken, signedOut>>

-----------------------------------------------------------------------------
(* The API.                                                                *)

HasRowAlways(t) == TRUE
HasRow(t) == t \in Rows

ReadRow(p) ==
  /\ p \in renewals /\ p.stage = "sent"
  /\ renewals' = (renewals \ {p}) \cup
       {[p EXCEPT !.stage = IF p.token \notin Rows THEN "reject"
                            ELSE IF p.token \in spent THEN "revoke" ELSE "rotate",
                   !.since = IF p.token \in spent THEN count[Family(p.token)] ELSE 0]}
  /\ UNCHANGED <<browser, rows, lost, history>>

\* DELETE ... WHERE family: the statement sees the tokens issued before it
\* began, which are the first ones, and waits for the rows among them that an
\* open rotation has locked.
Seen(f, began) == {t \in OfFamily(f, Rows) : t[2] < began}
RevokeFamily(f, began) ==
  /\ live' = live \ Seen(f, began)
  /\ spent' = spent \ Seen(f, began)
  /\ overlooked' = [overlooked EXCEPT ![f] =
                      IF OfFamily(f, Rows) = Seen(f, began) THEN 0 ELSE began]

Committed(p, issued) ==
  renewals' = (renewals \ {p}) \cup
    (IF p.heard THEN {[p EXCEPT !.stage = "done", !.issued = issued, !.since = 0]} ELSE {})

\* The commit of update and insert.  The update of a row deleted meanwhile
\* fails, and the insert with it.
Rotate(p) ==
  LET new == <<Family(p.token), count[Family(p.token)]>> IN
  /\ p \in renewals /\ p.stage = "rotate"
  /\ IF HasRow(p.token)
     THEN /\ live' = (live \ {p.token}) \cup {new}
          /\ spent' = spent \cup {p.token}
          /\ count' = [count EXCEPT ![Family(p.token)] = @ + 1]
          /\ UNCHANGED overlooked
          /\ Committed(p, new)
     ELSE Committed(p, None) /\ UNCHANGED rows
  /\ UNCHANGED <<browser, lost, history>>

Refuse(p) ==
  /\ p \in renewals /\ p.stage \in {"revoke", "reject"}
  /\ \/ /\ p.stage = "revoke"
        /\ \E began \in p.since..count[Family(p.token)] :
             RevokeFamily(Family(p.token), began)
     \/ p.stage = "reject" /\ UNCHANGED <<live, spent, overlooked>>
  /\ Committed(p, None)
  /\ UNCHANGED <<browser, count, lost, history>>

\* The password was changed, here or in another browser: a deletion that may
\* have begun at any time since the session is there.
RevokeUserSessions(f) ==
  /\ \E began \in 1..count[f] : RevokeFamily(f, began)
  /\ unbroken' = unbroken \ {f}
  /\ UNCHANGED <<browser, renewals, count, lost, over, signedOut>>

-----------------------------------------------------------------------------
(* Signing in and out.                                                     *)

Login(r, f) ==
  /\ request[r].step = "idle" /\ count[f] = 0
  /\ live' = live \cup {<<f, 0>>}
  /\ count' = [count EXCEPT ![f] = 1]
  /\ request' = [request EXCEPT ![r] =
       [Idle EXCEPT !.kind = "login", !.step = "forwarded", !.cookies = jar,
                    !.answer = StoreSession(<<f, 0>>)]]
  /\ unbroken' = unbroken \cup {f}
  /\ UNCHANGED <<jar, renewals, spent, overlooked, lost, over, signedOut>>

\* The owner's panel, or an administrator acting as somebody else.
SignInAccessOnly(r) ==
  /\ request[r].step = "idle"
  /\ request' = [request EXCEPT ![r] =
       [Idle EXCEPT !.kind = "access", !.step = "forwarded", !.cookies = jar,
                    !.answer = AccessOnly(jar)]]
  /\ UNCHANGED <<jar, renewals, rows, lost, history>>

\* The cookies go whether or not the API can be told.
Logout(r) ==
  /\ request[r].step = "idle"
  /\ request' = [request EXCEPT ![r] =
       [Idle EXCEPT !.kind = "logout", !.cookies = jar, !.answer = ClearSession,
                    !.step = IF jar.refresh = None THEN "forwarded" ELSE "leaving"]]
  /\ unbroken' = unbroken \ {jar.who}
  /\ UNCHANGED <<jar, renewals, rows, lost, over, signedOut>>

\* The API looks for the token, and is done with one it does not know.
FindSession(r) ==
  LET t == request[r].cookies.refresh IN
  /\ request[r].step = "leaving"
  /\ \/ /\ t \in Rows
        /\ request' = [request EXCEPT ![r].step = "deleting",
                                      ![r].since = count[Family(t)]]
        /\ UNCHANGED signedOut
     \/ /\ t \notin Rows
        /\ request' = [request EXCEPT ![r].step = "forwarded"]
        /\ signedOut' = signedOut \cup {Family(t)}
  /\ UNCHANGED <<jar, renewals, rows, lost, over, unbroken>>

LogoutUser(r) ==
  LET f == Family(request[r].cookies.refresh) IN
  /\ request[r].step = "deleting"
  /\ \E began \in request[r].since..count[f] : RevokeFamily(f, began)
  /\ signedOut' = signedOut \cup {f}
  /\ request' = [request EXCEPT ![r].step = "forwarded", ![r].since = 0]
  /\ UNCHANGED <<jar, renewals, count, lost, over, unbroken>>

-----------------------------------------------------------------------------
(* Answers arrive, or calls and answers are lost.                          *)

\* The answer is older than what the browser holds by now.
Overtaken(r) ==
  LET a == request[r].answer IN
  \/ request[r].cookies.who /= jar.who
  \/ /\ jar.refresh /= None /\ a.refresh /= None
     /\ Family(a.refresh) = Family(jar.refresh) /\ a.refresh[2] < jar.refresh[2]

Deliver(r) ==
  LET a == request[r].answer IN
  /\ request[r].step = "forwarded"
  /\ jar' = IF a = None THEN jar ELSE a
  /\ unbroken' = IF a /= None /\ (request[r].kind \in {"login", "access"} \/ Overtaken(r))
                 THEN unbroken \ {jar.who} ELSE unbroken
  /\ request' = [request EXCEPT ![r] = Idle]
  /\ UNCHANGED <<renewals, rows, lost, over, signedOut>>

LoseAnswer(r) ==
  /\ lost < MaxLost /\ lost' = lost + 1
  /\ request[r].step = "forwarded"
  /\ request' = [request EXCEPT ![r] = Idle]
  /\ unbroken' = IF request[r].answer = None THEN unbroken
                 ELSE unbroken \ {request[r].answer.who}
  /\ UNCHANGED <<jar, renewals, rows, over, signedOut>>

LoseLogout(r) ==
  /\ lost < MaxLost /\ lost' = lost + 1
  /\ request[r].step = "leaving"
  /\ request' = [request EXCEPT ![r].step = "forwarded"]
  /\ UNCHANGED <<jar, renewals, rows, history>>

\* The exchange ends without an outcome, while the API may have the call.
LoseRenewal(p) ==
  /\ lost < MaxLost /\ lost' = lost + 1
  /\ p \in renewals /\ p.heard
  /\ \/ p.stage \in {"sent", "done"} /\ renewals' = renewals \ {p}
     \/ p.stage /= "done" /\ renewals' = (renewals \ {p}) \cup {[p EXCEPT !.heard = FALSE]}
  /\ Resume(p.token, None)
  /\ over' = over \cup {p.token}
  /\ unbroken' = unbroken \ {Family(p.token)}
  /\ UNCHANGED <<jar, rows, signedOut>>

Serve(r) ==
  \/ UseToken(r) \/ Renew(r) \/ Retry(r) \/ FindSession(r) \/ LogoutUser(r) \/ Deliver(r)
  \/ LoseAnswer(r) \/ LoseLogout(r)

Next ==
  \/ \E r \in Requests :
       \/ \E f \in Sessions : Login(r, f)
       \/ Send(r) \/ SignInAccessOnly(r) \/ Logout(r) \/ Serve(r)
  \/ \E p \in renewals : ReadRow(p) \/ Rotate(p) \/ Refuse(p) \/ EndExchange(p)
                           \/ LoseRenewal(p)
  \/ \E f \in Sessions : RevokeUserSessions(f)

Spec == Init /\ [][Next]_vars

-----------------------------------------------------------------------------
TypeOK ==
  /\ jar \in Cookies
  /\ request \in [Requests -> Request]
  /\ renewals \subseteq Renewal
  /\ live \subseteq Tokens /\ spent \subseteq Tokens
  /\ count \in [Sessions -> Nat] /\ overlooked \in [Sessions -> Nat]
  /\ lost \in 0..MaxLost
  /\ over \subseteq Tokens /\ unbroken \subseteq Sessions /\ signedOut \subseteq Sessions

Arriving(f) ==
  \E r \in Requests : request[r].kind = "login" /\ request[r].answer.who = f

Quiet == renewals = {} /\ \A r \in Requests : request[r].step = "idle"

(***************************************************************************)
(* A session in use lasts: however many requests find the token stale at   *)
(* once, in whatever order they are served and answered, the browser stays *)
(* signed in, the API keeps a token to renew it with, and once nothing is  *)
(* in flight that token is the browser's.  What does end a session is      *)
(* listed by the actions that take it out of unbroken: signing out or in   *)
(* again, a changed password, a lost answer, an older answer arriving over *)
(* a newer one, and a request that reaches for a token whose exchange has  *)
(* already ended (server/session.ts, exchangeOnce).                        *)
(***************************************************************************)
SessionSurvives ==
  \A f \in unbroken :
    /\ jar.who = f \/ Arriving(f)
    /\ OfFamily(f, live) /= {}
    /\ Quiet => jar.refresh \in live

(***************************************************************************)
(* After the API has served a sign-out nothing of that session can be      *)
(* renewed, a renewal already in flight and tokens rotated away included   *)
(* (LogoutUserHandler.Handle) - but for one gap: if a rotation committed   *)
(* while the family's last deletion was running, the token it issued and   *)
(* its successors outlive the sign-out.  They are the only ones that do.   *)
(***************************************************************************)
SignedOutIsRevoked ==
  \A f \in signedOut : \A t \in OfFamily(f, Rows) : overlooked[f] \in 1..t[2]

IdentityStep ==
  \A r \in Requests :
    request[r].step = "forwarded" /\ request'[r] = Idle /\ jar'.who /= jar.who
      => \/ request[r].kind \in SignsInOrOut
         \/ jar'.who \in {None, request[r].cookies.who}

(***************************************************************************)
(* The browser never slips into a session nobody signed in to: what it is  *)
(* signed in as changes with the answer to a sign-in or sign-out, by a     *)
(* session ending, or by an answer to a request sent in that very session. *)
(* An access-only session in particular is never renewed into the one      *)
(* before it (server/session.ts, storeAccessTokenOnlySession).             *)
(***************************************************************************)
IdentityChangesBySignIn == [][IdentityStep]_vars
=============================================================================
